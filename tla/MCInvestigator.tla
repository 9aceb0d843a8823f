--------------------------- MODULE MCInvestigator ---------------------------
(***************************************************************************)
(* Investigator with three checks and limits in the order of the defaults  *)
(* of Budget.                                                              *)
(***************************************************************************)
EXTENDS Investigator

CONSTANTS c1, c2, c3
=============================================================================
