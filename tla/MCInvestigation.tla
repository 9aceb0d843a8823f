-------------------------- MODULE MCInvestigation --------------------------
(***************************************************************************)
(* Investigation on a small instance: two operators.                       *)
(***************************************************************************)
EXTENDS Investigation

CONSTANTS ann, bob
=============================================================================
