----------------------------- MODULE MCRestarts -----------------------------
(***************************************************************************)
(* Restarts on small instances: two records and one key as model values.   *)
(***************************************************************************)
EXTENDS Restarts

CONSTANTS r1, r2, k1
=============================================================================
