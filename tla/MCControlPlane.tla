--------------------------- MODULE MCControlPlane ---------------------------
(***************************************************************************)
(* ControlPlane on small instances.  Devices, jobs and connections are     *)
(* interchangeable, so the safety runs reduce by their permutations; the   *)
(* one with fairness does not.                                             *)
(***************************************************************************)
EXTENDS ControlPlane, TLC

CONSTANTS d1, d2, j1, j2, k1, c1, c2, c3

Symmetry == Permutations(Devices) \cup Permutations(Jobs) \cup Permutations(Conns)
=============================================================================
