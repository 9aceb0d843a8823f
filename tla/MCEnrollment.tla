---------------------------- MODULE MCEnrollment ----------------------------
(***************************************************************************)
(* Enrollment on small instances.  Machines, devices, tokens and keys are  *)
(* each interchangeable.                                                   *)
(***************************************************************************)
EXTENDS Enrollment, TLC

CONSTANTS m1, m2, d1, d2, t1, t2, k1, k2, k3

Symmetry ==
  Permutations(Machines) \cup Permutations(Devices)
  \cup Permutations(Tokens) \cup Permutations(Keys)
=============================================================================
