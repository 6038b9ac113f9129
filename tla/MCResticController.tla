------------------------- MODULE MCResticController -------------------------
(***************************************************************************)
(* Instances of ResticController for TLC: no definition tells one Job id   *)
(* from another.                                                           *)
(***************************************************************************)
EXTENDS ResticController, TLC

ResticSymmetry == Permutations(JobIds)

=============================================================================
