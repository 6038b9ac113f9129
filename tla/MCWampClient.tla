---------------------------- MODULE MCWampClient ----------------------------
(***************************************************************************)
(* Small instances of WampClient for TLC.  Calls and correlation ids are   *)
(* interchangeable; the symmetry set is used for safety only.              *)
(***************************************************************************)
EXTENDS WampClient, TLC

ClientSymmetry == Permutations(Calls) \cup Permutations(CorrIds)

=============================================================================
