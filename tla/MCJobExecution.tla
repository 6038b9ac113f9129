--------------------------- MODULE MCJobExecution ---------------------------
(***************************************************************************)
(* Small instances of JobExecution for TLC.                                *)
(***************************************************************************)
EXTENDS JobExecution, TLC

JobSymmetry == Permutations(Jobs) \cup Permutations(JobIds)

=============================================================================
