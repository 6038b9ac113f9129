-------------------------- MODULE MCTaskControllers --------------------------
(***************************************************************************)
(* A small instance of TaskControllers for TLC.                            *)
(***************************************************************************)
EXTENDS TaskControllers

MCLoads == {
    [runs |-> 2, tasks |-> 0, forms |-> {"inline"}, delete |-> TRUE],
    [runs |-> 1, tasks |-> 0, forms |-> {"inline", "byname"}, delete |-> TRUE],
    [runs |-> 0, tasks |-> 2, forms |-> {}, delete |-> TRUE],
    [runs |-> 1, tasks |-> 1, forms |-> {"inline"}, delete |-> FALSE]}

=============================================================================
