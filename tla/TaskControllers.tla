--------------------------- MODULE TaskControllers ---------------------------
(***************************************************************************)
(* The remote-task-controller process (main.rs): the CustomRun and the     *)
(* RemoteTask reconciler run side by side, die together, and share the     *)
(* names of TaskRuns.                                                      *)
(***************************************************************************)
EXTENDS RemoteTask

CONSTANT Loads   \* how often users apply [runs, tasks] under each name,
                 \* what the CustomRuns ask for (forms), and whether they
                 \* delete them

VARIABLE load    \* what users do in this behaviour

allVars == <<vars, remoteVars, load>>

BothInit ==
    /\ Init
    /\ TaskInit
    /\ load \in Loads
    /\ "byname" \notin load.forms => refExists

\* One process: both controllers come up again, and list everything anew.
RestartBoth(k) ==
    /\ Restart(k)
    /\ TaskRestart(k)

BothNext ==
    /\ UNCHANGED load
    /\ \/ /\ \/ \E k \in Controllers, c \in Runs :
                   Reconcile(k, c) \/ Observe(k, c) \/ MetadataEvent(k, c)
             \/ \E c \in Runs :
                   \/ born[c] < load.runs /\ Apply(c) /\ run'[c].form \in load.forms
                   \/ load.delete /\ (Delete(c) \/ Prune(c))
                   \/ Tekton(c) \/ TektonStarts(c) \/ Collect(c)
             \/ "byname" \in load.forms /\ RefChanges
          /\ UNCHANGED remoteVars
       \/ /\ \/ \E k \in Controllers, t \in Runs : TaskReconcile(k, t) \/ TaskObserve(k, t)
             \/ \E t \in Runs :
                   \/ taskBorn[t] < load.tasks /\ TaskApply(t)
                   \/ load.delete /\ TaskDelete(t)
                   \/ TaskCollect(t) \/ TaskPrune(t)
          /\ UNCHANGED <<run, born, refExists, ctlVars, histVars>>
       \/ \E k \in Controllers : RestartBoth(k)

BothSpec == BothInit /\ [][BothNext]_allVars

BothFairSpec == BothSpec /\ Fairness /\ TaskFairness

-----------------------------------------------------------------------------
(***************************************************************************)
(* Properties.                                                             *)
(***************************************************************************)
BothTypeOK == TypeOK /\ TaskTypeOK

\* A RemoteTask is marked running only once a TaskRun took its name: its own,
\* its predecessor's, or that of the CustomRun whose TaskRun is named alike.
\* Where the name is used once and not shared, its own script was started.
RunningIsBacked ==
    \A t \in Runs :
        task[t].phase = "Running" =>
            \E u \in 1..task[t].uid : u \in made[t] \/ started[t] # {}

\* A RemoteTask is handed to Tekton, or deleted, although requests fail and
\* controllers restart.
TasksHandedOff ==
    \A t \in Runs :
        (task[t].uid # 0) ~> (task[t].uid = 0 \/ task[t].phase = "Running")

\* Every CustomRun ends, is deleted, or waits for a RemoteTask's TaskRun that
\* has its name; once that one is gone, this holds of it anew.
RunsEndUnlessNameTaken ==
    \A c \in Runs :
        (run[c].uid # 0 /\ run[c].form \in Ours)
            ~> \/ run[c].uid = 0 \/ Terminal(run[c].status)
               \/ taskrun[c].maker = "other"

=============================================================================
