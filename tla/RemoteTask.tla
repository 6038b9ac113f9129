----------------------------- MODULE RemoteTask -----------------------------
(***************************************************************************)
(* The RemoteTask reconciler of src/src/bin/remote-task-controller         *)
(* (remotetask.rs, create_taskrun of taskrun.rs): for a RemoteTask applied *)
(* by hand it creates a TaskRun of the same name, marks the RemoteTask     *)
(* running, and never looks at it again.                                   *)
(*                                                                         *)
(* It looks TaskRuns up by name, where the CustomRun reconciler looks them *)
(* up by label.  A RemoteTask is named here by the CustomRun whose TaskRun *)
(* has the same name: the CustomRun x and the RemoteTask x-exec both want  *)
(* the TaskRun x-exec.                                                     *)
(*                                                                         *)
(* External: the API server, its garbage collector, users, kube's watch.   *)
(***************************************************************************)
EXTENDS CustomRun

VARIABLES          \* the TaskRun under each name is CustomRun's taskrun
    task,          \* the RemoteTask under each name
    taskBorn,      \* the last uid given to each name
    copy,          \* what the watch delivered last to each controller
    due,           \* names each controller is to reconcile
    at, forUid,    \* the reconcile in progress, and the uid of its copy
    made,          \* history: uids a TaskRun was created for,
    madeTwice,     \*   those it was created for more than once,
    lost           \*   those whose TaskRun somebody deleted

taskVars == <<task, taskBorn>>
workVars == <<copy, due, at, forUid>>
madeVars == <<made, madeTwice, lost>>
remoteVars == <<task, taskBorn, copy, due, at, forUid, made, madeTwice, lost>>

Phases == {"Pending", "Running"}
NoTask == [uid |-> 0, phase |-> "Pending"]
Tasks == [uid : 0..MaxUid, phase : Phases]

TaskTypeOK ==
    /\ task \in [Runs -> Tasks]
    /\ taskBorn \in [Runs -> 0..MaxUid]
    /\ copy \in [Controllers -> [Runs -> Tasks]]
    /\ due \in [Controllers -> SUBSET Runs]
    /\ at \in [Controllers -> [Runs -> {"idle", "get", "create", "mark"}]]
    /\ forUid \in [Controllers -> [Runs -> 0..MaxUid]]
    /\ made \in [Runs -> SUBSET Uids]
    /\ madeTwice \in [Runs -> SUBSET Uids]
    /\ lost \in [Runs -> SUBSET Uids]

TaskInit ==
    /\ task = [t \in Runs |-> NoTask]
    /\ taskBorn = [t \in Runs |-> 0]
    /\ copy = [k \in Controllers |-> [t \in Runs |-> NoTask]]
    /\ due = [k \in Controllers |-> {}]
    /\ at = [k \in Controllers |-> [t \in Runs |-> "idle"]]
    /\ forUid = [k \in Controllers |-> [t \in Runs |-> 0]]
    /\ made = [t \in Runs |-> {}]
    /\ madeTwice = [t \in Runs |-> {}]
    /\ lost = [t \in Runs |-> {}]

-----------------------------------------------------------------------------
(***************************************************************************)
(* One reconcile.                                                          *)
(***************************************************************************)
GoOn(k, t, s) == at' = [at EXCEPT ![k][t] = s] /\ UNCHANGED <<forUid, due>>

\* Action::await_change(), or `?` and a requeue by error_policy after 30 s.
Leave(k, t, again) ==
    /\ at' = [at EXCEPT ![k][t] = "idle"]
    /\ forUid' = [forUid EXCEPT ![k][t] = 0]
    /\ due' = IF again THEN [due EXCEPT ![k] = @ \cup {t}] ELSE due

\* Only a copy without a phase, or Pending, is worked on.
Begin(k, t) ==
    /\ at[k][t] = "idle"
    /\ t \in due[k]
    /\ due' = [due EXCEPT ![k] = @ \ {t}]
    /\ IF copy[k][t].uid # 0 /\ copy[k][t].phase = "Pending"
         THEN /\ at' = [at EXCEPT ![k][t] = "get"]
              /\ forUid' = [forUid EXCEPT ![k][t] = copy[k][t].uid]
         ELSE UNCHANGED <<at, forUid>>
    /\ UNCHANGED <<taskrun, taskVars, copy, madeVars>>

\* get_opt() by name: any TaskRun of that name counts, whoever owns it.
GetOk(k, t) ==
    /\ at[k][t] = "get"
    /\ GoOn(k, t, IF taskrun[t].maker = "nobody" THEN "create" ELSE "mark")
    /\ UNCHANGED <<taskrun, taskVars, copy, madeVars>>

\* Mutant of TaskMade: the owner reference carries no uid.
TaskMadeUnowned(k, t) ==
    LET u == forUid[k][t] IN
    /\ taskrun' = [taskrun EXCEPT ![t] =
                      [maker |-> "other", owner |-> 0, status |-> "none"]]
    /\ made' = [made EXCEPT ![t] = @ \cup {u}]
    /\ madeTwice' = [madeTwice EXCEPT ![t] = IF u \in made[t] THEN @ \cup {u} ELSE @]
    /\ UNCHANGED lost

\* The API server makes the TaskRun, owned by the copy's uid, unlabelled.
TaskMade(k, t) ==
    LET u == forUid[k][t] IN
    /\ taskrun' = [taskrun EXCEPT ![t] =
                      [maker |-> "other", owner |-> u, status |-> "none"]]
    /\ made' = [made EXCEPT ![t] = @ \cup {u}]
    /\ madeTwice' = [madeTwice EXCEPT ![t] = IF u \in made[t] THEN @ \cup {u} ELSE @]
    /\ UNCHANGED lost

\* create_taskrun() returns Ok: created, or 409, whoever made the other one.
TaskCreateOk(k, t) ==
    /\ at[k][t] = "create"
    /\ IF taskrun[t].maker = "nobody"
         THEN TaskMade(k, t)
         ELSE UNCHANGED <<taskrun, madeVars>>
    /\ GoOn(k, t, "mark")
    /\ UNCHANGED <<taskVars, copy>>

\* mark_running() is a merge patch by name: no uid, no resourceVersion.
Marked(t) == task' = [task EXCEPT ![t].phase = "Running"]

MarkOk(k, t) ==
    /\ at[k][t] = "mark"
    /\ task[t].uid # 0
    /\ Marked(t)
    /\ Leave(k, t, FALSE)
    /\ UNCHANGED <<taskrun, taskBorn, copy, madeVars>>

\* Mutant of GetFails: the error is taken for "it exists".
GetFailsMarks(k, t) ==
    /\ at[k][t] = "get"
    /\ GoOn(k, t, "mark")
    /\ UNCHANGED <<taskrun, taskVars, copy, madeVars>>

GetFails(k, t) ==
    /\ at[k][t] = "get"
    /\ Leave(k, t, TRUE)
    /\ UNCHANGED <<taskrun, taskVars, copy, madeVars>>

\* Refused, or created with the answer lost.
TaskCreateFails(k, t) ==
    /\ at[k][t] = "create"
    /\ \/ UNCHANGED <<taskrun, madeVars>>
       \/ taskrun[t].maker = "nobody" /\ TaskMade(k, t)
    /\ Leave(k, t, TRUE)
    /\ UNCHANGED <<taskVars, copy>>

\* Mutant of MarkFails: nobody requeues.
MarkFailsForgotten(k, t) ==
    /\ at[k][t] = "mark"
    /\ task' = task \/ (task[t].uid # 0 /\ Marked(t))
    /\ Leave(k, t, FALSE)
    /\ UNCHANGED <<taskrun, taskBorn, copy, madeVars>>

\* 404, an error, or an answer that is lost.
MarkFails(k, t) ==
    /\ at[k][t] = "mark"
    /\ task' = task \/ (task[t].uid # 0 /\ Marked(t))
    /\ Leave(k, t, TRUE)
    /\ UNCHANGED <<taskrun, taskBorn, copy, madeVars>>

-----------------------------------------------------------------------------
(***************************************************************************)
(* The controller's runtime and the cluster.                               *)
(***************************************************************************)
TaskObserve(k, t) ==
    /\ copy[k][t] # task[t]
    /\ copy' = [copy EXCEPT ![k][t] = task[t]]
    /\ due' = [due EXCEPT ![k] = @ \cup {t}]
    /\ UNCHANGED <<taskrun, taskVars, at, forUid, madeVars>>

\* The process dies and is started again: it lists everything anew.
TaskRestart(k) ==
    /\ copy' = [copy EXCEPT ![k] = task]
    /\ due' = [due EXCEPT ![k] = {t \in Runs : task[t].uid # 0}]
    /\ at' = [at EXCEPT ![k] = [t \in Runs |-> "idle"]]
    /\ forUid' = [forUid EXCEPT ![k] = [t \in Runs |-> 0]]
    /\ UNCHANGED <<taskrun, taskVars, madeVars>>

TaskApply(t) ==
    /\ task[t].uid = 0
    /\ taskBorn[t] < MaxUid
    /\ taskBorn' = [taskBorn EXCEPT ![t] = @ + 1]
    /\ task' = [task EXCEPT ![t] = [uid |-> taskBorn'[t], phase |-> "Pending"]]
    /\ UNCHANGED <<taskrun, workVars, madeVars>>

TaskDelete(t) ==
    /\ task[t].uid # 0
    /\ task' = [task EXCEPT ![t] = NoTask]
    /\ UNCHANGED <<taskrun, taskBorn, workVars, madeVars>>

TaskRunGone(t) ==
    /\ taskrun[t].maker = "other"
    /\ taskrun' = [taskrun EXCEPT ![t] =
                      [maker |-> "nobody", owner |-> 0, status |-> "none"]]
    /\ lost' = [lost EXCEPT ![t] = @ \cup {taskrun[t].owner}]
    /\ UNCHANGED <<taskVars, workVars, made, madeTwice>>

\* The garbage collector removes a TaskRun without owner.
TaskCollect(t) == taskrun[t].owner # task[t].uid /\ TaskRunGone(t)

\* A user or a pruner deletes a TaskRun: once per owner, the bound.
TaskPrune(t) == taskrun[t].owner \notin lost[t] /\ TaskRunGone(t)

-----------------------------------------------------------------------------
TaskReconcile(k, t) ==
    \/ Begin(k, t) \/ GetOk(k, t) \/ GetFails(k, t) \/ TaskCreateOk(k, t)
    \/ TaskCreateFails(k, t) \/ MarkOk(k, t) \/ MarkFails(k, t)

TaskCluster(t) == TaskApply(t) \/ TaskDelete(t) \/ TaskCollect(t) \/ TaskPrune(t)

\* The watch catches up, and every request made again and again is answered.
TaskFairness ==
    \A k \in Controllers, t \in Runs :
        /\ WF_remoteVars(TaskObserve(k, t))
        /\ WF_remoteVars(Begin(k, t))
        /\ SF_remoteVars(GetOk(k, t))
        /\ SF_remoteVars(TaskCreateOk(k, t))
        /\ SF_remoteVars(MarkOk(k, t))

-----------------------------------------------------------------------------
(***************************************************************************)
(* Properties.                                                             *)
(***************************************************************************)

\* The script of a RemoteTask is started once: a second TaskRun is made for
\* it only after somebody deleted the first, whatever fails, restarts or is
\* reconciled from a stale copy.
TaskRunsOnce == \A t \in Runs : madeTwice[t] \subseteq lost[t]

\* Why: the TaskRun made for a uid is still there, or was deleted.
MadeInv ==
    \A t \in Runs, u \in Uids :
        u \in made[t] =>
            \/ taskrun[t].maker = "other" /\ taskrun[t].owner = u
            \/ u \in lost[t]

=============================================================================
