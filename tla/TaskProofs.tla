----------------------------- MODULE TaskProofs -----------------------------
(***************************************************************************)
(* Proofs about TaskControllers: both reconcilers over any names, shared   *)
(* or not, any number of controller processes and of uids, and whatever    *)
(* users apply and delete.                                                 *)
(***************************************************************************)
EXTENDS TaskControllers, CustomRunProofs

RunInv == CtlInv /\ DataInv /\ OnceInv /\ RealInv

\* A reconcile works on the copy of a RemoteTask that existed, and a TaskRun
\* without label has an owner.
OwnersExist ==
    /\ \A k \in Controllers, t \in Runs : at[k][t] # "idle" => forUid[k][t] # 0
    /\ \A t \in Runs : taskrun[t].maker = "other" => taskrun[t].owner # 0

OnceEach == MadeInv /\ TaskRunsOnce

\* Copies and history know only uids that were given to the name.
UidsGiven ==
    \A t \in Runs :
        /\ task[t].uid \in {0, taskBorn[t]}
        /\ \A k \in Controllers :
              copy[k][t].uid <= taskBorn[t] /\ forUid[k][t] <= taskBorn[t]
        /\ \A u \in made[t] : u <= taskBorn[t]

\* A TaskRun was made under the name: what is running, and what is about to
\* be marked so.
Backed(t) == made[t] # {} \/ started[t] # {}
BackedInv ==
    \A t \in Runs :
        /\ taskrun[t].maker # "nobody" => Backed(t)
        /\ \A k \in Controllers : at[k][t] = "mark" => Backed(t)
        /\ task[t].phase = "Running" => task[t].uid # 0 /\ Backed(t)

TaskInv == TaskTypeOK /\ OwnersExist /\ OnceEach /\ UidsGiven /\ BackedInv

-----------------------------------------------------------------------------
(***************************************************************************)
(* What the CustomRun reconciler does to TaskRuns, seen from RemoteTask:   *)
(* it makes labelled ones where there is none, and removes only such.      *)
(***************************************************************************)
LabelledMoves ==
    \A t \in Runs :
        /\ started[t] \subseteq started'[t]
        /\ \/ taskrun'[t].maker = taskrun[t].maker /\ taskrun'[t].owner = taskrun[t].owner
           \/ /\ taskrun[t].maker = "nobody" /\ taskrun'[t].maker = "us"
              /\ started'[t] # {}
           \/ taskrun[t].maker = "us" /\ taskrun'[t].maker = "nobody"

LEMMA RunMoves ==
  ASSUME CtlInv, DataInv,
         \/ \E k \in Controllers, c \in Runs :
               Reconcile(k, c) \/ Observe(k, c) \/ MetadataEvent(k, c)
         \/ \E k \in Controllers : Restart(k)
         \/ \E c \in Runs :
               \/ Apply(c) \/ Delete(c) \/ Prune(c)
               \/ Tekton(c) \/ TektonStarts(c) \/ Collect(c)
         \/ RefChanges
  PROVE  LabelledMoves
<1> USE DEF DataInv, ApiTypes, HistTypes
<1>1. ASSUME UNCHANGED <<taskrun, started>> PROVE LabelledMoves
  BY <1>1 DEF LabelledMoves
<1>2. ASSUME NEW k \in Controllers, NEW c \in Runs,
             taskrun[c].maker = "nobody", Made(k, c)
      PROVE  LabelledMoves
  BY <1>2 DEF LabelledMoves, Made
<1>3. ASSUME NEW k \in Controllers, NEW c \in Runs,
             Reconcile(k, c) \/ Observe(k, c) \/ MetadataEvent(k, c)
      PROVE  LabelledMoves
  <2>1. UNCHANGED <<taskrun, started>>
           \/ (taskrun[c].maker = "nobody" /\ Made(k, c))
    BY <1>3 DEF Reconcile, Start, FindOk, FindFails, Resolve, CreateOk,
       CreateFails, PatchOk, PatchFails, Observe, MetadataEvent, apiVars, histVars
  <2> QED BY <1>1, <1>2, <2>1
<1>4. ASSUME NEW c \in Runs, Prune(c) \/ Collect(c)
      PROVE  LabelledMoves
  BY <1>4 DEF LabelledMoves, Prune, Collect, Gone, NoTaskRun
<1>5. ASSUME NEW c \in Runs, Tekton(c) \/ TektonStarts(c)
      PROVE  LabelledMoves
  <2>1. UNCHANGED started
    BY <1>5 DEF Tekton, TektonStarts, histVars
  <2>2. PICK s \in Statuses : taskrun' = [taskrun EXCEPT ![c].status = s]
    BY <1>5 DEF Tekton, TektonStarts, Statuses
  <2> QED BY <2>1, <2>2 DEF LabelledMoves
<1>6. ASSUME NEW c \in Runs, Apply(c) \/ Delete(c)
      PROVE  LabelledMoves
  BY <1>1, <1>6 DEF Apply, Delete, histVars
<1>7. ASSUME NEW k \in Controllers, Restart(k)
      PROVE  LabelledMoves
  BY <1>1, <1>7 DEF Restart, apiVars, histVars
<1>8. CASE RefChanges
  BY <1>1, <1>8 DEF RefChanges, histVars
<1> QED BY <1>3, <1>4, <1>5, <1>6, <1>7, <1>8

LEMMA LabelledKeeps ==
  ASSUME TaskInv, LabelledMoves, UNCHANGED remoteVars
  PROVE  TaskInv'
<1> USE DEF remoteVars
<1>1. TaskTypeOK' /\ UidsGiven'
  BY DEF TaskInv, TaskTypeOK, UidsGiven
<1>2. OwnersExist'
  BY DEF TaskInv, OwnersExist, LabelledMoves
<1>3. OnceEach'
  BY DEF TaskInv, OnceEach, MadeInv, TaskRunsOnce, LabelledMoves
<1>4. BackedInv'
  BY DEF TaskInv, BackedInv, Backed, LabelledMoves
<1> QED BY <1>1, <1>2, <1>3, <1>4 DEF TaskInv

-----------------------------------------------------------------------------
(***************************************************************************)
(* And the other way round: RemoteTask makes and removes unlabelled ones.  *)
(***************************************************************************)
LEMMA UnlabelledKeeps ==
  ASSUME RunInv, UNCHANGED <<run, born, refExists, ctlVars, histVars>>,
         taskrun' \in [Runs -> [maker : {"nobody", "us", "other"},
                                owner : 0..MaxUid, status : Statuses]],
         \A c \in Runs : \/ taskrun'[c] = taskrun[c]
                         \/ taskrun[c].maker # "us" /\ taskrun'[c].maker # "us"
  PROVE  RunInv'
<1>1. CtlInv'
  BY ClusterFrame DEF RunInv
<1>2. DataInv'
  BY DEF RunInv, DataInv, ApiTypes, HistTypes, OwnerKnown, histVars
<1>3. OnceInv'
  BY DEF RunInv, OnceInv, StartedInv, StillThere, ScriptRunsOnce, histVars
<1>4. RealInv'
  BY RealFrame DEF RunInv, RealInv, histVars, ctlVars
<1> QED BY <1>1, <1>2, <1>3, <1>4 DEF RunInv

LEMMA RunFrame ==
  ASSUME RunInv, UNCHANGED taskrun,
         UNCHANGED <<run, born, refExists, ctlVars, histVars>>
  PROVE  RunInv'
  BY UnlabelledKeeps DEF RunInv, DataInv, ApiTypes

-----------------------------------------------------------------------------
(***************************************************************************)
(* The RemoteTask reconciler.                                              *)
(***************************************************************************)

\* A step of a reconcile that makes no TaskRun and patches nothing.
LEMMA WorkKeeps ==
  ASSUME TaskInv, UNCHANGED <<taskrun, started, taskVars, madeVars>>,
         copy' \in [Controllers -> [Runs -> Tasks]],
         due' \in [Controllers -> SUBSET Runs],
         at' \in [Controllers -> [Runs -> {"idle", "get", "create", "mark"}]],
         forUid' \in [Controllers -> [Runs -> 0..MaxUid]],
         \A k \in Controllers, t \in Runs :
            /\ copy'[k][t].uid <= taskBorn[t] /\ forUid'[k][t] <= taskBorn[t]
            /\ at'[k][t] # "idle" => forUid'[k][t] # 0
            /\ at'[k][t] = "mark" => Backed(t)
  PROVE  TaskInv'
<1> USE DEF taskVars, madeVars
<1>1. TaskTypeOK'
  BY DEF TaskInv, TaskTypeOK
<1>2. OwnersExist' /\ UidsGiven'
  BY DEF TaskInv, OwnersExist, UidsGiven
<1>3. OnceEach'
  BY DEF TaskInv, OnceEach, MadeInv, TaskRunsOnce
<1>4. BackedInv'
  BY DEF TaskInv, BackedInv, Backed
<1> QED BY <1>1, <1>2, <1>3, <1>4 DEF TaskInv

LEMMA TaskMadeKeeps ==
  ASSUME RunInv, TaskInv, NEW k \in Controllers, NEW t \in Runs,
         at[k][t] # "idle", taskrun[t].maker = "nobody", TaskMade(k, t),
         UNCHANGED <<taskVars, copy>>,
         UNCHANGED <<run, born, refExists, ctlVars, histVars>>,
         due' \in [Controllers -> SUBSET Runs],
         at' \in [Controllers -> [Runs -> {"idle", "get", "create", "mark"}]],
         forUid' \in [Controllers -> [Runs -> 0..MaxUid]],
         \A l \in Controllers, s \in Runs :
            /\ forUid'[l][s] <= taskBorn[s]
            /\ at'[l][s] # "idle" => forUid'[l][s] # 0
            /\ at'[l][s] = "mark" => at[l][s] = "mark" \/ s = t
  PROVE  RunInv' /\ TaskInv'
<1> DEFINE u == forUid[k][t]
<1>1. u \in Uids
  BY CustomRunAssumption DEF TaskInv, TaskTypeOK, OwnersExist, Uids
<1>2. /\ taskrun \in [Runs -> [maker : {"nobody", "us", "other"},
                               owner : 0..MaxUid, status : Statuses]]
      /\ taskrun' = [taskrun EXCEPT ![t] =
                        [maker |-> "other", owner |-> u, status |-> "none"]]
  BY DEF RunInv, DataInv, ApiTypes, TaskMade
<1>3. taskrun' \in [Runs -> [maker : {"nobody", "us", "other"},
                             owner : 0..MaxUid, status : Statuses]]
  BY <1>1, <1>2, CustomRunAssumption DEF Uids, Statuses
<1>4. RunInv'
  BY <1>2, <1>3, UnlabelledKeeps
<1>5. /\ made' = [made EXCEPT ![t] = @ \cup {u}] /\ lost' = lost
      /\ madeTwice' = [madeTwice EXCEPT ![t] = IF u \in made[t] THEN @ \cup {u} ELSE @]
  BY DEF TaskMade
<1>6. TaskTypeOK'
  BY <1>1, <1>5 DEF TaskInv, TaskTypeOK, taskVars
<1>7. OwnersExist'
  BY <1>1, <1>2, CustomRunAssumption DEF TaskInv, OwnersExist, Uids
<1>8. \A v \in made[t] : v \in lost[t]
  BY DEF TaskInv, OnceEach, MadeInv, TaskTypeOK
<1>9. OnceEach'
  BY <1>1, <1>2, <1>5, <1>8
     DEF TaskInv, OnceEach, MadeInv, TaskRunsOnce, TaskTypeOK
<1>10. UidsGiven'
  BY <1>5 DEF TaskInv, UidsGiven, TaskTypeOK, taskVars
<1>11. Backed(t)' /\ \A s \in Runs : Backed(s) => Backed(s)'
  BY <1>5 DEF Backed, TaskInv, TaskTypeOK, histVars
<1>12. BackedInv'
  BY <1>2, <1>11 DEF TaskInv, BackedInv, taskVars
<1> QED BY <1>4, <1>6, <1>7, <1>9, <1>10, <1>12 DEF TaskInv

\* mark_running() marks whatever RemoteTask has the name by then.
LEMMA MarkedKeeps ==
  ASSUME TaskInv, NEW k \in Controllers, NEW t \in Runs, NEW again \in BOOLEAN,
         at[k][t] = "mark", task[t].uid # 0, Marked(t), Leave(k, t, again),
         UNCHANGED <<taskrun, started, taskBorn, copy, madeVars>>
  PROVE  TaskInv'
<1> USE DEF madeVars, Leave
<1>1. /\ task \in [Runs -> Tasks] /\ Backed(t)
      /\ task' = [task EXCEPT ![t].phase = "Running"]
  BY DEF TaskInv, TaskTypeOK, BackedInv, Marked
<1>2. /\ task' \in [Runs -> Tasks]
      /\ \A s \in Runs : /\ task'[s].uid = task[s].uid
                         /\ task'[s].phase = "Running" => task[s].phase = "Running" \/ s = t
  BY <1>1 DEF Tasks, Phases
<1>3. TaskTypeOK'
  BY <1>2, CustomRunAssumption DEF TaskInv, TaskTypeOK
<1>4. OwnersExist'
  BY DEF TaskInv, TaskTypeOK, OwnersExist
<1>5. UidsGiven'
  <2>1. \A l \in Controllers, s \in Runs :
           /\ taskBorn[s] \in 0..MaxUid
           /\ forUid'[l][s] = forUid[l][s] \/ forUid'[l][s] = 0
    BY DEF TaskInv, TaskTypeOK
  <2>2. \A l \in Controllers, s \in Runs : forUid'[l][s] <= taskBorn[s]
    BY <2>1, CustomRunAssumption DEF TaskInv, UidsGiven
  <2> QED BY <1>2, <2>2 DEF TaskInv, UidsGiven
<1>6. OnceEach'
  BY DEF TaskInv, OnceEach, MadeInv, TaskRunsOnce
<1>7. \A s \in Runs, l \in Controllers : at'[l][s] = "mark" => at[l][s] = "mark"
  BY DEF TaskInv, TaskTypeOK
<1>8. BackedInv'
  BY <1>1, <1>2, <1>7 DEF TaskInv, BackedInv, Backed
<1> QED BY <1>3, <1>4, <1>5, <1>6, <1>8 DEF TaskInv

LEMMA TaskReconcileKeeps ==
  ASSUME RunInv, TaskInv, NEW k \in Controllers, NEW t \in Runs,
         TaskReconcile(k, t), UNCHANGED <<run, born, refExists, ctlVars, histVars>>
  PROVE  RunInv' /\ TaskInv'
<1> USE DEF Tasks, TaskTypeOK, OwnersExist, UidsGiven, BackedInv
<1>0. UNCHANGED started
  BY DEF histVars
<1>1. TaskTypeOK /\ OwnersExist /\ UidsGiven /\ BackedInv
  BY DEF TaskInv
<1>2. ASSUME UNCHANGED taskrun PROVE RunInv'
  BY <1>2, RunFrame
<1>3. CASE Begin(k, t)
  <2>1. TaskInv'
    <3>1. /\ due' \in [Controllers -> SUBSET Runs]
          /\ UNCHANGED <<taskrun, taskVars, copy, madeVars>>
      BY <1>1, <1>3 DEF Begin
    <3>2. \/ UNCHANGED <<at, forUid>>
          \/ /\ copy[k][t].uid # 0
             /\ at' = [at EXCEPT ![k][t] = "get"]
             /\ forUid' = [forUid EXCEPT ![k][t] = copy[k][t].uid]
      BY <1>3 DEF Begin
    <3>3. CASE UNCHANGED <<at, forUid>>
      BY <1>0, <1>1, <3>1, <3>3, WorkKeeps
    <3>4. CASE /\ copy[k][t].uid # 0
               /\ at' = [at EXCEPT ![k][t] = "get"]
               /\ forUid' = [forUid EXCEPT ![k][t] = copy[k][t].uid]
      <4>1. /\ at' \in [Controllers -> [Runs -> {"idle", "get", "create", "mark"}]]
            /\ forUid' \in [Controllers -> [Runs -> 0..MaxUid]]
            /\ copy' \in [Controllers -> [Runs -> Tasks]]
        BY <1>1, <3>1, <3>4
      <4>2. ASSUME NEW l \in Controllers, NEW s \in Runs
            PROVE  /\ copy'[l][s].uid <= taskBorn[s] /\ forUid'[l][s] <= taskBorn[s]
                   /\ at'[l][s] # "idle" => forUid'[l][s] # 0
                   /\ at'[l][s] = "mark" => Backed(s)
        BY <1>1, <3>1, <3>4
      <4> QED BY <1>0, <3>1, <4>1, <4>2, WorkKeeps
    <3> QED BY <3>2, <3>3, <3>4
  <2> QED BY <1>2, <1>3, <2>1 DEF Begin
<1>4. CASE GetOk(k, t)
  <2>1. TaskInv'
    BY <1>0, <1>1, <1>4, WorkKeeps DEF GetOk, GoOn
  <2> QED BY <1>2, <1>4, <2>1 DEF GetOk
<1>5. CASE GetFails(k, t)
  <2>1. TaskInv'
    BY <1>0, <1>1, <1>5, WorkKeeps, CustomRunAssumption DEF GetFails, Leave
  <2> QED BY <1>2, <1>5, <2>1 DEF GetFails
<1>6. CASE TaskCreateOk(k, t)
  <2>1. CASE taskrun[t].maker = "nobody"
    <3>1. /\ TaskMade(k, t) /\ at[k][t] = "create"
          /\ at' = [at EXCEPT ![k][t] = "mark"] /\ UNCHANGED <<forUid, due>>
          /\ UNCHANGED <<taskVars, copy>>
      BY <1>6, <2>1 DEF TaskCreateOk, GoOn
    <3>2. at' \in [Controllers -> [Runs -> {"idle", "get", "create", "mark"}]]
      BY <1>1, <3>1
    <3>3. ASSUME NEW l \in Controllers, NEW s \in Runs
          PROVE  /\ forUid'[l][s] <= taskBorn[s]
                 /\ at'[l][s] # "idle" => forUid'[l][s] # 0
                 /\ at'[l][s] = "mark" => at[l][s] = "mark" \/ s = t
      BY <1>1, <3>1
    <3> QED BY <1>1, <2>1, <3>1, <3>2, <3>3, TaskMadeKeeps
  <2>2. CASE taskrun[t].maker # "nobody"
    <3>1. TaskInv'
      BY <1>0, <1>1, <1>6, <2>2, WorkKeeps DEF TaskCreateOk, GoOn
    <3> QED BY <1>2, <1>6, <2>2, <3>1 DEF TaskCreateOk
  <2> QED BY <2>1, <2>2
<1>7. CASE TaskCreateFails(k, t)
  <2>1. CASE taskrun[t].maker = "nobody" /\ TaskMade(k, t)
    <3>1. /\ at[k][t] = "create"
          /\ at' = [at EXCEPT ![k][t] = "idle"]
          /\ forUid' = [forUid EXCEPT ![k][t] = 0]
          /\ due' = [due EXCEPT ![k] = @ \cup {t}]
          /\ UNCHANGED <<taskVars, copy>>
      BY <1>7 DEF TaskCreateFails, Leave
    <3>2. /\ at' \in [Controllers -> [Runs -> {"idle", "get", "create", "mark"}]]
          /\ forUid' \in [Controllers -> [Runs -> 0..MaxUid]]
          /\ due' \in [Controllers -> SUBSET Runs]
      BY <1>1, <3>1, CustomRunAssumption
    <3>3. ASSUME NEW l \in Controllers, NEW s \in Runs
          PROVE  /\ forUid'[l][s] <= taskBorn[s]
                 /\ at'[l][s] # "idle" => forUid'[l][s] # 0
                 /\ at'[l][s] = "mark" => at[l][s] = "mark" \/ s = t
      BY <1>1, <3>1, CustomRunAssumption
    <3> QED BY <2>1, <3>1, <3>2, <3>3, TaskMadeKeeps
  <2>2. CASE UNCHANGED <<taskrun, madeVars>>
    <3>1. TaskInv'
      BY <1>0, <1>1, <1>7, <2>2, WorkKeeps, CustomRunAssumption DEF TaskCreateFails, Leave
    <3> QED BY <1>2, <2>2, <3>1
  <2> QED BY <1>7, <2>1, <2>2 DEF TaskCreateFails
<1>8. CASE MarkOk(k, t)
  <2>1. TaskInv'
    BY <1>0, <1>8, MarkedKeeps DEF MarkOk
  <2> QED BY <1>2, <1>8, <2>1 DEF MarkOk
<1>9. CASE MarkFails(k, t)
  <2>1. CASE task' = task
    <3>1. TaskInv'
      BY <1>0, <1>1, <1>9, <2>1, WorkKeeps, CustomRunAssumption DEF MarkFails, Leave, taskVars
    <3> QED BY <1>2, <1>9, <3>1 DEF MarkFails
  <2>2. CASE task[t].uid # 0 /\ Marked(t)
    <3>1. TaskInv'
      BY <1>0, <1>9, <2>2, MarkedKeeps DEF MarkFails
    <3> QED BY <1>2, <1>9, <3>1 DEF MarkFails
  <2> QED BY <1>9, <2>1, <2>2 DEF MarkFails
<1> QED BY <1>3, <1>4, <1>5, <1>6, <1>7, <1>8, <1>9 DEF TaskReconcile

-----------------------------------------------------------------------------
(***************************************************************************)
(* The watch, the process and the cluster.                                 *)
(***************************************************************************)
LEMMA TaskObserveKeeps ==
  ASSUME TaskInv, NEW k \in Controllers, NEW t \in Runs, TaskObserve(k, t),
         UNCHANGED started
  PROVE  TaskInv'
<1>1. TaskTypeOK /\ OwnersExist /\ UidsGiven /\ BackedInv
  BY DEF TaskInv
<1>2. /\ UNCHANGED <<taskrun, taskVars, at, forUid, madeVars>>
      /\ copy' = [copy EXCEPT ![k][t] = task[t]]
      /\ due' \in [Controllers -> SUBSET Runs]
  BY <1>1 DEF TaskObserve, TaskTypeOK
<1>3. ASSUME NEW s \in Runs PROVE task[s].uid <= taskBorn[s]
  <2>1. task[s].uid \in {0, taskBorn[s]} /\ taskBorn[s] \in 0..MaxUid
    BY <1>1 DEF TaskTypeOK, UidsGiven
  <2> QED BY <2>1, CustomRunAssumption
<1> QED BY <1>1, <1>2, <1>3, WorkKeeps
        DEF Tasks, TaskTypeOK, OwnersExist, UidsGiven, BackedInv

LEMMA TaskRestartKeeps ==
  ASSUME TaskInv, NEW k \in Controllers, TaskRestart(k), UNCHANGED started
  PROVE  TaskInv'
<1>1. TaskTypeOK /\ OwnersExist /\ UidsGiven /\ BackedInv
  BY DEF TaskInv
<1>2. {t \in Runs : task[t].uid # 0} \in SUBSET Runs
  OBVIOUS
<1>3. /\ UNCHANGED <<taskrun, taskVars, madeVars>>
      /\ copy' = [copy EXCEPT ![k] = task]
      /\ due' \in [Controllers -> SUBSET Runs]
      /\ at' = [at EXCEPT ![k] = [t \in Runs |-> "idle"]]
      /\ forUid' = [forUid EXCEPT ![k] = [t \in Runs |-> 0]]
  BY <1>1, <1>2 DEF TaskRestart, TaskTypeOK
<1>4. ASSUME NEW t \in Runs PROVE task[t].uid <= taskBorn[t] /\ 0 <= taskBorn[t]
  <2>1. task[t].uid \in {0, taskBorn[t]} /\ taskBorn[t] \in 0..MaxUid
    BY <1>1 DEF TaskTypeOK, UidsGiven
  <2> QED BY <2>1, CustomRunAssumption
<1> QED BY <1>1, <1>3, <1>4, WorkKeeps, CustomRunAssumption
        DEF Tasks, TaskTypeOK, OwnersExist, UidsGiven, BackedInv

LEMMA TaskUsersKeep ==
  ASSUME TaskInv, NEW t \in Runs, TaskApply(t) \/ TaskDelete(t), UNCHANGED started
  PROVE  TaskInv'
<1> USE DEF workVars, madeVars
<1>1. UNCHANGED <<taskrun, workVars, madeVars>>
  BY DEF TaskApply, TaskDelete
<1>2. task \in [Runs -> Tasks] /\ taskBorn \in [Runs -> 0..MaxUid]
  BY DEF TaskInv, TaskTypeOK
<1>3. /\ task' \in [Runs -> Tasks] /\ taskBorn' \in [Runs -> 0..MaxUid]
      /\ \A s \in Runs :
            /\ taskBorn[s] <= taskBorn'[s]
            /\ \/ task'[s] = task[s] /\ taskBorn'[s] = taskBorn[s]
               \/ task'[s].uid \in {0, taskBorn'[s]} /\ task'[s].phase = "Pending"
  <2>1. CASE TaskApply(t)
    <3> DEFINE n == taskBorn[t] + 1
    <3>1. /\ n \in 0..MaxUid /\ taskBorn' = [taskBorn EXCEPT ![t] = n]
          /\ task' = [task EXCEPT ![t] = [uid |-> n, phase |-> "Pending"]]
      BY <1>2, <2>1, CustomRunAssumption DEF TaskApply
    <3>2. [uid |-> n, phase |-> "Pending"] \in Tasks
      BY <3>1 DEF Tasks, Phases
    <3> QED BY <1>2, <3>1, <3>2, CustomRunAssumption
  <2>2. CASE TaskDelete(t)
    <3>1. taskBorn' = taskBorn /\ task' = [task EXCEPT ![t] = NoTask]
      BY <2>2 DEF TaskDelete
    <3>2. NoTask \in Tasks /\ NoTask.uid = 0 /\ NoTask.phase = "Pending"
      BY CustomRunAssumption DEF NoTask, Tasks, Phases
    <3> QED BY <1>2, <3>1, <3>2, CustomRunAssumption
  <2> QED BY <2>1, <2>2
<1>4. TaskTypeOK'
  BY <1>1, <1>3 DEF TaskInv, TaskTypeOK
<1>5. OwnersExist' /\ OnceEach'
  BY <1>1 DEF TaskInv, OwnersExist, OnceEach, MadeInv, TaskRunsOnce
<1>6. UidsGiven'
  <2>1. ASSUME NEW s \in Runs, NEW k \in Controllers
        PROVE  copy'[k][s].uid <= taskBorn'[s] /\ forUid'[k][s] <= taskBorn'[s]
    BY <1>1, <1>2, <1>3, CustomRunAssumption DEF TaskInv, UidsGiven, TaskTypeOK, Tasks
  <2>2. ASSUME NEW s \in Runs, NEW u \in made'[s]
        PROVE  u <= taskBorn'[s]
    BY <1>1, <1>2, <1>3, CustomRunAssumption DEF TaskInv, UidsGiven, TaskTypeOK, Uids
  <2>3. \A s \in Runs : task'[s].uid \in {0, taskBorn'[s]}
    BY <1>3 DEF TaskInv, UidsGiven
  <2> QED BY <2>1, <2>2, <2>3 DEF UidsGiven
<1>7. BackedInv'
  BY <1>1, <1>3 DEF TaskInv, BackedInv, Backed
<1> QED BY <1>4, <1>5, <1>6, <1>7 DEF TaskInv

LEMMA TaskRunGoneKeeps ==
  ASSUME RunInv, TaskInv, NEW t \in Runs, TaskRunGone(t),
         UNCHANGED <<run, born, refExists, ctlVars, histVars>>
  PROVE  RunInv' /\ TaskInv'
<1> USE DEF workVars, taskVars, histVars
<1>1. /\ taskrun \in [Runs -> [maker : {"nobody", "us", "other"},
                               owner : 0..MaxUid, status : Statuses]]
      /\ taskrun[t].maker = "other"
      /\ taskrun' = [taskrun EXCEPT ![t] =
                        [maker |-> "nobody", owner |-> 0, status |-> "none"]]
      /\ lost' = [lost EXCEPT ![t] = @ \cup {taskrun[t].owner}]
      /\ UNCHANGED <<taskVars, workVars, made, madeTwice>>
  BY DEF RunInv, DataInv, ApiTypes, TaskRunGone
<1>2. taskrun[t].owner \in Uids
  BY <1>1, CustomRunAssumption DEF TaskInv, OwnersExist, Uids
<1>3. taskrun' \in [Runs -> [maker : {"nobody", "us", "other"},
                             owner : 0..MaxUid, status : Statuses]]
  BY <1>1, CustomRunAssumption DEF Statuses
<1>4. RunInv'
  BY <1>1, <1>3, UnlabelledKeeps
<1>5. TaskTypeOK'
  BY <1>1, <1>2 DEF TaskInv, TaskTypeOK
<1>6. OwnersExist' /\ UidsGiven'
  BY <1>1 DEF TaskInv, OwnersExist, UidsGiven
<1>7. OnceEach'
  BY <1>1 DEF TaskInv, TaskTypeOK, OnceEach, MadeInv, TaskRunsOnce
<1>8. BackedInv'
  BY <1>1 DEF TaskInv, BackedInv, Backed
<1> QED BY <1>4, <1>5, <1>6, <1>7, <1>8 DEF TaskInv

-----------------------------------------------------------------------------
LEMMA BothInitHolds == BothInit => RunInv /\ TaskInv
<1> SUFFICES ASSUME Init, TaskInit PROVE RunInv /\ TaskInv
  BY DEF BothInit
<1>1. RunInv
  BY InitAll, RealInit DEF RunInv
<1>2. NoTask \in Tasks /\ NoTask.uid = 0 /\ NoTask.phase = "Pending"
  BY CustomRunAssumption DEF NoTask, Tasks, Phases
<1>3. TaskTypeOK
  BY <1>2, CustomRunAssumption DEF TaskInit, TaskTypeOK
<1>4. OwnersExist
  BY DEF Init, TaskInit, OwnersExist, NoTaskRun
<1>5. OnceEach
  BY DEF TaskInit, OnceEach, MadeInv, TaskRunsOnce
<1>6. UidsGiven
  <2>1. ASSUME NEW t \in Runs
        PROVE  /\ task[t].uid = 0 /\ taskBorn[t] = 0 /\ made[t] = {}
               /\ \A k \in Controllers : copy[k][t].uid = 0 /\ forUid[k][t] = 0
    BY <1>2 DEF TaskInit
  <2>2. 0 <= 0
    OBVIOUS
  <2> QED BY <2>1, <2>2 DEF UidsGiven
<1>7. BackedInv
  BY <1>2 DEF Init, TaskInit, BackedInv, NoTaskRun
<1> QED BY <1>1, <1>3, <1>4, <1>5, <1>6, <1>7 DEF TaskInv

LEMMA NextKeepsRun ==
  ASSUME RunInv, [Next]_vars PROVE RunInv'
  BY StepAll, RealStep DEF RunInv

LEMMA BothStep ==
  RunInv /\ TaskInv /\ [BothNext]_allVars => (RunInv /\ TaskInv)'
<1> SUFFICES ASSUME RunInv, TaskInv, [BothNext]_allVars
             PROVE  RunInv' /\ TaskInv'
  OBVIOUS
<1> DEFINE
      RunStep ==
         \/ \E k \in Controllers, c \in Runs :
               Reconcile(k, c) \/ Observe(k, c) \/ MetadataEvent(k, c)
         \/ \E k \in Controllers : Restart(k)
         \/ \E c \in Runs :
               \/ Apply(c) \/ Delete(c) \/ Prune(c)
               \/ Tekton(c) \/ TektonStarts(c) \/ Collect(c)
         \/ RefChanges
      Frame == UNCHANGED <<run, born, refExists, ctlVars, histVars>>
<1>1. ASSUME RunStep, UNCHANGED remoteVars
      PROVE  RunInv' /\ TaskInv'
  <2>1. Next
    BY <1>1 DEF Next, Cluster
  <2>2. LabelledMoves
    BY <1>1, RunMoves DEF RunInv
  <2> QED BY <1>1, <2>1, <2>2, NextKeepsRun, LabelledKeeps
<1>2. ASSUME NEW k \in Controllers, NEW t \in Runs, Frame,
             TaskReconcile(k, t) \/ TaskObserve(k, t)
      PROVE  RunInv' /\ TaskInv'
  <2>1. CASE TaskReconcile(k, t)
    BY <1>2, <2>1, TaskReconcileKeeps
  <2>2. CASE TaskObserve(k, t)
    <3>1. UNCHANGED taskrun /\ UNCHANGED started
      BY <1>2, <2>2 DEF TaskObserve, histVars
    <3>2. RunInv'
      BY <1>2, <3>1, RunFrame
    <3> QED BY <2>2, <3>1, <3>2, TaskObserveKeeps
  <2> QED BY <1>2, <2>1, <2>2
<1>3. ASSUME NEW t \in Runs, Frame,
             TaskApply(t) \/ TaskDelete(t) \/ TaskCollect(t) \/ TaskPrune(t)
      PROVE  RunInv' /\ TaskInv'
  <2>1. CASE TaskApply(t) \/ TaskDelete(t)
    <3>1. UNCHANGED taskrun /\ UNCHANGED started
      BY <1>3, <2>1 DEF TaskApply, TaskDelete, histVars
    <3>2. RunInv'
      BY <1>3, <3>1, RunFrame
    <3> QED BY <2>1, <3>1, <3>2, TaskUsersKeep
  <2>2. CASE TaskCollect(t) \/ TaskPrune(t)
    BY <1>3, <2>2, TaskRunGoneKeeps DEF TaskCollect, TaskPrune
  <2> QED BY <1>3, <2>1, <2>2
<1>4. ASSUME NEW k \in Controllers, RestartBoth(k)
      PROVE  RunInv' /\ TaskInv'
  <2>1. Next /\ UNCHANGED started
    BY <1>4 DEF RestartBoth, Restart, Next, histVars
  <2> QED BY <1>4, <2>1, NextKeepsRun, TaskRestartKeeps DEF RestartBoth
<1>5. CASE UNCHANGED allVars
  <2>1. UNCHANGED <<vars, remoteVars, taskrun, started>>
    BY <1>5 DEF allVars, vars, apiVars, histVars
  <2>2. LabelledMoves
    BY <2>1 DEF LabelledMoves
  <2> QED BY <2>1, <2>2, NextKeepsRun, LabelledKeeps
<1>6. CASE BothNext
  <2>1. CASE RunStep /\ UNCHANGED remoteVars
    BY <1>1, <2>1
  <2>2. CASE /\ Frame
             /\ \/ \E k \in Controllers, t \in Runs :
                      TaskReconcile(k, t) \/ TaskObserve(k, t)
                \/ \E t \in Runs : TaskApply(t) \/ TaskDelete(t)
                                   \/ TaskCollect(t) \/ TaskPrune(t)
    BY <1>2, <1>3, <2>2
  <2>3. CASE \E k \in Controllers : RestartBoth(k)
    BY <1>4, <2>3
  <2> QED BY <1>6, <2>1, <2>2, <2>3 DEF BothNext
<1> QED BY <1>5, <1>6

-----------------------------------------------------------------------------
(***************************************************************************)
(* Success is final in the two reconcilers together: RemoteTask's TaskRuns *)
(* come and go only where this controller has none.                        *)
(***************************************************************************)
LEMMA TaskSparesOurs ==
  ASSUME DataInv, NEW t \in Runs,
         \/ \E k \in Controllers : TaskReconcile(k, t) \/ TaskObserve(k, t)
         \/ TaskApply(t) \/ TaskDelete(t) \/ TaskCollect(t) \/ TaskPrune(t)
  PROVE  \A d \in Runs : DoneTaskRun(d) => taskrun'[d] = taskrun[d]
<1> USE DEF DataInv, ApiTypes
<1>1. ASSUME NEW k \in Controllers, TaskReconcile(k, t)
      PROVE  taskrun' = taskrun \/ (taskrun[t].maker = "nobody" /\ TaskMade(k, t))
  BY <1>1 DEF TaskReconcile, Begin, GetOk, GetFails, TaskCreateOk,
     TaskCreateFails, MarkOk, MarkFails
<1>2. ASSUME NEW k \in Controllers, taskrun[t].maker = "nobody", TaskMade(k, t)
      PROVE  \A d \in Runs : DoneTaskRun(d) => taskrun'[d] = taskrun[d]
  <2>1. \E r : taskrun' = [taskrun EXCEPT ![t] = r]
    BY <1>2 DEF TaskMade
  <2> QED BY <1>2, <2>1 DEF DoneTaskRun
<1>3. CASE TaskRunGone(t)
  <2>1. \E r : taskrun' = [taskrun EXCEPT ![t] = r]
    BY <1>3 DEF TaskRunGone
  <2>2. taskrun[t].maker = "other"
    BY <1>3 DEF TaskRunGone
  <2> QED BY <2>1, <2>2 DEF DoneTaskRun
<1>4. CASE \/ TaskApply(t) \/ TaskDelete(t)
           \/ \E k \in Controllers : TaskObserve(k, t)
  BY <1>4 DEF TaskApply, TaskDelete, TaskObserve
<1> QED BY <1>1, <1>2, <1>3, <1>4 DEF TaskCollect, TaskPrune

LEMMA BothFinalStep ==
  ASSUME OneController
  PROVE  RunInv /\ FinalInv /\ [BothNext]_allVars
            => FinalInv' /\ \A c \in Runs : KeepsSuccess(c)
<1> SUFFICES ASSUME RunInv, FinalInv, [BothNext]_allVars
             PROVE  FinalInv' /\ \A c \in Runs : KeepsSuccess(c)
  OBVIOUS
<1>1. CASE [Next]_vars
  BY <1>1, FinalStep DEF RunInv
<1>2. ASSUME NEW t \in Runs,
             UNCHANGED <<run, born, refExists, ctlVars, histVars>>,
             \/ \E k \in Controllers : TaskReconcile(k, t) \/ TaskObserve(k, t)
             \/ TaskApply(t) \/ TaskDelete(t) \/ TaskCollect(t) \/ TaskPrune(t)
      PROVE  FinalInv' /\ \A c \in Runs : KeepsSuccess(c)
  <2>1. \A d \in Runs : DoneTaskRun(d) => taskrun'[d] = taskrun[d]
    BY <1>2, TaskSparesOurs DEF RunInv
  <2>2. UNCHANGED <<run, pc, intent, removed>>
    BY <1>2 DEF ctlVars, histVars
  <2>3. ASSUME NEW d \in Runs PROVE FinalOf(d)' /\ KeepsSuccess(d)
    <3>1. FinalOf(d)
      BY DEF FinalInv
    <3> QED BY <2>1, <2>2, <3>1, FinalFrame DEF KeepsSuccess
  <2> QED BY <2>3 DEF FinalInv
<1>3. CASE UNCHANGED allVars
  BY <1>1, <1>3 DEF allVars
<1>4. CASE BothNext
  <2>1. CASE /\ \/ \E k \in Controllers, c \in Runs :
                      Reconcile(k, c) \/ Observe(k, c) \/ MetadataEvent(k, c)
                \/ \E c \in Runs :
                      \/ Apply(c) \/ Delete(c) \/ Prune(c)
                      \/ Tekton(c) \/ TektonStarts(c) \/ Collect(c)
                \/ RefChanges
    BY <1>1, <2>1 DEF Next, Cluster
  <2>2. CASE /\ UNCHANGED <<run, born, refExists, ctlVars, histVars>>
             /\ \E t \in Runs :
                   \/ \E k \in Controllers : TaskReconcile(k, t) \/ TaskObserve(k, t)
                   \/ TaskApply(t) \/ TaskDelete(t) \/ TaskCollect(t) \/ TaskPrune(t)
    BY <1>2, <2>2
  <2>3. CASE \E k \in Controllers : RestartBoth(k)
    BY <1>1, <2>3 DEF RestartBoth, Next
  <2> QED BY <1>4, <2>1, <2>2, <2>3 DEF BothNext
<1> QED BY <1>3, <1>4

-----------------------------------------------------------------------------
LEMMA AlwaysBoth == BothSpec => [](RunInv /\ TaskInv)
  BY BothInitHolds, BothStep, PTL DEF BothSpec

\* The state of both reconcilers and of the cluster is well formed.
THEOREM BothTypesCorrect == BothSpec => []BothTypeOK
<1>1. RunInv /\ TaskInv => BothTypeOK
  BY TypeParts DEF RunInv, CtlInv, DataInv, TaskInv, BothTypeOK
<1> QED BY <1>1, AlwaysBoth, PTL

\* One TaskRun per RemoteTask, unless it was deleted, although the lookup
\* and the marking go by name and the other reconciler uses the same names.
THEOREM OneTaskRunPerTask == BothSpec => []TaskRunsOnce
<1>1. TaskInv => TaskRunsOnce
  BY DEF TaskInv, OnceEach
<1> QED BY <1>1, AlwaysBoth, PTL

\* A RemoteTask is marked running only once a TaskRun was made under its name.
THEOREM RunningHasTaskRun == BothSpec => []RunningIsBacked
<1>1. ASSUME TaskInv, NEW t \in Runs, task[t].phase = "Running"
      PROVE  \E u \in 1..task[t].uid : u \in made[t] \/ started[t] # {}
  <2>1. /\ task[t].uid = taskBorn[t] /\ task[t].uid # 0
        /\ made[t] # {} \/ started[t] # {}
    BY <1>1 DEF TaskInv, BackedInv, Backed, UidsGiven
  <2>2. /\ taskBorn[t] \in Nat
        /\ \A u \in made[t] : u \in 1..taskBorn[t]
    BY <1>1, CustomRunAssumption DEF TaskInv, TaskTypeOK, UidsGiven, Uids
  <2> QED BY <2>1, <2>2
<1>2. TaskInv => RunningIsBacked
  BY <1>1 DEF RunningIsBacked
<1> QED BY <1>2, AlwaysBoth, PTL

\* With the other reconciler at the same names, a success of a CustomRun is
\* still one of a TaskRun of this controller's own.
THEOREM SuccessIsTrueOfBoth == BothSpec => []SuccessIsReal
<1>1. RunInv => SuccessIsReal
  BY DEF RunInv, RealInv, SuccessIsReal, Succeeded
<1> QED BY <1>1, AlwaysBoth, PTL

\* With one controller process, a CustomRun that succeeded stays so while
\* none of its TaskRuns is deleted, whatever RemoteTasks of its TaskRun's
\* name do.
THEOREM SuccessStaysInBoth ==
  ASSUME OneController PROVE BothSpec => SuccessIsFinal
<1>1. BothInit => FinalInv
  BY FinalInit DEF BothInit
<1>2. RunInv /\ TaskInv /\ FinalInv /\ [BothNext]_allVars => FinalInv'
  BY BothFinalStep
<1>3. RunInv /\ TaskInv /\ FinalInv /\ [BothNext]_allVars
         => [\A c \in Runs :
                run[c].status = "True" /\ run'[c].uid = run[c].uid /\ removed'[c] = {}
                    => run'[c].status = "True"]_vars
  BY BothFinalStep DEF KeepsSuccess
<1> QED BY <1>1, <1>2, <1>3, AlwaysBoth, PTL DEF BothSpec, SuccessIsFinal

=============================================================================
