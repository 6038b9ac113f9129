-------------------------- MODULE CustomRunProofs --------------------------
(***************************************************************************)
(* Proofs about CustomRun for any set of names, any number of controllers  *)
(* that reconcile the same CustomRun at the same time, and any number of   *)
(* uids.                                                                   *)
(***************************************************************************)
EXTENDS CustomRun, TLAPS

\* A reconcile works on the copy of a CustomRun that existed.
CopyExists ==
    \A k \in Controllers, c \in Runs : pc[k][c] # "idle" => snap[k][c].uid # 0

\* The TaskRuns of this controller have an owner.
OwnerKnown == \A c \in Runs : taskrun[c].maker = "us" => taskrun[c].owner # 0

CtlTypes ==
    /\ cache \in [Controllers -> [Runs -> Objects]]
    /\ queued \in [Controllers -> SUBSET Runs]
    /\ pc \in [Controllers -> [Runs -> {"idle", "find", "resolve", "create", "patch"}]]
    /\ snap \in [Controllers -> [Runs -> Objects]]
    /\ intent \in [Controllers -> [Runs -> Statuses \ {"none"}]]

ApiTypes ==
    /\ run \in [Runs -> Objects]
    /\ born \in [Runs -> 0..MaxUid]
    /\ taskrun \in [Runs -> [maker : {"nobody", "us", "other"},
                             owner : 0..MaxUid, status : Statuses]]
    /\ refExists \in BOOLEAN

HistTypes ==
    /\ started \in [Runs -> SUBSET Uids]
    /\ twice \in [Runs -> SUBSET Uids]
    /\ removed \in [Runs -> SUBSET Uids]
    /\ verdicts \in [Runs -> SUBSET (Uids \X {"True", "False"})]

CtlInv == CtlTypes /\ CopyExists
DataInv == ApiTypes /\ HistTypes /\ OwnerKnown
OnceInv == ScriptRunsOnce /\ StartedInv

\* A TaskRun made for the name succeeded: what a success of a CustomRun, one
\* that is about to be patched, and one that will be mirrored all stand for.
Succeeded(c) == \E u \in Uids : <<u, "True">> \in verdicts[c]
RealInv ==
    \A c \in Runs :
        /\ run[c].status = "True" => Succeeded(c)
        /\ taskrun[c].maker = "us" /\ taskrun[c].status = "True" => Succeeded(c)
        /\ \A k \in Controllers : intent[k][c] = "True" => Succeeded(c)

LEMMA TypeParts == TypeOK <=> ApiTypes /\ CtlTypes /\ HistTypes
  BY DEF TypeOK, ApiTypes, CtlTypes, HistTypes

-----------------------------------------------------------------------------
(***************************************************************************)
(* What a reconcile does to the controller's own variables.                *)
(***************************************************************************)
LEMMA ReturnsKeep ==
  ASSUME CtlInv, NEW k \in Controllers, NEW c \in Runs,
         AwaitChange(k, c) \/ Requeue(k, c), UNCHANGED cache
  PROVE  CtlInv'
<1>1. NoRun \in Objects
  BY CustomRunAssumption DEF NoRun, Objects, AllForms, Statuses
<1>2. /\ pc' = [pc EXCEPT ![k][c] = "idle"]
      /\ snap' = [snap EXCEPT ![k][c] = NoRun]
      /\ intent' = [intent EXCEPT ![k][c] = "Unknown"]
  BY DEF AwaitChange, Requeue, Goto
<1>3. queued' = queued \/ queued' = [queued EXCEPT ![k] = @ \cup {c}]
  BY DEF AwaitChange, Requeue
<1>4. queued' \in [Controllers -> SUBSET Runs]
  <2>1. /\ queued \in [Controllers -> SUBSET Runs]
        /\ [queued EXCEPT ![k] = @ \cup {c}] \in [Controllers -> SUBSET Runs]
    BY DEF CtlInv, CtlTypes
  <2> QED BY <1>3, <2>1
<1>5. /\ pc' \in [Controllers -> [Runs -> {"idle", "find", "resolve", "create", "patch"}]]
      /\ snap' \in [Controllers -> [Runs -> Objects]]
      /\ intent' \in [Controllers -> [Runs -> Statuses \ {"none"}]]
  <2>1. [pc EXCEPT ![k][c] = "idle"]
           \in [Controllers -> [Runs -> {"idle", "find", "resolve", "create", "patch"}]]
    BY DEF CtlInv, CtlTypes
  <2>2. [snap EXCEPT ![k][c] = NoRun] \in [Controllers -> [Runs -> Objects]]
    BY <1>1 DEF CtlInv, CtlTypes
  <2>3. [intent EXCEPT ![k][c] = "Unknown"]
           \in [Controllers -> [Runs -> Statuses \ {"none"}]]
    BY DEF CtlInv, CtlTypes, Statuses
  <2> QED BY <1>2, <2>1, <2>2, <2>3
<1>6. CtlTypes'
  BY <1>4, <1>5 DEF CtlInv, CtlTypes
<1>7. CopyExists'
  BY <1>2 DEF CtlInv, CtlTypes, CopyExists
<1> QED BY <1>6, <1>7 DEF CtlInv

LEMMA WillPatchKeeps ==
  ASSUME CtlInv, NEW k \in Controllers, NEW c \in Runs, pc[k][c] # "idle",
         NEW s \in Statuses \ {"none"}, WillPatch(k, c, s), UNCHANGED cache
  PROVE  CtlInv'
<1>1. CtlTypes'
  BY DEF CtlInv, CtlTypes, WillPatch, Goto
<1>2. CopyExists'
  BY DEF CtlInv, CtlTypes, CopyExists, WillPatch, Goto
<1> QED BY <1>1, <1>2 DEF CtlInv

LEMMA GotoKeeps ==
  ASSUME CtlInv, NEW k \in Controllers, NEW c \in Runs, pc[k][c] # "idle",
         NEW s \in {"resolve", "create"}, Goto(k, c, s),
         UNCHANGED <<cache, snap, intent, queued>>
  PROVE  CtlInv'
  BY DEF CtlInv, CtlTypes, CopyExists, Goto

LEMMA StartKeeps ==
  ASSUME CtlInv, NEW k \in Controllers, NEW c \in Runs, Start(k, c)
  PROVE  CtlInv'
<1> DEFINE copy == cache[k][c]
<1>1. CASE /\ copy.uid # 0
           /\ Goto(k, c, "find")
           /\ snap' = [snap EXCEPT ![k][c] = copy]
           /\ queued' = [queued EXCEPT ![k] = @ \ {c}]
  <2>1. UNCHANGED <<cache, intent>>
    BY DEF Start
  <2>2. CtlTypes'
    BY <1>1, <2>1 DEF CtlInv, CtlTypes, Goto
  <2>3. CopyExists'
    BY <1>1, <2>1 DEF CtlInv, CtlTypes, CopyExists, Goto
  <2> QED BY <2>2, <2>3 DEF CtlInv
<1>2. CASE /\ queued' = [queued EXCEPT ![k] = @ \ {c}] \/ UNCHANGED queued
           /\ UNCHANGED <<pc, snap>>
  <2>1. UNCHANGED <<cache, intent>> /\ queued' \in [Controllers -> SUBSET Runs]
    <3>1. UNCHANGED <<cache, intent>>
      BY DEF Start
    <3>2. queued \in [Controllers -> SUBSET Runs]
      BY DEF CtlInv, CtlTypes
    <3> QED BY <1>2, <3>1, <3>2
  <2>2. CtlTypes'
    BY <1>2, <2>1 DEF CtlInv, CtlTypes
  <2>3. CopyExists'
    BY <1>2, <2>1 DEF CtlInv, CopyExists
  <2> QED BY <2>2, <2>3 DEF CtlInv
<1> QED BY <1>1, <1>2 DEF Start

LEMMA ReconcileKeeps ==
  ASSUME CtlInv, ApiTypes, NEW k \in Controllers, NEW c \in Runs, Reconcile(k, c)
  PROVE  CtlInv'
<1>1. \A s \in Statuses : Mirror(s) \in Statuses \ {"none"}
  BY DEF Mirror, Terminal, Statuses
<1>2. taskrun[c].status \in Statuses
  BY DEF ApiTypes
<1>3. CASE Start(k, c)
  BY <1>3, StartKeeps
<1>4. CASE FindOk(k, c)
  BY <1>4, <1>1, <1>2, WillPatchKeeps, GotoKeeps DEF FindOk
<1>5. CASE FindFails(k, c)
  BY <1>5, ReturnsKeep DEF FindFails, Err
<1>6. CASE Resolve(k, c)
  BY <1>6, WillPatchKeeps, GotoKeeps DEF Resolve, Statuses
<1>7. CASE CreateOk(k, c)
  BY <1>7, WillPatchKeeps DEF CreateOk, Statuses
<1>8. CASE CreateFails(k, c)
  BY <1>8, WillPatchKeeps DEF CreateFails, Statuses
<1>9. CASE PatchOk(k, c)
  BY <1>9, ReturnsKeep DEF PatchOk
<1>10. CASE PatchFails(k, c)
  BY <1>10, ReturnsKeep DEF PatchFails, Err
<1> QED BY <1>3, <1>4, <1>5, <1>6, <1>7, <1>8, <1>9, <1>10 DEF Reconcile

LEMMA RuntimeKeeps ==
  ASSUME CtlInv, ApiTypes, NEW k \in Controllers,
         \/ \E c \in Runs : Observe(k, c) \/ MetadataEvent(k, c)
         \/ Restart(k)
  PROVE  CtlInv'
<1>1. NoRun \in Objects
  BY CustomRunAssumption DEF NoRun, Objects, AllForms, Statuses
<1>2. ASSUME NEW c \in Runs, Observe(k, c) \/ MetadataEvent(k, c)
      PROVE  CtlInv'
  <2>1. cache' = cache \/ cache' = [cache EXCEPT ![k][c] = run[c]]
    BY <1>2 DEF Observe, MetadataEvent
  <2>2. cache' \in [Controllers -> [Runs -> Objects]]
    <3>1. /\ cache \in [Controllers -> [Runs -> Objects]]
          /\ [cache EXCEPT ![k][c] = run[c]] \in [Controllers -> [Runs -> Objects]]
      BY DEF CtlInv, CtlTypes, ApiTypes
    <3> QED BY <2>1, <3>1
  <2>3. queued' = [queued EXCEPT ![k] = @ \cup {c}] /\ UNCHANGED <<pc, snap, intent>>
    BY <1>2 DEF Observe, MetadataEvent
  <2>4. [queued EXCEPT ![k] = @ \cup {c}] \in [Controllers -> SUBSET Runs]
    BY DEF CtlInv, CtlTypes
  <2>5. CtlTypes'
    BY <2>2, <2>3, <2>4 DEF CtlInv, CtlTypes
  <2>6. CopyExists'
    BY <2>3 DEF CtlInv, CopyExists
  <2> QED BY <2>5, <2>6 DEF CtlInv
<1>3. CASE Restart(k)
  <2>1. CtlTypes'
    <3>1. [c \in Runs |-> NoRun] \in [Runs -> Objects]
      BY <1>1
    <3>2. [c \in Runs |-> "Unknown"] \in [Runs -> Statuses \ {"none"}]
      BY DEF Statuses
    <3>3. {c \in Runs : run[c].uid # 0} \in SUBSET Runs
      OBVIOUS
    <3> QED BY <1>3, <3>1, <3>2, <3>3 DEF Restart, CtlInv, CtlTypes, ApiTypes
  <2>2. CopyExists'
    BY <1>3 DEF Restart, CtlInv, CtlTypes, CopyExists
  <2> QED BY <2>1, <2>2 DEF CtlInv
<1> QED BY <1>2, <1>3

-----------------------------------------------------------------------------
(***************************************************************************)
(* What happens to the objects and to the history.                         *)
(***************************************************************************)
LEMMA MadeKeeps ==
  ASSUME DataInv, OnceInv, CtlInv, NEW k \in Controllers, NEW c \in Runs,
         pc[k][c] # "idle", taskrun[c].maker = "nobody", Made(k, c)
  PROVE  DataInv' /\ OnceInv'
<1> DEFINE u == snap[k][c].uid
<1>1. u \in Uids
  BY CustomRunAssumption DEF CtlInv, CtlTypes, CopyExists, Objects, Uids
<1>2. DataInv'
  BY <1>1, CustomRunAssumption
     DEF DataInv, ApiTypes, HistTypes, OwnerKnown, Made, Uids, Statuses
<1>3. \A v \in started[c] : v \in removed[c]
  BY DEF OnceInv, StartedInv, StillThere, DataInv, HistTypes
<1>4. StartedInv'
  BY <1>1, <1>3 DEF OnceInv, StartedInv, StillThere, DataInv, ApiTypes,
     HistTypes, Made
<1>5. ScriptRunsOnce'
  BY <1>1, <1>3 DEF OnceInv, ScriptRunsOnce, DataInv, HistTypes, Made
<1> QED BY <1>2, <1>4, <1>5 DEF OnceInv

LEMMA GoneKeeps ==
  ASSUME DataInv, OnceInv, NEW c \in Runs, taskrun[c].maker = "us", Gone(c)
  PROVE  DataInv' /\ OnceInv'
<1>1. taskrun[c].owner \in Uids
  BY CustomRunAssumption DEF DataInv, ApiTypes, OwnerKnown, Uids
<1>2. DataInv'
  BY <1>1, CustomRunAssumption
     DEF DataInv, ApiTypes, HistTypes, OwnerKnown, Gone, NoTaskRun, Uids, Statuses
<1>3. StartedInv'
  BY <1>1 DEF OnceInv, StartedInv, StillThere, DataInv, ApiTypes, HistTypes,
     Gone, NoTaskRun
<1>4. ScriptRunsOnce'
  BY <1>1 DEF OnceInv, ScriptRunsOnce, DataInv, HistTypes, Gone
<1> QED BY <1>2, <1>3, <1>4 DEF OnceInv

LEMMA StatusKeeps ==
  ASSUME DataInv, OnceInv, NEW c \in Runs, Tekton(c) \/ TektonStarts(c)
  PROVE  DataInv' /\ OnceInv'
<1>1. taskrun[c].maker = "us" => taskrun[c].owner \in Uids
  BY CustomRunAssumption DEF DataInv, ApiTypes, OwnerKnown, Uids
<1>2. PICK s \in Statuses : taskrun' = [taskrun EXCEPT ![c].status = s]
  BY DEF Tekton, TektonStarts, Statuses
<1>3. UNCHANGED <<run, born, refExists, started, twice, removed>>
  BY DEF Tekton, TektonStarts, histVars
<1>4. verdicts' \in [Runs -> SUBSET (Uids \X {"True", "False"})]
  BY <1>1 DEF Tekton, TektonStarts, histVars, DataInv, HistTypes
<1>5. DataInv'
  BY <1>2, <1>3, <1>4 DEF DataInv, ApiTypes, HistTypes, OwnerKnown
<1>6. OnceInv'
  BY <1>2, <1>3 DEF OnceInv, StartedInv, StillThere, ScriptRunsOnce, DataInv, ApiTypes
<1> QED BY <1>5, <1>6

\* Steps that touch neither a TaskRun nor the history.
LEMMA RunKeeps ==
  ASSUME DataInv, OnceInv, run' \in [Runs -> Objects],
         born' \in [Runs -> 0..MaxUid], refExists' \in BOOLEAN,
         UNCHANGED <<taskrun, histVars>>
  PROVE  DataInv' /\ OnceInv'
  BY DEF DataInv, ApiTypes, HistTypes, OwnerKnown, OnceInv, StartedInv,
     StillThere, ScriptRunsOnce, histVars

LEMMA ReconcileKeepsData ==
  ASSUME DataInv, OnceInv, CtlInv, NEW k \in Controllers, NEW c \in Runs,
         Reconcile(k, c)
  PROVE  DataInv' /\ OnceInv'
<1>1. /\ run \in [Runs -> Objects] /\ born \in [Runs -> 0..MaxUid]
      /\ refExists \in BOOLEAN /\ intent[k][c] \in Statuses
  BY DEF DataInv, ApiTypes, CtlInv, CtlTypes
<1>2. [run EXCEPT ![c].status = intent[k][c]] \in [Runs -> Objects]
  BY <1>1 DEF Objects
<1>3. CASE Start(k, c) \/ FindOk(k, c) \/ FindFails(k, c) \/ Resolve(k, c)
  BY <1>1, <1>3, RunKeeps DEF Start, FindOk, FindFails, Resolve, apiVars
<1>4. CASE CreateOk(k, c)
  BY <1>1, <1>4, RunKeeps, MadeKeeps DEF CreateOk, apiVars
<1>5. CASE CreateFails(k, c)
  BY <1>1, <1>5, RunKeeps, MadeKeeps DEF CreateFails, apiVars
<1>6. CASE PatchOk(k, c) \/ PatchFails(k, c)
  BY <1>1, <1>2, <1>6, RunKeeps DEF PatchOk, PatchFails, Patched
<1> QED BY <1>3, <1>4, <1>5, <1>6 DEF Reconcile

LEMMA ClusterKeeps ==
  ASSUME DataInv, OnceInv, NEW c \in Runs, Cluster(c)
  PROVE  DataInv' /\ OnceInv'
<1>1. /\ run \in [Runs -> Objects] /\ born \in [Runs -> 0..MaxUid]
      /\ refExists \in BOOLEAN
  BY DEF DataInv, ApiTypes
<1>2. NoRun \in Objects
  BY CustomRunAssumption DEF NoRun, Objects, AllForms, Statuses
<1>3. CASE Apply(c)
  <2>1. born' \in [Runs -> 0..MaxUid]
    BY <1>1, <1>3, CustomRunAssumption DEF Apply
  <2>2. \A f \in Forms : [uid |-> born'[c], form |-> f, status |-> "none"] \in Objects
    BY <2>1, CustomRunAssumption DEF Objects, Statuses
  <2>3. run' \in [Runs -> Objects]
    BY <1>1, <1>3, <2>2 DEF Apply
  <2> QED BY <1>1, <1>3, <2>1, <2>3, RunKeeps DEF Apply
<1>4. CASE Delete(c)
  BY <1>1, <1>2, <1>4, RunKeeps DEF Delete
<1>5. CASE Tekton(c) \/ TektonStarts(c)
  BY <1>5, StatusKeeps
<1>6. CASE Collect(c) \/ Prune(c)
  BY <1>6, GoneKeeps DEF Collect, Prune
<1>7. CASE OtherTaskRun(c)
  BY <1>7 DEF OtherTaskRun, DataInv, ApiTypes, HistTypes, OwnerKnown,
     OnceInv, StartedInv, StillThere, ScriptRunsOnce, histVars
<1> QED BY <1>3, <1>4, <1>5, <1>6, <1>7 DEF Cluster

-----------------------------------------------------------------------------
LEMMA InitAll == Init => CtlInv /\ DataInv /\ OnceInv
<1> SUFFICES ASSUME Init PROVE CtlInv /\ DataInv /\ OnceInv
  OBVIOUS
<1>1. NoRun \in Objects /\ 0 \in 0..MaxUid
  BY CustomRunAssumption DEF NoRun, Objects, AllForms, Statuses
<1>2. CtlInv
  BY <1>1 DEF Init, CtlInv, CtlTypes, CopyExists, Statuses
<1>3. DataInv
  BY <1>1 DEF Init, DataInv, ApiTypes, HistTypes, OwnerKnown, NoTaskRun, Statuses
<1>4. OnceInv
  BY DEF Init, OnceInv, StartedInv, ScriptRunsOnce
<1> QED BY <1>2, <1>3, <1>4

LEMMA ClusterFrame ==
  ASSUME CtlInv, UNCHANGED ctlVars PROVE CtlInv'
  BY DEF CtlInv, CtlTypes, CopyExists, ctlVars

LEMMA StepAll ==
  CtlInv /\ DataInv /\ OnceInv /\ [Next]_vars => (CtlInv /\ DataInv /\ OnceInv)'
<1> SUFFICES ASSUME CtlInv, DataInv, OnceInv, [Next]_vars
             PROVE  CtlInv' /\ DataInv' /\ OnceInv'
  OBVIOUS
<1>1. /\ run \in [Runs -> Objects] /\ born \in [Runs -> 0..MaxUid]
      /\ refExists \in BOOLEAN /\ ApiTypes
  BY DEF DataInv, ApiTypes
<1>2. ASSUME NEW k \in Controllers, NEW c \in Runs, Reconcile(k, c)
      PROVE  CtlInv' /\ DataInv' /\ OnceInv'
  BY <1>1, <1>2, ReconcileKeeps, ReconcileKeepsData
<1>3. ASSUME NEW k \in Controllers,
             Restart(k) \/ \E c \in Runs : Observe(k, c) \/ MetadataEvent(k, c)
      PROVE  CtlInv' /\ DataInv' /\ OnceInv'
  <2>1. CtlInv'
    BY <1>1, <1>3, RuntimeKeeps
  <2>2. UNCHANGED <<apiVars, histVars>>
    BY <1>3 DEF Restart, Observe, MetadataEvent
  <2> QED BY <1>1, <2>1, <2>2, RunKeeps DEF apiVars
<1>4. ASSUME NEW c \in Runs, Cluster(c)
      PROVE  CtlInv' /\ DataInv' /\ OnceInv'
  <2>1. UNCHANGED ctlVars
    BY <1>4 DEF Cluster, Apply, Delete, Tekton, TektonStarts, Collect, Prune,
       Gone, OtherTaskRun
  <2> QED BY <1>4, <2>1, ClusterKeeps, ClusterFrame
<1>5. CASE RefChanges
  BY <1>1, <1>5, RunKeeps, ClusterFrame DEF RefChanges
<1>6. CASE UNCHANGED vars
  BY <1>1, <1>6, RunKeeps, ClusterFrame DEF vars, apiVars
<1> QED BY <1>2, <1>3, <1>4, <1>5, <1>6 DEF Next

-----------------------------------------------------------------------------
(***************************************************************************)
(* Success.                                                                *)
(***************************************************************************)

\* Results are never forgotten: whoever keeps its status keeps its reason.
LEMMA RealFrame ==
  ASSUME CtlInv, DataInv, RealInv, UNCHANGED verdicts,
         \A c \in Runs : run'[c].status = "True" => Succeeded(c),
         \A c \in Runs : taskrun'[c].maker = "us" /\ taskrun'[c].status = "True"
                            => Succeeded(c),
         \A c \in Runs, k \in Controllers : intent'[k][c] = "True" => Succeeded(c)
  PROVE  RealInv'
  BY DEF RealInv, Succeeded

LEMMA RealReconcile ==
  ASSUME CtlInv, DataInv, RealInv, NEW k \in Controllers, NEW c \in Runs,
         Reconcile(k, c)
  PROVE  RealInv'
<1> USE DEF CtlInv, CtlTypes, DataInv, ApiTypes
<1>1. UNCHANGED verdicts
  BY DEF Reconcile, Start, FindOk, FindFails, Resolve, CreateOk, CreateFails,
     PatchOk, PatchFails, Made, histVars
<1>2. ASSUME NEW d \in Runs, run'[d].status = "True"
      PROVE  Succeeded(d)
  <2>1. run' = run \/ run' = [run EXCEPT ![c].status = intent[k][c]]
    BY DEF Reconcile, Start, FindOk, FindFails, Resolve, CreateOk, CreateFails,
       PatchOk, PatchFails, Patched, Made, apiVars
  <2>2. run[d].status = "True" \/ (c = d /\ intent[k][d] = "True")
    <3>1. CASE run' = [run EXCEPT ![c].status = intent[k][c]]
      <4>1. d # c => run'[d] = run[d]
        BY <3>1
      <4>2. run'[c].status = intent[k][c]
        BY <3>1 DEF Objects
      <4> QED BY <1>2, <4>1, <4>2
    <3> QED BY <1>2, <2>1, <3>1
  <2> QED BY <2>2 DEF RealInv
<1>3. ASSUME NEW d \in Runs, taskrun'[d].maker = "us", taskrun'[d].status = "True"
      PROVE  Succeeded(d)
  <2>1. taskrun' = taskrun \/ Made(k, c)
    BY DEF Reconcile, Start, FindOk, FindFails, Resolve, CreateOk, CreateFails,
       PatchOk, PatchFails, apiVars
  <2>2. taskrun'[d] = taskrun[d]
    BY <1>3, <2>1 DEF Made
  <2> QED BY <1>3, <2>2 DEF RealInv
<1>4. ASSUME NEW d \in Runs, NEW l \in Controllers, intent'[l][d] = "True"
      PROVE  Succeeded(d)
  <2> DEFINE Keeps == intent' = intent
             Mirrors == /\ taskrun[c].maker = "us"
                        /\ intent' = [intent EXCEPT ![k][c] = Mirror(taskrun[c].status)]
             Sets == \E s \in {"Unknown", "False"} : intent' = [intent EXCEPT ![k][c] = s]
  <2>1. Keeps \/ Mirrors \/ Sets
    <3>1. CASE Start(k, c)
      BY <3>1 DEF Start
    <3>2. CASE FindOk(k, c)
      BY <3>2 DEF FindOk, WillPatch
    <3>3. CASE FindFails(k, c)
      BY <3>3 DEF FindFails, Err, Requeue
    <3>4. CASE Resolve(k, c)
      BY <3>4 DEF Resolve, WillPatch
    <3>5. CASE CreateOk(k, c) \/ CreateFails(k, c)
      BY <3>5 DEF CreateOk, CreateFails, WillPatch
    <3>6. CASE PatchOk(k, c) \/ PatchFails(k, c)
      BY <3>6 DEF PatchOk, PatchFails, Err, Requeue, AwaitChange
    <3> QED BY <3>1, <3>2, <3>3, <3>4, <3>5, <3>6 DEF Reconcile
  <2>2. CASE Keeps
    BY <1>4, <2>2 DEF RealInv
  <2>3. CASE Mirrors
    <3>1. Mirror(taskrun[c].status) = "True" => taskrun[c].status = "True"
      BY DEF Mirror
    <3> QED BY <1>4, <2>3, <3>1 DEF RealInv
  <2>4. CASE Sets
    BY <1>4, <2>4 DEF RealInv
  <2> QED BY <2>1, <2>2, <2>3, <2>4
<1> QED BY <1>1, <1>2, <1>3, <1>4, RealFrame

LEMMA RealCluster ==
  ASSUME CtlInv, DataInv, RealInv, NEW c \in Runs, Cluster(c)
  PROVE  RealInv'
<1> USE DEF DataInv, ApiTypes
<1>1. UNCHANGED intent
  BY DEF Cluster, Apply, Delete, Tekton, TektonStarts, Collect, Prune, Gone,
     OtherTaskRun, ctlVars
<1>2. CASE Tekton(c)
  <2>1. UNCHANGED run /\ \A d \in Runs : d # c => taskrun'[d] = taskrun[d]
    BY <1>2 DEF Tekton
  <2>2. \A d \in Runs : verdicts[d] \subseteq verdicts'[d]
    BY <1>2 DEF Tekton, HistTypes
  <2>3. \A d \in Runs : Succeeded(d) => Succeeded(d)'
    BY <2>2 DEF Succeeded
  <2>4. ASSUME taskrun'[c].maker = "us", taskrun'[c].status = "True"
        PROVE  Succeeded(c)'
    <3>1. taskrun[c].maker = "us" /\ taskrun[c].owner \in Uids
      BY <1>2, <2>4, CustomRunAssumption DEF Tekton, OwnerKnown, Uids
    <3>2. <<taskrun[c].owner, "True">> \in verdicts'[c]
      BY <1>2, <2>4, <3>1 DEF Tekton, HistTypes
    <3> QED BY <3>1, <3>2 DEF Succeeded
  <2>5. \A d \in Runs : taskrun'[d].maker = "us" /\ taskrun'[d].status = "True"
                           => Succeeded(d)'
    BY <2>1, <2>3, <2>4 DEF RealInv
  <2> QED BY <1>1, <2>1, <2>3, <2>5 DEF RealInv
<1>3. CASE ~Tekton(c)
  <2>1. UNCHANGED verdicts
    BY <1>3 DEF Cluster, Apply, Delete, TektonStarts, Collect, Prune, Gone,
       OtherTaskRun, histVars
  <2>2. \A d \in Runs : run'[d].status = "True" => run[d].status = "True"
    BY <1>3 DEF Cluster, Apply, Delete, TektonStarts, Collect, Prune, Gone,
       OtherTaskRun, NoRun
  <2>3. \A d \in Runs : taskrun'[d].maker = "us" /\ taskrun'[d].status = "True"
                           => taskrun'[d] = taskrun[d]
    BY <1>3 DEF Cluster, Apply, Delete, TektonStarts, Collect, Prune, Gone,
       OtherTaskRun, NoTaskRun
  <2> QED BY <1>1, <2>1, <2>2, <2>3, RealFrame DEF RealInv
<1> QED BY <1>2, <1>3

LEMMA RealStep ==
  CtlInv /\ DataInv /\ RealInv /\ [Next]_vars => RealInv'
<1> SUFFICES ASSUME CtlInv, DataInv, RealInv, [Next]_vars PROVE RealInv'
  OBVIOUS
<1>1. ASSUME NEW k \in Controllers,
             Restart(k) \/ \E c \in Runs : Observe(k, c) \/ MetadataEvent(k, c)
      PROVE  RealInv'
  <2>1. UNCHANGED <<run, taskrun, verdicts>>
    BY <1>1 DEF Restart, Observe, MetadataEvent, apiVars, histVars
  <2>2. \A c \in Runs, l \in Controllers :
           intent'[l][c] = "True" => intent[l][c] = "True"
    <3>1. UNCHANGED intent
             \/ intent' = [intent EXCEPT ![k] = [c \in Runs |-> "Unknown"]]
      BY <1>1 DEF Restart, Observe, MetadataEvent
    <3> QED BY <3>1 DEF CtlInv, CtlTypes
  <2> QED BY <2>1, <2>2, RealFrame DEF RealInv
<1>2. CASE UNCHANGED <<run, taskrun, intent, verdicts>>
  BY <1>2, RealFrame DEF RealInv
<1>3. ASSUME NEW k \in Controllers, NEW c \in Runs, Reconcile(k, c)
      PROVE  RealInv'
  BY <1>3, RealReconcile
<1>4. ASSUME NEW c \in Runs, Cluster(c)
      PROVE  RealInv'
  BY <1>4, RealCluster
<1>5. CASE Next
  <2>1. CASE \E k \in Controllers, c \in Runs :
                Reconcile(k, c) \/ Observe(k, c) \/ MetadataEvent(k, c)
    BY <2>1, <1>1, <1>3
  <2>2. CASE (\E k \in Controllers : Restart(k)) \/ \E c \in Runs : Cluster(c)
    BY <2>2, <1>1, <1>4
  <2>3. CASE RefChanges
    BY <2>3, <1>2 DEF RefChanges, ctlVars, histVars
  <2> QED BY <1>5, <2>1, <2>2, <2>3 DEF Next
<1>6. CASE UNCHANGED vars
  BY <1>2, <1>6 DEF vars, apiVars, ctlVars, histVars
<1> QED BY <1>5, <1>6

LEMMA RealInit == Init => RealInv
<1> SUFFICES ASSUME Init, NEW c \in Runs
             PROVE  /\ run[c].status # "True"
                    /\ taskrun[c].maker # "us"
                    /\ \A k \in Controllers : intent[k][c] # "True"
  BY DEF RealInv
<1>1. run[c].status = "none" /\ taskrun[c].maker = "nobody"
  BY DEF Init, NoRun, NoTaskRun
<1>2. \A k \in Controllers : intent[k][c] = "Unknown"
  BY DEF Init
<1> QED BY <1>1, <1>2

-----------------------------------------------------------------------------
(***************************************************************************)
(* Success is final, while one controller runs and nobody deletes a        *)
(* TaskRun.  The copy a reconcile was given may be older than the success, *)
(* so it goes as far as its lookup; the TaskRun found there is terminal,   *)
(* and the patch that follows says what the status says already.           *)
(***************************************************************************)
OneController == \A k, l \in Controllers : k = l

\* A success, reported or about to be, is that of the TaskRun that is there,
\* and no reconcile is on its way to another verdict.
DoneTaskRun(c) == taskrun[c].maker = "us" /\ taskrun[c].status = "True"
FinalOf(c) ==
    removed[c] = {} =>
        /\ (run[c].status = "True" \/ \E k \in Controllers : intent[k][c] = "True")
              => DoneTaskRun(c)
        /\ run[c].status = "True" =>
              \A k \in Controllers :
                  \/ pc[k][c] \in {"idle", "find"}
                  \/ pc[k][c] = "patch" /\ intent[k][c] = "True"
FinalInv == \A c \in Runs : FinalOf(c)

\* The action of SuccessIsFinal, for one name.
KeepsSuccess(c) ==
    run[c].status = "True" /\ run'[c].uid = run[c].uid /\ removed'[c] = {}
        => run'[c].status = "True"

\* Steps that leave alone what the controllers do with the name, delete none
\* of its TaskRuns that is done, and make no success of its CustomRun.
LEMMA FinalFrame ==
  ASSUME NEW c \in Runs, FinalOf(c), removed'[c] = {} => removed[c] = {},
         \A k \in Controllers : pc'[k][c] = pc[k][c] /\ intent'[k][c] = intent[k][c],
         run'[c].status = "True" => run[c].status = "True",
         removed'[c] = {} /\ DoneTaskRun(c) => taskrun'[c] = taskrun[c]
  PROVE  FinalOf(c)'
  BY DEF FinalOf, DoneTaskRun

\* What a step of the one controller owes for the name it works on.
LEMMA FinalOne ==
  ASSUME OneController, NEW k \in Controllers, NEW c \in Runs,
         run'[c].status = "True" \/ intent'[k][c] = "True" => DoneTaskRun(c)',
         run'[c].status = "True" => \/ pc'[k][c] \in {"idle", "find"}
                                    \/ pc'[k][c] = "patch" /\ intent'[k][c] = "True"
  PROVE  FinalOf(c)'
<1>1. \A l \in Controllers : l = k
  BY DEF OneController
<1> QED BY <1>1 DEF FinalOf

\* A reconcile that ends, or goes on to a patch, moves only the name it is
\* about.
LEMMA EndsAt ==
  ASSUME CtlInv, NEW k \in Controllers, NEW c \in Runs,
         AwaitChange(k, c) \/ Requeue(k, c)
  PROVE  pc'[k][c] = "idle" /\ intent'[k][c] = "Unknown"
  BY DEF CtlInv, CtlTypes, AwaitChange, Requeue, Goto

LEMMA PatchesNext ==
  ASSUME CtlInv, NEW k \in Controllers, NEW c \in Runs, NEW s, WillPatch(k, c, s)
  PROVE  pc'[k][c] = "patch" /\ intent'[k][c] = s
  BY DEF CtlInv, CtlTypes, WillPatch, Goto

\* The step of a reconcile, seen from its own name.
LEMMA FinalReconcile ==
  ASSUME OneController, CtlInv, DataInv, NEW k \in Controllers, NEW c \in Runs,
         FinalOf(c), Reconcile(k, c)
  PROVE  FinalOf(c)' /\ KeepsSuccess(c)
<1>1. UNCHANGED removed
  BY DEF Reconcile, Start, FindOk, FindFails, Resolve, CreateOk, CreateFails,
     PatchOk, PatchFails, Made, histVars
<1>2. CASE removed[c] # {}
  BY <1>1, <1>2 DEF FinalOf, KeepsSuccess
<1>3. CASE removed[c] = {}
  <2>1. /\ run[c].status = "True" \/ intent[k][c] = "True" => DoneTaskRun(c)
        /\ run[c].status = "True" => \/ pc[k][c] \in {"idle", "find"}
                                     \/ pc[k][c] = "patch" /\ intent[k][c] = "True"
    BY <1>3 DEF FinalOf
  <2>2. CASE Start(k, c)
    <3>1. UNCHANGED <<run, taskrun, intent>> /\ pc[k][c] = "idle"
      BY <2>2 DEF Start, apiVars
    <3>2. pc'[k][c] \in {"idle", "find"}
      BY <2>2, <3>1 DEF Start, Goto, CtlInv, CtlTypes
    <3> QED BY <2>1, <3>1, <3>2, FinalOne DEF KeepsSuccess, DoneTaskRun
  <2>3. CASE FindOk(k, c)
    <3>1. UNCHANGED <<run, taskrun>> /\ pc[k][c] = "find"
      BY <2>3 DEF FindOk, apiVars
    <3>2. CASE taskrun[c].maker = "us"
      <4>1. pc'[k][c] = "patch" /\ intent'[k][c] = Mirror(taskrun[c].status)
        BY <2>3, <3>2, PatchesNext DEF FindOk
      <4>2. Mirror(taskrun[c].status) = "True" <=> taskrun[c].status = "True"
        BY DEF Mirror, Terminal
      <4> QED BY <2>1, <3>1, <3>2, <4>1, <4>2, FinalOne DEF KeepsSuccess, DoneTaskRun
    <3>3. CASE taskrun[c].maker # "us"
      <4>1. UNCHANGED intent /\ run[c].status # "True" /\ intent[k][c] # "True"
        BY <2>1, <2>3, <3>3 DEF FindOk, DoneTaskRun
      <4> QED BY <3>1, <4>1, FinalOne DEF KeepsSuccess
    <3> QED BY <3>2, <3>3
  <2>4. CASE FindFails(k, c)
    <3>1. UNCHANGED <<run, taskrun>>
      BY <2>4 DEF FindFails, apiVars
    <3>2. pc'[k][c] = "idle" /\ intent'[k][c] = "Unknown"
      BY <2>4, EndsAt DEF FindFails, Err
    <3> QED BY <2>1, <3>1, <3>2, FinalOne DEF KeepsSuccess, DoneTaskRun
  <2>5. CASE Resolve(k, c)
    <3>1. UNCHANGED <<run, taskrun>> /\ pc[k][c] = "resolve"
      BY <2>5 DEF Resolve, apiVars
    <3>2. run[c].status # "True"
      BY <2>1, <3>1
    <3>3. UNCHANGED intent \/ intent'[k][c] = "False"
      BY <2>5, PatchesNext DEF Resolve
    <3> QED BY <2>1, <3>1, <3>2, <3>3, FinalOne DEF KeepsSuccess, DoneTaskRun
  <2>6. CASE CreateOk(k, c) \/ CreateFails(k, c)
    <3>1. UNCHANGED run /\ pc[k][c] = "create"
      BY <2>6 DEF CreateOk, CreateFails, Made, apiVars
    <3>2. run[c].status # "True"
      BY <2>1, <3>1
    <3>3. intent'[k][c] # "True"
      BY <2>6, PatchesNext DEF CreateOk, CreateFails
    <3> QED BY <3>1, <3>2, <3>3, FinalOne DEF KeepsSuccess
  <2>7. CASE PatchOk(k, c) \/ PatchFails(k, c)
    <3>1. UNCHANGED taskrun /\ pc[k][c] = "patch"
      BY <2>7 DEF PatchOk, PatchFails
    <3>2. pc'[k][c] = "idle" /\ intent'[k][c] = "Unknown"
      BY <2>7, EndsAt DEF PatchOk, PatchFails, Err
    <3>3. run' = run \/ run' = [run EXCEPT ![c].status = intent[k][c]]
      BY <2>7 DEF PatchOk, PatchFails, Patched
    <3>4. run'[c].status \in {run[c].status, intent[k][c]}
      BY <3>3 DEF DataInv, ApiTypes, Objects
    <3>5. run[c].status = "True" => intent[k][c] = "True"
      BY <2>1, <3>1
    <3> QED BY <2>1, <3>1, <3>2, <3>4, <3>5, FinalOne DEF KeepsSuccess, DoneTaskRun
  <2> QED BY <2>2, <2>3, <2>4, <2>5, <2>6, <2>7 DEF Reconcile
<1> QED BY <1>2, <1>3

\* It touches no other name.
LEMMA OthersAlone ==
  ASSUME CtlInv, DataInv, NEW k \in Controllers, NEW c \in Runs, Reconcile(k, c),
         NEW d \in Runs, d # c
  PROVE  /\ \A l \in Controllers : pc'[l][d] = pc[l][d] /\ intent'[l][d] = intent[l][d]
         /\ run'[d] = run[d] /\ taskrun'[d] = taskrun[d] /\ removed'[d] = removed[d]
<1> USE DEF CtlInv, CtlTypes, DataInv, ApiTypes
<1>1. UNCHANGED removed
  BY DEF Reconcile, Start, FindOk, FindFails, Resolve, CreateOk, CreateFails,
     PatchOk, PatchFails, Made, histVars
<1>2. pc' = pc \/ \E s : pc' = [pc EXCEPT ![k][c] = s]
  BY DEF Reconcile, Start, FindOk, FindFails, Resolve, CreateOk, CreateFails,
     PatchOk, PatchFails, WillPatch, Goto, AwaitChange, Requeue, Err
<1>3. intent' = intent \/ \E s : intent' = [intent EXCEPT ![k][c] = s]
  BY DEF Reconcile, Start, FindOk, FindFails, Resolve, CreateOk, CreateFails,
     PatchOk, PatchFails, WillPatch, AwaitChange, Requeue, Err
<1>4. run' = run \/ run' = [run EXCEPT ![c].status = intent[k][c]]
  BY DEF Reconcile, Start, FindOk, FindFails, Resolve, CreateOk, CreateFails,
     PatchOk, PatchFails, Patched, Made, apiVars
<1>5. taskrun' = taskrun \/ Made(k, c)
  BY DEF Reconcile, Start, FindOk, FindFails, Resolve, CreateOk, CreateFails,
     PatchOk, PatchFails, apiVars
<1>6. taskrun'[d] = taskrun[d]
  <2>1. CASE Made(k, c)
    <3>1. \E r : taskrun' = [taskrun EXCEPT ![c] = r]
      BY <2>1 DEF Made
    <3> QED BY <3>1
  <2> QED BY <1>5, <2>1
<1>7. ASSUME NEW l \in Controllers PROVE pc'[l][d] = pc[l][d]
  <2>1. ASSUME NEW s, pc' = [pc EXCEPT ![k][c] = s]
        PROVE  pc'[l][d] = pc[l][d]
    <3>1. CASE l = k
      BY <2>1, <3>1
    <3>2. CASE l # k
      BY <2>1, <3>2
    <3> QED BY <3>1, <3>2
  <2> QED BY <1>2, <2>1
<1>8. ASSUME NEW l \in Controllers PROVE intent'[l][d] = intent[l][d]
  <2>1. ASSUME NEW s, intent' = [intent EXCEPT ![k][c] = s]
        PROVE  intent'[l][d] = intent[l][d]
    <3>1. CASE l = k
      BY <2>1, <3>1
    <3>2. CASE l # k
      BY <2>1, <3>2
    <3> QED BY <3>1, <3>2
  <2> QED BY <1>3, <2>1
<1>9. run'[d] = run[d]
  BY <1>4
<1> QED BY <1>1, <1>6, <1>7, <1>8, <1>9

\* The cluster may end a TaskRun, but not twice; it gives a new CustomRun a
\* new uid; and what it deletes is deleted for good.
LEMMA FinalCluster ==
  ASSUME DataInv, NEW c \in Runs, Cluster(c), NEW d \in Runs, FinalOf(d)
  PROVE  FinalOf(d)' /\ KeepsSuccess(d)
<1> USE DEF DataInv, ApiTypes, HistTypes
<1>1. UNCHANGED ctlVars
  BY DEF Cluster, Apply, Delete, Tekton, TektonStarts, Collect, Prune, Gone,
     OtherTaskRun
<1>2. removed' = removed \/ Gone(c)
  BY DEF Cluster, Apply, Delete, Tekton, TektonStarts, Collect, Prune,
     OtherTaskRun, histVars
<1>3. removed'[d] = {} => removed[d] = {} /\ ~(Gone(c) /\ c = d)
  BY <1>2 DEF Gone
<1>4. CASE Apply(c) \/ Delete(c)
  <2>1. /\ run'[d] = run[d] \/ run'[d].status = "none"
        /\ run'[d] = run[d] \/ run'[d].uid # run[d].uid
    BY <1>4, CustomRunAssumption DEF Apply, Delete, NoRun
  <2>2. UNCHANGED <<taskrun, pc, intent, removed>>
    BY <1>1, <1>4 DEF Apply, Delete, ctlVars, histVars
  <2> QED BY <2>1, <2>2, FinalFrame DEF KeepsSuccess
<1>5. CASE Tekton(c) \/ TektonStarts(c) \/ OtherTaskRun(c)
  <2>1. DoneTaskRun(d) => taskrun'[d] = taskrun[d]
    BY <1>5 DEF Tekton, TektonStarts, OtherTaskRun, DoneTaskRun, Terminal
  <2>2. UNCHANGED <<run, pc, intent, removed>>
    BY <1>1, <1>5 DEF Tekton, TektonStarts, OtherTaskRun, ctlVars, histVars
  <2> QED BY <2>1, <2>2, FinalFrame DEF KeepsSuccess
<1>6. CASE Gone(c)
  <2>1. removed'[d] = {} => taskrun'[d] = taskrun[d]
    BY <1>3, <1>6 DEF Gone
  <2>2. UNCHANGED <<run, pc, intent>>
    BY <1>6 DEF Gone, ctlVars
  <2> QED BY <1>3, <2>1, <2>2, FinalFrame DEF KeepsSuccess
<1> QED BY <1>4, <1>5, <1>6 DEF Cluster, Collect, Prune

\* So every step keeps the invariant and every success.
LEMMA FinalStep ==
  ASSUME OneController
  PROVE  CtlInv /\ DataInv /\ FinalInv /\ [Next]_vars
            => FinalInv' /\ \A c \in Runs : KeepsSuccess(c)
<1> SUFFICES ASSUME CtlInv, DataInv, FinalInv, [Next]_vars, NEW d \in Runs
             PROVE  FinalOf(d)' /\ KeepsSuccess(d)
  BY DEF FinalInv
<1>1. FinalOf(d)
  BY DEF FinalInv
<1>2. ASSUME NEW k \in Controllers, NEW c \in Runs, Reconcile(k, c)
      PROVE  FinalOf(d)' /\ KeepsSuccess(d)
  <2>1. CASE c = d
    BY <1>1, <1>2, <2>1, FinalReconcile
  <2>2. CASE c # d
    BY <1>1, <1>2, <2>2, OthersAlone, FinalFrame DEF KeepsSuccess
  <2> QED BY <2>1, <2>2
<1>3. CASE UNCHANGED <<run, taskrun, removed, pc, intent>>
  BY <1>1, <1>3, FinalFrame DEF KeepsSuccess
<1>4. ASSUME NEW k \in Controllers, NEW c \in Runs,
             Observe(k, c) \/ MetadataEvent(k, c)
      PROVE  FinalOf(d)' /\ KeepsSuccess(d)
  BY <1>3, <1>4 DEF Observe, MetadataEvent, apiVars, histVars
<1>5. ASSUME NEW k \in Controllers, Restart(k)
      PROVE  FinalOf(d)' /\ KeepsSuccess(d)
  <2>1. UNCHANGED <<run, taskrun, removed>>
    BY <1>5 DEF Restart, apiVars, histVars
  <2>2. pc'[k][d] = "idle" /\ intent'[k][d] = "Unknown"
    BY <1>5 DEF Restart, CtlInv, CtlTypes
  <2>3. CASE removed[d] # {}
    BY <2>1, <2>3 DEF FinalOf, KeepsSuccess
  <2>4. CASE removed[d] = {}
    BY <1>1, <2>1, <2>2, <2>4, FinalOne DEF FinalOf, DoneTaskRun, KeepsSuccess
  <2> QED BY <2>3, <2>4
<1>6. ASSUME NEW c \in Runs, Cluster(c)
      PROVE  FinalOf(d)' /\ KeepsSuccess(d)
  BY <1>1, <1>6, FinalCluster
<1>7. CASE RefChanges
  BY <1>3, <1>7 DEF RefChanges, ctlVars, histVars
<1>8. CASE UNCHANGED vars
  BY <1>3, <1>8 DEF vars, apiVars, ctlVars, histVars
<1> QED BY <1>2, <1>4, <1>5, <1>6, <1>7, <1>8 DEF Next

LEMMA FinalInit == Init => FinalInv
<1> SUFFICES ASSUME Init, NEW c \in Runs
             PROVE  run[c].status # "True" /\ \A k \in Controllers : intent[k][c] # "True"
  BY DEF FinalInv, FinalOf
<1>1. run[c].status = "none"
  BY DEF Init, NoRun
<1>2. \A k \in Controllers : intent[k][c] = "Unknown"
  BY DEF Init
<1> QED BY <1>1, <1>2

-----------------------------------------------------------------------------
LEMMA AlwaysAll == Spec => [](CtlInv /\ DataInv /\ OnceInv)
  BY InitAll, StepAll, PTL DEF Spec

LEMMA AlwaysReal == Spec => []RealInv
  BY AlwaysAll, RealInit, RealStep, PTL DEF Spec

\* The state of the reconciler and of the cluster is always well formed.
THEOREM TypeCorrect == Spec => []TypeOK
<1>1. CtlInv /\ DataInv => TypeOK
  BY TypeParts DEF CtlInv, DataInv
<1> QED BY <1>1, AlwaysAll, PTL

\* A TaskRun made for a uid is there until somebody deletes it.
THEOREM TaskRunsStay == Spec => []StartedInv
<1>1. OnceInv => StartedInv
  BY DEF OnceInv
<1> QED BY <1>1, AlwaysAll, PTL

\* However many controllers reconcile a CustomRun at the same time from
\* copies however stale, its script is started once unless its TaskRun was
\* deleted: the fixed name and the 409 of create_taskrun are enough.
THEOREM OneTaskRunEach == Spec => []ScriptRunsOnce
<1>1. OnceInv => ScriptRunsOnce
  BY DEF OnceInv
<1> QED BY <1>1, AlwaysAll, PTL

\* A CustomRun is marked succeeded only after a TaskRun made for its name
\* succeeded, whatever is lost, restarted or patched from a stale copy.
THEOREM SuccessIsTrue == Spec => []SuccessIsReal
<1>1. RealInv => SuccessIsReal
  BY DEF RealInv, SuccessIsReal, Succeeded
<1> QED BY <1>1, AlwaysReal, PTL

\* With one controller, a CustomRun that succeeded stays so while none of its
\* TaskRuns is deleted: neither stale copies nor retries nor restarts turn it
\* back to running or to failed.
THEOREM SuccessStays ==
  ASSUME OneController PROVE Spec => SuccessIsFinal
<1>1. Init => FinalInv
  BY FinalInit
<1>2. CtlInv /\ DataInv /\ FinalInv /\ [Next]_vars => FinalInv'
  BY FinalStep
<1>3. CtlInv /\ DataInv /\ FinalInv /\ [Next]_vars
         => [\A c \in Runs :
                run[c].status = "True" /\ run'[c].uid = run[c].uid /\ removed'[c] = {}
                    => run'[c].status = "True"]_vars
  BY FinalStep DEF KeepsSuccess
<1> QED BY <1>1, <1>2, <1>3, AlwaysAll, PTL DEF Spec, SuccessIsFinal

=============================================================================
