----------------------------- MODULE CustomRun -----------------------------
(***************************************************************************)
(* The CustomRun reconciler of src/src/bin/remote-task-controller          *)
(* (customrun.rs, taskrun.rs): for every CustomRun of a pipeline that asks *)
(* for a RemoteTask it creates one TaskRun, named and labelled after the   *)
(* CustomRun, and mirrors the TaskRun's result onto the CustomRun.         *)
(*                                                                         *)
(* A controller works on a copy of the CustomRun that its watch delivered  *)
(* some time ago, and every request to the API server may fail, or succeed *)
(* with its answer lost.  Of one CustomRun a controller reconciles one     *)
(* copy at a time; two controllers overlap while the Deployment rolls.     *)
(*                                                                         *)
(* External: the API server, its garbage collector, Tekton, the users who  *)
(* delete and re-create objects, kube's watch, queue and requeue timers.   *)
(***************************************************************************)
EXTENDS Naturals

CONSTANTS
    Runs,          \* names of CustomRuns
    Controllers,   \* controller processes alive at the same time
    MaxUid,        \* how often a name is used: uids are 1..MaxUid
    Forms,         \* what CustomRuns ask for, see AllForms
    NamesCollide   \* somebody else may own a TaskRun named <name>-exec

\* What the spec asks for: inline params (complete or not), a RemoteTask by
\* name, another controller's kind, or nothing that parses (no customRef).
AllForms == {"inline", "incomplete", "byname", "other", "missing"}

ASSUME CustomRunAssumption ==
    /\ MaxUid \in Nat \ {0}
    /\ Forms \subseteq AllForms
    /\ NamesCollide \in BOOLEAN

VARIABLES
    run,           \* the CustomRun under each name
    born,          \* the last uid given to each name
    taskrun,       \* the TaskRun <name>-exec
    refExists,     \* the RemoteTask that customRef.name names exists
    cache,         \* what the watch delivered last to each controller
    queued,        \* names each controller is to reconcile
    pc, snap,      \* the reconcile in progress, and the copy it was given
    intent,        \* the status it is about to patch
    started,       \* history: uids a TaskRun was created for,
    twice,         \*   those it was created for more than once,
    removed,       \*   those whose TaskRun somebody deleted,
    verdicts       \*   the results of the TaskRuns of each uid

apiVars == <<run, born, taskrun, refExists>>
ctlVars == <<cache, queued, pc, snap, intent>>
histVars == <<started, twice, removed, verdicts>>
vars == <<apiVars, ctlVars, histVars>>

Uids == 1..MaxUid
\* "none": no Succeeded condition yet.
Statuses == {"none", "Unknown", "True", "False"}
Ours == {"inline", "incomplete", "byname"}
Objects == [uid : 0..MaxUid, form : AllForms, status : Statuses]
NoRun == [uid |-> 0, form |-> "inline", status |-> "none"]
NoTaskRun == [maker |-> "nobody", owner |-> 0, status |-> "none"]

TypeOK ==
    /\ run \in [Runs -> Objects]
    /\ born \in [Runs -> 0..MaxUid]
    /\ taskrun \in [Runs -> [maker : {"nobody", "us", "other"},
                             owner : 0..MaxUid, status : Statuses]]
    /\ refExists \in BOOLEAN
    /\ cache \in [Controllers -> [Runs -> Objects]]
    /\ queued \in [Controllers -> SUBSET Runs]
    /\ pc \in [Controllers -> [Runs -> {"idle", "find", "resolve", "create", "patch"}]]
    /\ snap \in [Controllers -> [Runs -> Objects]]
    /\ intent \in [Controllers -> [Runs -> Statuses \ {"none"}]]
    /\ started \in [Runs -> SUBSET Uids]
    /\ twice \in [Runs -> SUBSET Uids]
    /\ removed \in [Runs -> SUBSET Uids]
    /\ verdicts \in [Runs -> SUBSET (Uids \X {"True", "False"})]

Init ==
    /\ run = [c \in Runs |-> NoRun]
    /\ born = [c \in Runs |-> 0]
    /\ taskrun = [c \in Runs |-> NoTaskRun]
    /\ refExists \in BOOLEAN
    /\ cache = [k \in Controllers |-> [c \in Runs |-> NoRun]]
    /\ queued = [k \in Controllers |-> {}]
    /\ pc = [k \in Controllers |-> [c \in Runs |-> "idle"]]
    /\ snap = [k \in Controllers |-> [c \in Runs |-> NoRun]]
    /\ intent = [k \in Controllers |-> [c \in Runs |-> "Unknown"]]
    /\ started = [c \in Runs |-> {}]
    /\ twice = [c \in Runs |-> {}]
    /\ removed = [c \in Runs |-> {}]
    /\ verdicts = [c \in Runs |-> {}]

-----------------------------------------------------------------------------
(***************************************************************************)
(* One reconcile.                                                          *)
(***************************************************************************)
Goto(k, c, s) == pc' = [pc EXCEPT ![k][c] = s]
Terminal(s) == s \in {"True", "False"}

\* Action::await_change(): nothing until the watch speaks again.  The copy
\* given to the reconcile is dropped with it.
AwaitChange(k, c) ==
    /\ Goto(k, c, "idle")
    /\ snap' = [snap EXCEPT ![k][c] = NoRun]
    /\ intent' = [intent EXCEPT ![k][c] = "Unknown"]
    /\ queued' = queued

\* Action::requeue, after 5 s.
Requeue(k, c) ==
    /\ Goto(k, c, "idle")
    /\ snap' = [snap EXCEPT ![k][c] = NoRun]
    /\ intent' = [intent EXCEPT ![k][c] = "Unknown"]
    /\ queued' = [queued EXCEPT ![k] = @ \cup {c}]

\* Mutant of Err: the error policy waits for a change.
ErrForgotten(k, c) == AwaitChange(k, c)

\* `?`: customrun_error_policy requeues after 15 s.
Err(k, c) == Requeue(k, c)

WillPatch(k, c, s) ==
    /\ Goto(k, c, "patch")
    /\ intent' = [intent EXCEPT ![k][c] = s]
    /\ UNCHANGED <<snap, queued>>

\* kube hands the reconciler the copy in its store; the checks on it come
\* before the first request.
Start(k, c) ==
    LET copy == cache[k][c] IN
    /\ pc[k][c] = "idle"
    /\ c \in queued[k]
    /\ \/ /\ copy.uid # 0 /\ copy.form \in Ours /\ ~Terminal(copy.status)
          /\ Goto(k, c, "find")
          /\ snap' = [snap EXCEPT ![k][c] = copy]
          /\ queued' = [queued EXCEPT ![k] = @ \ {c}]
       \/ /\ copy.uid = 0 \/ copy.form = "other"
             \/ (copy.form \in Ours /\ Terminal(copy.status))
          /\ queued' = [queued EXCEPT ![k] = @ \ {c}]
          /\ UNCHANGED <<pc, snap>>
       \/ /\ copy.uid # 0 /\ copy.form = "missing"
          /\ UNCHANGED <<pc, snap, queued>>
    /\ UNCHANGED <<apiVars, cache, intent, histVars>>

\* Mutant of Mirror: any condition of the TaskRun counts as success.
MirrorAnyCondition(s) == IF s = "none" THEN "Unknown" ELSE "True"

\* Mutant of Mirror: a missing condition is passed on.
MirrorRaw(s) == s

\* sync_status_from_taskrun().
Mirror(s) == IF Terminal(s) THEN s ELSE "Unknown"

\* Mutant of FindOk: the TaskRun is looked up in a watch store that lags.
FindCached(k, c) ==
    /\ pc[k][c] = "find"
    /\ IF taskrun[c].maker = "us"
         THEN WillPatch(k, c, "Unknown") \/ WillPatch(k, c, Mirror(taskrun[c].status))
         ELSE Goto(k, c, "resolve") /\ UNCHANGED <<snap, intent, queued>>
    /\ UNCHANGED <<apiVars, cache, histVars>>

\* find_our_taskrun(): by label, so a TaskRun of the same name that somebody
\* else made is not found, and one made for an earlier CustomRun is.
FindOk(k, c) ==
    /\ pc[k][c] = "find"
    /\ IF taskrun[c].maker = "us"
         THEN WillPatch(k, c, Mirror(taskrun[c].status))
         ELSE Goto(k, c, "resolve") /\ UNCHANGED <<snap, intent, queued>>
    /\ UNCHANGED <<apiVars, cache, histVars>>

FindFails(k, c) ==
    /\ pc[k][c] = "find"
    /\ Err(k, c)
    /\ UNCHANGED <<apiVars, cache, histVars>>

\* resolve_task_spec(): a lookup that fails for whatever reason is taken for
\* invalid params.
Resolve(k, c) ==
    LET form == snap[k][c].form IN
    /\ pc[k][c] = "resolve"
    /\ \/ /\ form = "inline" \/ (form = "byname" /\ refExists)
          /\ Goto(k, c, "create")
          /\ UNCHANGED <<snap, intent, queued>>
       \/ /\ form \in {"incomplete", "byname"}
          /\ WillPatch(k, c, "False")
    /\ UNCHANGED <<apiVars, cache, histVars>>

\* The API server makes the TaskRun, owned by the copy's uid.
Made(k, c) ==
    LET u == snap[k][c].uid IN
    /\ taskrun' = [taskrun EXCEPT ![c] =
                      [maker |-> "us", owner |-> u, status |-> "none"]]
    /\ started' = [started EXCEPT ![c] = @ \cup {u}]
    /\ twice' = [twice EXCEPT ![c] = IF u \in started[c] THEN @ \cup {u} ELSE @]
    /\ UNCHANGED <<run, born, refExists, removed, verdicts>>

\* Mutant of CreateOk: generateName instead of name, hence never a 409.
CreateGenerated(k, c) ==
    /\ pc[k][c] = "create"
    /\ Made(k, c)
    /\ WillPatch(k, c, "Unknown")
    /\ UNCHANGED cache

\* create_taskrun() returns Ok: created, or 409, whoever made the other one.
CreateOk(k, c) ==
    /\ pc[k][c] = "create"
    /\ IF taskrun[c].maker = "nobody"
         THEN Made(k, c)
         ELSE UNCHANGED <<apiVars, histVars>>
    /\ WillPatch(k, c, "Unknown")
    /\ UNCHANGED cache

\* It returns Err: refused, or created with the answer lost.
CreateFails(k, c) ==
    /\ pc[k][c] = "create"
    /\ \/ UNCHANGED <<apiVars, histVars>>
       \/ taskrun[c].maker = "nobody" /\ Made(k, c)
    /\ WillPatch(k, c, "False")
    /\ UNCHANGED cache

\* patch_status() is a merge patch by name: no uid, no resourceVersion.
Patched(k, c) == run' = [run EXCEPT ![c].status = intent[k][c]]

PatchOk(k, c) ==
    /\ pc[k][c] = "patch"
    /\ run[c].uid # 0
    /\ Patched(k, c)
    /\ IF Terminal(intent[k][c]) THEN AwaitChange(k, c) ELSE Requeue(k, c)
    /\ UNCHANGED <<born, taskrun, refExists, cache, histVars>>

\* 404, an error, or an answer that is lost.
PatchFails(k, c) ==
    /\ pc[k][c] = "patch"
    /\ run' = run \/ (run[c].uid # 0 /\ Patched(k, c))
    /\ Err(k, c)
    /\ UNCHANGED <<born, taskrun, refExists, cache, histVars>>

-----------------------------------------------------------------------------
(***************************************************************************)
(* The controller's runtime and the cluster.                               *)
(***************************************************************************)

\* The watch catches up, and schedules the object.
Observe(k, c) ==
    /\ cache[k][c] # run[c]
    /\ cache' = [cache EXCEPT ![k][c] = run[c]]
    /\ queued' = [queued EXCEPT ![k] = @ \cup {c}]
    /\ UNCHANGED <<apiVars, pc, snap, intent, histVars>>

\* An event for a change of the object's metadata only; later ones may be
\* under way.
MetadataEvent(k, c) ==
    /\ cache[k][c].uid # 0
    /\ queued' = [queued EXCEPT ![k] = @ \cup {c}]
    /\ UNCHANGED <<apiVars, cache, pc, snap, intent, histVars>>

\* The process dies and is started again: it lists everything anew.
Restart(k) ==
    /\ cache' = [cache EXCEPT ![k] = run]
    /\ queued' = [queued EXCEPT ![k] = {c \in Runs : run[c].uid # 0}]
    /\ pc' = [pc EXCEPT ![k] = [c \in Runs |-> "idle"]]
    /\ snap' = [snap EXCEPT ![k] = [c \in Runs |-> NoRun]]
    /\ intent' = [intent EXCEPT ![k] = [c \in Runs |-> "Unknown"]]
    /\ UNCHANGED <<apiVars, histVars>>

Apply(c) ==
    /\ run[c].uid = 0
    /\ born[c] < MaxUid
    /\ born' = [born EXCEPT ![c] = @ + 1]
    /\ \E f \in Forms :
          run' = [run EXCEPT ![c] = [uid |-> born'[c], form |-> f, status |-> "none"]]
    /\ UNCHANGED <<taskrun, refExists, ctlVars, histVars>>

Delete(c) ==
    /\ run[c].uid # 0
    /\ run' = [run EXCEPT ![c] = NoRun]
    /\ UNCHANGED <<born, taskrun, refExists, ctlVars, histVars>>

\* Tekton runs a TaskRun to its end.
Tekton(c) ==
    /\ taskrun[c].maker # "nobody"
    /\ ~Terminal(taskrun[c].status)
    /\ \E s \in {"True", "False"} :
          /\ taskrun' = [taskrun EXCEPT ![c].status = s]
          /\ verdicts' = IF taskrun[c].maker = "us"
                           THEN [verdicts EXCEPT ![c] = @ \cup {<<taskrun[c].owner, s>>}]
                           ELSE verdicts
    /\ UNCHANGED <<run, born, refExists, ctlVars, started, twice, removed>>

TektonStarts(c) ==
    /\ taskrun[c].maker # "nobody"
    /\ taskrun[c].status = "none"
    /\ taskrun' = [taskrun EXCEPT ![c].status = "Unknown"]
    /\ UNCHANGED <<run, born, refExists, ctlVars, histVars>>

Gone(c) ==
    /\ taskrun' = [taskrun EXCEPT ![c] = NoTaskRun]
    /\ removed' = [removed EXCEPT ![c] = @ \cup {taskrun[c].owner}]
    /\ UNCHANGED <<run, born, refExists, ctlVars, started, twice, verdicts>>

\* The garbage collector, in its own time, removes a TaskRun without owner.
Collect(c) == taskrun[c].maker = "us" /\ taskrun[c].owner # run[c].uid /\ Gone(c)

\* A user or a pruner deletes a TaskRun: once per owner, the bound.
Prune(c) ==
    /\ taskrun[c].maker = "us"
    /\ taskrun[c].owner \notin removed[c]
    /\ Gone(c)

\* Somebody else made a TaskRun of that name: see RemoteTask, or by hand.
OtherTaskRun(c) ==
    /\ NamesCollide
    /\ taskrun[c].maker = "nobody"
    /\ taskrun' = [taskrun EXCEPT ![c].maker = "other"]
    /\ UNCHANGED <<run, born, refExists, ctlVars, histVars>>

RefChanges ==
    /\ refExists' = ~refExists
    /\ UNCHANGED <<run, born, taskrun, ctlVars, histVars>>

-----------------------------------------------------------------------------
Reconcile(k, c) ==
    \/ Start(k, c) \/ FindOk(k, c) \/ FindFails(k, c) \/ Resolve(k, c)
    \/ CreateOk(k, c) \/ CreateFails(k, c) \/ PatchOk(k, c) \/ PatchFails(k, c)

Cluster(c) ==
    \/ Apply(c) \/ Delete(c) \/ Tekton(c) \/ TektonStarts(c)
    \/ Collect(c) \/ Prune(c) \/ OtherTaskRun(c)

Next ==
    \/ \E k \in Controllers, c \in Runs :
          Reconcile(k, c) \/ Observe(k, c) \/ MetadataEvent(k, c)
    \/ \E k \in Controllers : Restart(k)
    \/ \E c \in Runs : Cluster(c)
    \/ RefChanges

Spec == Init /\ [][Next]_vars

(***************************************************************************)
(* Fairness: the watch catches up and queued objects are reconciled, every *)
(* request the code makes again and again is answered at last (strong: the *)
(* API server is not down for ever, nor is the controller restarted before *)
(* each answer), Tekton ends the TaskRuns it has, the collector collects.  *)
(* Users promise nothing.                                                  *)
(***************************************************************************)
Fairness ==
    /\ \A k \in Controllers, c \in Runs :
          /\ WF_vars(Observe(k, c))
          /\ WF_vars(Start(k, c))
          /\ SF_vars(FindOk(k, c))
          /\ SF_vars(Resolve(k, c))
          /\ SF_vars(CreateOk(k, c) \/ CreateFails(k, c))
          /\ SF_vars(PatchOk(k, c))
    /\ \A c \in Runs : WF_vars(Tekton(c)) /\ WF_vars(Collect(c))

FairSpec == Spec /\ Fairness

-----------------------------------------------------------------------------
(***************************************************************************)
(* Properties.                                                             *)
(***************************************************************************)

\* The script of a CustomRun is started once: whatever fails, restarts or is
\* reconciled twice from stale copies by two controllers, a second TaskRun is
\* made for it only after somebody deleted the first.
ScriptRunsOnce == \A c \in Runs : twice[c] \subseteq removed[c]

\* Why: the TaskRun that was made for a uid is still there, under the one
\* name it can have, or was deleted.
StillThere(c, u) == taskrun[c].maker = "us" /\ taskrun[c].owner = u
StartedInv ==
    \A c \in Runs, u \in Uids :
        u \in started[c] => StillThere(c, u) \/ u \in removed[c]

\* A CustomRun is marked succeeded only after a TaskRun made for that name
\* succeeded; for a name used once that is its own TaskRun.
SuccessIsReal ==
    \A c \in Runs :
        run[c].status = "True" => \E u \in Uids : <<u, "True">> \in verdicts[c]

\* With one controller, success is final while no TaskRun of that name was
\* deleted: neither stale copies nor retries nor restarts turn a CustomRun
\* that succeeded back to running or to failed.
SuccessIsFinal ==
    [][\A c \in Runs :
          run[c].status = "True" /\ run'[c].uid = run[c].uid /\ removed'[c] = {}
              => run'[c].status = "True"]_vars

=============================================================================
