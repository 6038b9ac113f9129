-------------------------- MODULE ResticController --------------------------
(***************************************************************************)
(* The restic snapshot controller of                                       *)
(* src/src/bin/restic-snapshot-controller/main.rs: it reconciles           *)
(* ResticRestores, each of which asks for one Job that writes a backup     *)
(* into a PVC, and on every cron tick sweeps over the annotated PVCs with  *)
(* one backup Job after the other; and the CLI of                          *)
(* src/src/restore_restic_backup.rs that makes a ResticRestore and polls.  *)
(*                                                                         *)
(* Reconciles of different restores and the sweeps run side by side in one *)
(* process.  A request to the API server may fail, or succeed with its     *)
(* answer lost, and a reconcile starts from a copy that the watch          *)
(* delivered some time ago.                                                *)
(*                                                                         *)
(* External: the API server, kube's watch and queue, Jobs and their pods,  *)
(* the workloads that mount the PVCs and the users who scale them.         *)
(***************************************************************************)
EXTENDS Naturals

CONSTANTS
    Restores,      \* names of ResticRestores
    Sweeps,        \* ticks of the cron job
    Pvcs,
    JobIds,        \* bound: Jobs that exist at the same time
    MaxRestarts,   \* bound: how often the process dies
    Nobody

Workers == Restores \cup Sweeps

ASSUME ResticAssumption ==
    /\ MaxRestarts \in Nat
    /\ Pvcs # {}
    /\ Restores \cap Sweeps = {}
    /\ Nobody \notin Workers \cup Pvcs \cup JobIds

VARIABLES
    phase,      \* status.phase of each ResticRestore
    target,     \* the PVC a worker is about; of a restore, spec.pvcName
    volume,     \* the PVC itself
    mounted,    \* a pod of its workload uses the PVC
    jobs,       \* the Jobs in the cluster
    cli,        \* the restore command of each ResticRestore
    cache,      \* the phase in the copy the watch delivered last
    queued,     \* ResticRestores to be reconciled
    pc, intent, \* each worker, and the phase it is to patch
    mine,       \* the Job each worker has made and not yet deleted
    todo,       \* PVCs a sweep has still to do
    restarts,
    restored,   \* history: restores of which a Job ran to its end,
    freed,      \*   those whose PVC was free since their reconcile began,
    strays      \*   Jobs of which the process lost track

userVars == <<target, volume, mounted, cli>>
ctlVars == <<cache, queued, pc, intent, mine, todo, restarts>>
histVars == <<restored, freed, strays>>
vars == <<phase, userVars, jobs, ctlVars, histVars>>

\* "new": no status yet, or Pending.  "RWO" in `volume`: ReadWriteOnce and
\* no node selected so far.
Open == {"new", "WaitingForScaleDown", "Running"}
TerminalPhases == {"Succeeded", "Failed"}
Phases == Open \cup TerminalPhases \cup {"absent"}
Volumes == {"missing", "RWO", "ready"}

NoJob == [by |-> Nobody, pvc |-> Nobody, state |-> "none"]
Finished == {"ok", "failed"}
JobStates == Finished \cup {"none", "created", "running", "ending"}

TypeOK ==
    /\ phase \in [Restores -> Phases]
    /\ target \in [Workers -> Pvcs]
    /\ volume \in [Pvcs -> Volumes]
    /\ mounted \in [Pvcs -> BOOLEAN]
    /\ jobs \in [JobIds -> [by : Workers \cup {Nobody},
                          pvc : Pvcs \cup {Nobody}, state : JobStates]]
    /\ cli \in [Restores -> {"off", "polling", "ok", "err"}]
    /\ cache \in [Restores -> Phases]
    /\ queued \subseteq Restores
    /\ pc \in [Workers -> {"idle", "volume", "pods", "patch", "prepare", "create",
                           "wait", "delete", "list", "next", "done"}]
    /\ intent \in [Workers -> Phases]
    /\ mine \in [Workers -> JobIds \cup {Nobody}]
    /\ todo \in [Sweeps -> SUBSET Pvcs]
    /\ restarts \in 0..MaxRestarts
    /\ restored \subseteq Restores
    /\ freed \subseteq Restores
    /\ strays \subseteq JobIds

Init ==
    /\ phase = [r \in Restores |-> "absent"]
    /\ target \in [Workers -> Pvcs]
    /\ volume \in [Pvcs -> Volumes]
    /\ mounted = [p \in Pvcs |-> FALSE]
    /\ jobs = [j \in JobIds |-> NoJob]
    /\ cli = [r \in Restores |-> "off"]
    /\ cache = [r \in Restores |-> "absent"]
    /\ queued = {}
    /\ pc = [w \in Workers |-> "idle"]
    /\ intent = [w \in Workers |-> "absent"]
    /\ mine = [w \in Workers |-> Nobody]
    /\ todo = [s \in Sweeps |-> {}]
    /\ restarts = 0
    /\ restored = {}
    /\ freed = {}
    /\ strays = {}

\* The pod of j is in the cluster and not in phase Succeeded or Failed.
HasPod(j) == jobs[j].state \in {"running", "ending"}
InUse(p) == mounted[p] \/ \E j \in JobIds : HasPod(j) /\ jobs[j].pvc = p

Goto(w, s) == pc' = [pc EXCEPT ![w] = s]

-----------------------------------------------------------------------------
(***************************************************************************)
(* reconcile_restore(), up to its Job.                                     *)
(***************************************************************************)
WillPatch(r, to) == Goto(r, "patch") /\ intent' = [intent EXCEPT ![r] = to]

Returns(r) ==
    /\ Goto(r, "idle")
    /\ intent' = [intent EXCEPT ![r] = "absent"]
    /\ freed' = freed \ {r}

\* Action::await_change().
AwaitChange(r) == Returns(r) /\ queued' = queued

\* Mutant of Requeue: it waits for a change.
RequeueForgotten(r) == AwaitChange(r)

\* Action::requeue, after 10 s, and after 15 s by restore_error_policy.
Requeue(r) == Returns(r) /\ queued' = queued \cup {r}

\* What a step of a reconcile leaves alone before it has a Job.
reqVars == <<userVars, jobs, cache, mine, todo, restarts, restored, strays>>

Start(r) ==
    /\ pc[r] = "idle"
    /\ r \in queued
    /\ queued' = queued \ {r}
    /\ IF cache[r] \in Open
         THEN /\ Goto(r, "volume")
              /\ freed' = IF InUse(target[r]) THEN freed ELSE freed \cup {r}
         ELSE UNCHANGED <<pc, freed>>
    /\ UNCHANGED <<phase, intent, reqVars>>

LookUp(r) ==
    /\ pc[r] = "volume"
    /\ IF volume[target[r]] = "missing"
         THEN WillPatch(r, "Failed")
         ELSE Goto(r, "pods") /\ UNCHANGED intent
    /\ UNCHANGED <<phase, queued, freed, reqVars>>

\* Mutant of CheckPods: a pod that is being deleted does not count.
CheckPodsNotEnding(r) ==
    /\ pc[r] = "pods"
    /\ IF \/ mounted[target[r]]
          \/ \E j \in JobIds : jobs[j].state = "running" /\ jobs[j].pvc = target[r]
         THEN WillPatch(r, "WaitingForScaleDown")
         ELSE WillPatch(r, "Running")
    /\ UNCHANGED <<phase, queued, freed, reqVars>>

\* pod_attached_to_pvc().
CheckPods(r) ==
    /\ pc[r] = "pods"
    /\ IF InUse(target[r])
         THEN WillPatch(r, "WaitingForScaleDown")
         ELSE WillPatch(r, "Running")
    /\ UNCHANGED <<phase, queued, freed, reqVars>>

\* After the phase Running: the node, then the credentials.
Prepare(r) ==
    /\ pc[r] = "prepare"
    /\ IF volume[target[r]] = "RWO"
         THEN WillPatch(r, "Failed")
         ELSE Goto(r, "create") /\ UNCHANGED intent
    /\ UNCHANGED <<phase, queued, freed, reqVars>>

\* `?` after the lookup of the PVC, of the pods or of the credentials.
RequestFails(r) ==
    /\ \/ pc[r] \in {"volume", "pods"}
       \/ pc[r] = "prepare" /\ volume[target[r]] # "RWO"
    /\ Requeue(r)
    /\ UNCHANGED <<phase, reqVars>>

\* Mutant of PatchOk: it goes on to the Job whatever it has patched.
PatchOkGoesOn(r) ==
    /\ pc[r] = "patch"
    /\ phase[r] # "absent"
    /\ phase' = [phase EXCEPT ![r] = intent[r]]
    /\ IF intent[r] \in TerminalPhases
         THEN AwaitChange(r)
         ELSE Goto(r, "prepare") /\ UNCHANGED <<intent, queued, freed>>
    /\ UNCHANGED reqVars

\* set_restore_status() and what follows it.
PatchOk(r) ==
    /\ pc[r] = "patch"
    /\ phase[r] # "absent"
    /\ phase' = [phase EXCEPT ![r] = intent[r]]
    /\ \/ /\ intent[r] = "WaitingForScaleDown"
          /\ Requeue(r)
       \/ /\ intent[r] = "Running"
          /\ Goto(r, "prepare")
          /\ UNCHANGED <<intent, queued, freed>>
       \/ /\ intent[r] \in TerminalPhases
          /\ AwaitChange(r)
    /\ UNCHANGED reqVars

\* 404, an error, or an answer that is lost.
PatchFails(r) ==
    /\ pc[r] = "patch"
    /\ \/ phase' = phase
       \/ phase[r] # "absent" /\ phase' = [phase EXCEPT ![r] = intent[r]]
    /\ Requeue(r)
    /\ UNCHANGED reqVars

-----------------------------------------------------------------------------
(***************************************************************************)
(* run_backup_sweep(), up to its Jobs.                                     *)
(***************************************************************************)
sweepVars == <<phase, userVars, jobs, cache, queued, intent, mine, restarts, histVars>>

\* The scheduler starts a sweep on every tick, whether or not an earlier one
\* still runs.
Tick(s) ==
    /\ pc[s] = "idle"
    /\ Goto(s, "list")
    /\ UNCHANGED <<todo, sweepVars>>

\* Credentials and the annotated PVCs, or the end of the sweep without them.
List(s) ==
    /\ pc[s] = "list"
    /\ \/ Goto(s, "done") /\ todo' = todo
       \/ /\ Goto(s, "next")
          /\ \E ps \in SUBSET {p \in Pvcs : volume[p] # "missing"} :
                todo' = [todo EXCEPT ![s] = ps]
    /\ UNCHANGED sweepVars

NextPvc(s) ==
    /\ pc[s] = "next"
    /\ \/ /\ todo[s] = {}
          /\ Goto(s, "done")
          /\ UNCHANGED <<todo, target>>
       \/ \E p \in todo[s] :
             /\ todo' = [todo EXCEPT ![s] = @ \ {p}]
             /\ target' = [target EXCEPT ![s] = p]
             /\ Goto(s, IF volume[p] = "RWO" THEN "next" ELSE "create")
    /\ UNCHANGED <<phase, volume, mounted, cli, jobs, cache, queued, intent, mine,
                   restarts, histVars>>

-----------------------------------------------------------------------------
(***************************************************************************)
(* run_backup_job(), for a restore or a sweep.                             *)
(***************************************************************************)
jobFrame == <<phase, userVars, cache, queued, todo, restarts, restored, freed>>

\* What the caller does next; a sweep only counts the outcome.
AfterJob(w, to) == IF w \in Restores THEN WillPatch(w, to)
                                     ELSE Goto(w, "next") /\ UNCHANGED intent

Made(w, j) ==
    /\ jobs[j] = NoJob
    /\ jobs' = [jobs EXCEPT ![j] = [by |-> w, pvc |-> target[w], state |-> "created"]]

CreateOk(w) ==
    /\ pc[w] = "create"
    /\ \E j \in JobIds : Made(w, j) /\ mine' = [mine EXCEPT ![w] = j]
    /\ Goto(w, "wait")
    /\ UNCHANGED <<intent, strays, jobFrame>>

\* Refused (409 too: names have a resolution of one second), or the answer is
\* lost: `?` returns before the Job is deleted.
CreateFails(w) ==
    /\ pc[w] = "create"
    /\ \/ UNCHANGED <<jobs, strays>>
       \/ \E j \in JobIds : Made(w, j) /\ strays' = strays \cup {j}
    /\ AfterJob(w, "Failed")
    /\ UNCHANGED <<mine, jobFrame>>

\* Mutant of WaitSees: a finished Job counts as a success.
WaitSeesAnyEnd(w) ==
    /\ pc[w] = "wait"
    /\ jobs[mine[w]].state \in Finished
    /\ Goto(w, "delete")
    /\ intent' = IF w \in Restores THEN [intent EXCEPT ![w] = "Succeeded"] ELSE intent
    /\ UNCHANGED <<jobs, mine, strays, jobFrame>>

\* Mutant of WaitSees: the Job's own verdict is patched as the phase.
WaitSeesRaw(w) ==
    /\ pc[w] = "wait"
    /\ jobs[mine[w]].state \in Finished
    /\ Goto(w, "delete")
    /\ intent' = IF w \in Restores THEN [intent EXCEPT ![w] = jobs[mine[w]].state] ELSE intent
    /\ UNCHANGED <<jobs, mine, strays, jobFrame>>

\* A poll of wait_for_job() that finds the Job finished.
WaitSees(w) ==
    /\ pc[w] = "wait"
    /\ jobs[mine[w]].state \in Finished
    /\ Goto(w, "delete")
    /\ intent' = IF w \notin Restores THEN intent
                 ELSE [intent EXCEPT ![w] =
                          IF jobs[mine[w]].state = "ok" THEN "Succeeded" ELSE "Failed"]
    /\ UNCHANGED <<jobs, mine, strays, jobFrame>>

\* Mutant of WaitFails: `?` on the result of the wait, before the deletion.
WaitFailsEarly(w) ==
    /\ pc[w] = "wait"
    /\ mine' = [mine EXCEPT ![w] = Nobody]
    /\ AfterJob(w, "Failed")
    /\ UNCHANGED <<jobs, strays, jobFrame>>

\* One failed poll, or 30 minutes.
WaitFails(w) ==
    /\ pc[w] = "wait"
    /\ Goto(w, "delete")
    /\ intent' = IF w \in Restores THEN [intent EXCEPT ![w] = "Failed"] ELSE intent
    /\ UNCHANGED <<jobs, mine, strays, jobFrame>>

\* The deletion, in the background: a pod that runs lives on for a while.  A
\* deletion that fails is logged and forgotten; its answer may be lost.
Delete(w) ==
    LET j == mine[w] IN
    /\ pc[w] = "delete"
    /\ mine' = [mine EXCEPT ![w] = Nobody]
    /\ \/ /\ jobs' = [jobs EXCEPT ![j] = IF @.state = "running"
                                           THEN [@ EXCEPT !.state = "ending"] ELSE NoJob]
          /\ strays' = strays
       \/ /\ jobs' = jobs
          /\ strays' = strays \cup {j}
    /\ AfterJob(w, intent[w])
    /\ UNCHANGED jobFrame

-----------------------------------------------------------------------------
(***************************************************************************)
(* restore_restic_backup.rs: create, then poll until the deadline.         *)
(***************************************************************************)
cliFrame == <<target, volume, mounted, jobs, ctlVars, histVars>>

CliCreates(r) ==
    /\ cli[r] = "off"
    /\ \/ cli' = [cli EXCEPT ![r] = "polling"] /\ phase' = [phase EXCEPT ![r] = "new"]
       \/ cli' = [cli EXCEPT ![r] = "err"] /\ phase' = phase
       \/ cli' = [cli EXCEPT ![r] = "err"] /\ phase' = [phase EXCEPT ![r] = "new"]
    /\ UNCHANGED cliFrame

CliSees(r) ==
    /\ cli[r] = "polling"
    /\ phase[r] \in TerminalPhases
    /\ cli' = [cli EXCEPT ![r] = IF phase[r] = "Succeeded" THEN "ok" ELSE "err"]
    /\ UNCHANGED <<phase, cliFrame>>

CliGivesUp(r) ==
    /\ cli[r] = "polling"
    /\ cli' = [cli EXCEPT ![r] = "err"]
    /\ UNCHANGED <<phase, cliFrame>>

-----------------------------------------------------------------------------
(***************************************************************************)
(* The controller's runtime and the cluster.                               *)
(***************************************************************************)
Observe(r) ==
    /\ cache[r] # phase[r]
    /\ cache' = [cache EXCEPT ![r] = phase[r]]
    /\ queued' = queued \cup {r}
    /\ UNCHANGED <<phase, userVars, jobs, pc, intent, mine, todo, restarts, histVars>>

\* The process dies in whatever it does and starts again: sweeps are gone,
\* the ResticRestores are listed anew.
Restart ==
    /\ restarts < MaxRestarts
    /\ restarts' = restarts + 1
    /\ cache' = phase
    /\ queued' = {r \in Restores : phase[r] # "absent"}
    /\ pc' = [w \in Workers |->
                 IF w \in Restores \/ pc[w] = "idle" THEN "idle" ELSE "done"]
    /\ intent' = [w \in Workers |-> "absent"]
    /\ strays' = strays \cup ({mine[w] : w \in Workers} \ {Nobody})
    /\ mine' = [w \in Workers |-> Nobody]
    /\ todo' = [s \in Sweeps |-> {}]
    /\ freed' = {}
    /\ UNCHANGED <<phase, userVars, jobs, restored>>

Remove(r) ==
    /\ phase[r] # "absent"
    /\ phase' = [phase EXCEPT ![r] = "absent"]
    /\ UNCHANGED <<userVars, jobs, ctlVars, histVars>>

\* Reconciles whose PVC a step sets free take note.
NoteFree == freed' = freed \cup {r \in Restores : pc[r] # "idle" /\ ~InUse(target[r])'}

Mount(p) ==
    /\ volume[p] # "missing"
    /\ ~mounted[p]
    /\ mounted' = [mounted EXCEPT ![p] = TRUE]
    /\ UNCHANGED <<phase, target, volume, cli, jobs, ctlVars, histVars>>

Unmount(p) ==
    /\ mounted[p]
    /\ mounted' = [mounted EXCEPT ![p] = FALSE]
    /\ UNCHANGED <<phase, target, volume, cli, jobs, ctlVars, restored, strays>>
    /\ NoteFree

podFrame == <<phase, userVars, ctlVars>>

JobRuns(j) ==
    /\ jobs[j].state = "created"
    /\ jobs' = [jobs EXCEPT ![j].state = "running"]
    /\ UNCHANGED <<podFrame, histVars>>

JobEnds(j) ==
    /\ jobs[j].state = "running"
    /\ \E s \in Finished :
          /\ jobs' = [jobs EXCEPT ![j].state = s]
          /\ restored' = IF s = "ok" THEN restored \cup ({jobs[j].by} \cap Restores)
                                     ELSE restored
    /\ UNCHANGED <<podFrame, strays>>
    /\ NoteFree

\* The pod of a deleted Job is gone, or the time to live of a finished Job
\* is over: 300 s, when nobody polls it any more.
JobGoes(j) ==
    /\ \/ jobs[j].state = "ending"
       \/ jobs[j].state \in Finished /\ \A w \in Workers : mine[w] # j
    /\ jobs' = [jobs EXCEPT ![j] = NoJob]
    /\ strays' = strays \ {j}
    /\ UNCHANGED <<podFrame, restored>>
    /\ NoteFree

-----------------------------------------------------------------------------
Reconcile(r) ==
    \/ Start(r) \/ LookUp(r) \/ CheckPods(r) \/ Prepare(r) \/ RequestFails(r)
    \/ PatchOk(r) \/ PatchFails(r)

Sweep(s) == Tick(s) \/ List(s) \/ NextPvc(s)

RunJob(w) == CreateOk(w) \/ CreateFails(w) \/ WaitSees(w) \/ WaitFails(w) \/ Delete(w)

Next ==
    \/ \E r \in Restores :
          \/ Reconcile(r) \/ Observe(r) \/ Remove(r)
          \/ CliCreates(r) \/ CliSees(r) \/ CliGivesUp(r)
    \/ \E s \in Sweeps : Sweep(s)
    \/ \E w \in Workers : RunJob(w)
    \/ \E p \in Pvcs : Mount(p) \/ Unmount(p)
    \/ \E j \in JobIds : JobRuns(j) \/ JobEnds(j) \/ JobGoes(j)
    \/ Restart

Spec == Init /\ [][Next]_vars

(***************************************************************************)
(* Fairness: the watch catches up, queued restores are reconciled, every   *)
(* request the code repeats is answered at last, whatever its kind (strong: *)
(* the API server is not down for ever).  The code bounds the wait for a   *)
(* Job.  Pods start, end, and go when deleted.  Users promise nothing.     *)
(***************************************************************************)
FairSpec ==
    /\ Spec
    /\ \A r \in Restores :
          /\ WF_vars(Observe(r)) /\ WF_vars(Start(r))
          /\ SF_vars(LookUp(r)) /\ SF_vars(CheckPods(r)) /\ SF_vars(Prepare(r))
          /\ SF_vars(PatchOk(r) /\ intent[r] \in Open)
          /\ SF_vars(PatchOk(r) /\ intent[r] \in TerminalPhases)
    /\ \A s \in Sweeps : WF_vars(List(s)) /\ WF_vars(NextPvc(s))
    /\ \A w \in Workers :
          /\ WF_vars(CreateOk(w) \/ CreateFails(w))
          /\ WF_vars(WaitSees(w) \/ WaitFails(w))
          /\ WF_vars(Delete(w))
    /\ \A j \in JobIds : WF_vars(JobRuns(j)) /\ WF_vars(JobEnds(j)) /\ WF_vars(JobGoes(j))

-----------------------------------------------------------------------------
(***************************************************************************)
(* Properties.                                                             *)
(***************************************************************************)

\* A restore is reported as succeeded, in its phase or by the command that
\* asked for it, only if a Job made for it ran to a successful end: whatever
\* answers get lost and however often it is reconciled from stale copies.
SuccessIsReal ==
    \A r \in Restores : phase[r] = "Succeeded" \/ cli[r] = "ok" => r \in restored

\* A reconcile goes on to its Job only if no pod used the PVC at some moment
\* since it began (pod_attached_to_pvc): a workload that stays is not
\* written over.
FreeBeforeRestore ==
    \A r \in Restores :
        pc[r] \in {"prepare", "create", "wait", "delete"} => r \in freed

\* Two pods never write for the same restore at once, though its reconcile
\* is repeated after a lost answer or from a stale copy and deletion is in
\* the background -- unless one belongs to a Job the process lost track of
\* before it had a pod.
OneWriterEach ==
    \A j, k \in JobIds :
        /\ j # k /\ HasPod(j) /\ HasPod(k)
        /\ jobs[j].by = jobs[k].by /\ jobs[j].by \in Restores
        => j \in strays \/ k \in strays

\* A Job that is not deleted has somebody who will delete it, unless the
\* process died, its creation was not acknowledged or its deletion failed.
JobsAreDeleted ==
    \A j \in JobIds :
        jobs[j].state \in {"created", "running"} \cup Finished =>
            j \in strays \/ \E w \in Workers : mine[w] = j

\* Once no workload mounts the PVC any more, every restore ends, with a result
\* or because it was deleted: "Scale the owning workload to 0 replicas and
\* this will proceed automatically" (reconcile_restore), whatever is lost.
RestoresEnd ==
    \A r \in Restores :
        (<>[](~mounted[target[r]])) => (phase[r] \in Open ~> phase[r] \notin Open)

(***************************************************************************)
(* What a comment says and the code does not keep.                         *)
(***************************************************************************)

\* "Safety check: refuse to restore into a PVC something is still using": the
\* pods of two restores never write into one PVC at once.
RestoresExclude ==
    \A j, k \in JobIds :
        /\ HasPod(j) /\ HasPod(k)
        /\ {jobs[j].by, jobs[k].by} \subseteq Restores
        /\ jobs[j].by # jobs[k].by
        => jobs[j].pvc # jobs[k].pvc

=============================================================================
