---------------------------- MODULE ResticProofs ----------------------------
(***************************************************************************)
(* Proofs about ResticController for any number of restores, sweeps, PVCs, *)
(* Jobs and restarts.                                                      *)
(***************************************************************************)
EXTENDS ResticController, TLAPS

Steps == {"idle", "volume", "pods", "patch", "prepare", "create",
          "wait", "delete", "list", "next", "done"}
AtJob == {"wait", "delete"}
Jobs == [by : Workers \cup {Nobody}, pvc : Pvcs \cup {Nobody}, state : JobStates]

\* A worker holds a Job exactly between its creation and its deletion, the
\* Job is its own, and it is there.
Holding ==
    \A w \in Workers :
        /\ pc[w] \in AtJob => mine[w] \in JobIds
        /\ mine[w] # Nobody => /\ pc[w] \in AtJob
                               /\ jobs[mine[w]].by = w
                               /\ jobs[mine[w]].state \in {"created", "running"} \cup Finished

\* Whoever says or will say that a restore succeeded is right.
Real ==
    /\ \A j \in JobIds :
          jobs[j].state = "ok" /\ jobs[j].by \in Restores => jobs[j].by \in restored
    /\ \A r \in Restores : intent[r] = "Succeeded" => r \in restored
    /\ SuccessIsReal

IInv == TypeOK /\ Holding /\ Real /\ JobsAreDeleted

-----------------------------------------------------------------------------
(***************************************************************************)
(* Steps of a reconcile or a sweep that touch no Job.                      *)
(***************************************************************************)

\* One worker moves on, from one place without a Job to another.
LEMMA MoveKeeps ==
  ASSUME IInv, NEW w \in Workers, NEW s \in Steps \ AtJob, NEW to \in Phases,
         pc[w] \notin AtJob,
         pc' = [pc EXCEPT ![w] = s], intent' = [intent EXCEPT ![w] = to],
         to = "Succeeded" => to = intent[w],
         phase' \in [Restores -> Phases],
         \A r \in Restores : phase'[r] = "Succeeded" =>
             phase[r] = "Succeeded" \/ intent[r] = "Succeeded",
         target' \in [Workers -> Pvcs], queued' \subseteq Restores,
         freed' \subseteq Restores, todo' \in [Sweeps -> SUBSET Pvcs],
         UNCHANGED <<volume, mounted, cli, jobs, cache, mine, restarts, restored, strays>>
  PROVE  IInv'
<1>1. TypeOK'
  <2>1. /\ [pc EXCEPT ![w] = s] \in [Workers -> Steps]
        /\ [intent EXCEPT ![w] = to] \in [Workers -> Phases]
    BY DEF IInv, TypeOK, Steps
  <2> QED BY <2>1 DEF IInv, TypeOK, Steps
<1>2. Holding'
  BY DEF IInv, TypeOK, Holding, AtJob
<1>3. Real'
  BY DEF IInv, TypeOK, Real, SuccessIsReal, Workers
<1>4. JobsAreDeleted'
  BY DEF IInv, JobsAreDeleted
<1> QED BY <1>1, <1>2, <1>3, <1>4 DEF IInv

\* The steps of a reconcile before it has a Job.
LEMMA ReconcileKeeps ==
  ASSUME IInv, NEW r \in Restores, Reconcile(r)
  PROVE  IInv'
<1> USE DEF reqVars, userVars, Goto
<1>1. /\ r \in Workers
      /\ phase \in [Restores -> Phases] /\ target \in [Workers -> Pvcs]
      /\ queued \subseteq Restores /\ freed \subseteq Restores
      /\ todo \in [Sweeps -> SUBSET Pvcs]
      /\ intent \in [Workers -> Phases] /\ pc \in [Workers -> Steps]
  BY DEF IInv, TypeOK, Workers, Steps
<1>2. [intent EXCEPT ![r] = intent[r]] = intent
  BY <1>1
<1>3. /\ {"volume", "pods", "patch", "prepare", "create", "idle"} \subseteq Steps \ AtJob
      /\ {"absent", "Failed", "Running", "WaitingForScaleDown"} \subseteq Phases
  BY DEF Steps, AtJob, Phases, Open, TerminalPhases
<1>4. /\ [phase EXCEPT ![r] = intent[r]] \in [Restores -> Phases]
      /\ \A q \in Restores : [phase EXCEPT ![r] = intent[r]][q] = "Succeeded" =>
             phase[q] = "Succeeded" \/ intent[q] = "Succeeded"
  BY <1>1
<1>5. CASE Start(r)
  <2>1. CASE Goto(r, "volume") /\ freed' \subseteq Restores
    <3>1. /\ intent' = [intent EXCEPT ![r] = intent[r]]
          /\ pc' = [pc EXCEPT ![r] = "volume"] /\ pc[r] \notin AtJob
          /\ queued' \subseteq Restores
      BY <1>1, <1>2, <1>5, <2>1 DEF Start, AtJob
    <3> QED BY <1>1, <1>3, <1>5, <2>1, <3>1, MoveKeeps DEF Start
  <2>2. CASE UNCHANGED <<pc, freed>>
    <3>1. /\ intent' = [intent EXCEPT ![r] = intent[r]]
          /\ pc' = [pc EXCEPT ![r] = "idle"] /\ pc[r] \notin AtJob
          /\ queued' \subseteq Restores
      BY <1>1, <1>2, <1>5, <2>2 DEF Start, AtJob
    <3> QED BY <1>1, <1>3, <1>5, <2>2, <3>1, MoveKeeps DEF Start
  <2> QED BY <1>1, <1>5, <2>1, <2>2 DEF Start
<1>6. CASE LookUp(r) \/ CheckPods(r) \/ Prepare(r)
  <2>1. /\ pc[r] \notin AtJob
        /\ UNCHANGED <<phase, queued, freed, reqVars>>
    BY <1>6 DEF LookUp, CheckPods, Prepare, AtJob
  <2>2. \/ \E to \in {"Failed", "Running", "WaitingForScaleDown"} : WillPatch(r, to)
        \/ (Goto(r, "pods") \/ Goto(r, "create")) /\ UNCHANGED intent
    BY <1>6 DEF LookUp, CheckPods, Prepare
  <2>3. CASE \E to \in {"Failed", "Running", "WaitingForScaleDown"} : WillPatch(r, to)
    BY <1>1, <1>3, <2>1, <2>3, MoveKeeps DEF WillPatch
  <2>4. CASE (Goto(r, "pods") \/ Goto(r, "create")) /\ UNCHANGED intent
    <3>1. intent' = [intent EXCEPT ![r] = intent[r]]
      BY <1>2, <2>4
    <3> QED BY <1>1, <1>3, <2>1, <2>4, <3>1, MoveKeeps
  <2> QED BY <2>2, <2>3, <2>4
<1>7. ASSUME AwaitChange(r) \/ Requeue(r), pc[r] \notin AtJob, UNCHANGED reqVars,
             phase' = phase \/ phase' = [phase EXCEPT ![r] = intent[r]]
      PROVE  IInv'
  <2>1. /\ pc' = [pc EXCEPT ![r] = "idle"] /\ intent' = [intent EXCEPT ![r] = "absent"]
        /\ queued' \subseteq Restores /\ freed' \subseteq Restores
    BY <1>1, <1>7 DEF AwaitChange, Requeue, Returns
  <2> QED BY <1>1, <1>3, <1>4, <1>7, <2>1, MoveKeeps
<1>8. CASE RequestFails(r)
  BY <1>7, <1>8 DEF RequestFails, AtJob
<1>9. CASE PatchOk(r)
  <2>1. pc[r] \notin AtJob /\ phase' = [phase EXCEPT ![r] = intent[r]] /\ UNCHANGED reqVars
    BY <1>9 DEF PatchOk, AtJob
  <2>2. CASE Goto(r, "prepare") /\ UNCHANGED <<intent, queued, freed>>
    <3>1. intent' = [intent EXCEPT ![r] = intent[r]]
      BY <1>2, <2>2
    <3> QED BY <1>1, <1>3, <1>4, <2>1, <2>2, <3>1, MoveKeeps
  <2> QED BY <1>7, <1>9, <2>1, <2>2 DEF PatchOk
<1>10. CASE PatchFails(r)
  BY <1>7, <1>10 DEF PatchFails, AtJob
<1> QED BY <1>5, <1>6, <1>8, <1>9, <1>10 DEF Reconcile

\* The steps of a sweep before it has a Job: they patch nothing.
LEMMA SweepKeeps ==
  ASSUME IInv, NEW s \in Sweeps, Sweep(s)
  PROVE  IInv'
<1> USE DEF sweepVars, userVars, histVars, Goto
<1>1. /\ s \in Workers
      /\ phase \in [Restores -> Phases] /\ target \in [Workers -> Pvcs]
      /\ queued \subseteq Restores /\ freed \subseteq Restores
      /\ todo \in [Sweeps -> SUBSET Pvcs]
      /\ intent \in [Workers -> Phases] /\ intent[s] \in Phases
  BY DEF IInv, TypeOK, Workers
<1>2. [intent EXCEPT ![s] = intent[s]] = intent
  BY <1>1
<1>3. {"list", "done", "next", "create"} \subseteq Steps \ AtJob
  BY DEF Steps, AtJob
<1>4. /\ pc[s] \notin AtJob
      /\ \E to \in {"list", "done", "next", "create"} : pc' = [pc EXCEPT ![s] = to]
      /\ intent' = [intent EXCEPT ![s] = intent[s]]
      /\ UNCHANGED <<phase, queued, freed, volume, mounted, cli, jobs, cache, mine,
                     restarts, restored, strays>>
  BY <1>2 DEF Sweep, Tick, List, NextPvc, AtJob
<1>5. target' \in [Workers -> Pvcs] /\ todo' \in [Sweeps -> SUBSET Pvcs]
  <2>1. CASE Tick(s) \/ List(s)
    BY <1>1, <2>1 DEF Tick, List
  <2>2. CASE NextPvc(s)
    BY <1>1, <2>2 DEF NextPvc
  <2> QED BY <2>1, <2>2 DEF Sweep
<1> QED BY <1>1, <1>3, <1>4, <1>5, MoveKeeps

-----------------------------------------------------------------------------
(***************************************************************************)
(* Steps of run_backup_job().                                              *)
(***************************************************************************)

\* What the caller does after its Job: it moves to a place without one, and a
\* restore takes the phase to patch along.
LEMMA AfterJobMoves ==
  ASSUME IInv, NEW w \in Workers, NEW to \in Phases, AfterJob(w, to)
  PROVE  /\ \E s \in Steps \ AtJob : pc' = [pc EXCEPT ![w] = s]
         /\ pc' \in [Workers -> Steps]
         /\ intent' \in [Workers -> Phases]
         /\ \A v \in Workers : intent'[v] = intent[v] \/ (v = w /\ intent'[v] = to)
<1>1. pc \in [Workers -> Steps] /\ intent \in [Workers -> Phases]
  BY DEF IInv, TypeOK, Steps
<1>2. {"patch", "next"} \subseteq Steps \ AtJob
  BY DEF Steps, AtJob
<1>3. CASE w \in Restores
  <2>1. pc' = [pc EXCEPT ![w] = "patch"] /\ intent' = [intent EXCEPT ![w] = to]
    BY <1>3 DEF AfterJob, WillPatch, Goto
  <2> QED BY <1>1, <1>2, <2>1
<1>4. CASE w \notin Restores
  <2>1. pc' = [pc EXCEPT ![w] = "next"] /\ intent' = intent
    BY <1>4 DEF AfterJob, Goto
  <2> QED BY <1>1, <1>2, <2>1
<1> QED BY <1>3, <1>4

\* A Job that is made is a Job.
LEMMA MadeType ==
  ASSUME IInv, NEW w \in Workers, NEW j \in JobIds, Made(w, j)
  PROVE  /\ jobs' \in [JobIds -> Jobs]
         /\ jobs[j].state = "none" /\ jobs'[j].state = "created" /\ jobs'[j].by = w
         /\ \A k \in JobIds \ {j} : jobs'[k] = jobs[k]
<1>1. jobs \in [JobIds -> Jobs] /\ target \in [Workers -> Pvcs]
  BY DEF IInv, TypeOK, Jobs
<1>2. [by |-> w, pvc |-> target[w], state |-> "created"] \in Jobs
  BY <1>1 DEF Jobs, JobStates
<1> QED BY <1>1, <1>2 DEF Made, NoJob

\* A Job is held once it is known to be made, and astray if its answer is lost.
LEMMA CreateKeeps ==
  ASSUME IInv, NEW w \in Workers, CreateOk(w) \/ CreateFails(w)
  PROVE  IInv'
<1> USE DEF jobFrame, userVars
<1>1. mine[w] = Nobody
  BY DEF IInv, Holding, CreateOk, CreateFails, AtJob
<1>2. /\ pc \in [Workers -> Steps] /\ mine \in [Workers -> JobIds \cup {Nobody}]
      /\ jobs \in [JobIds -> Jobs]
  BY DEF IInv, TypeOK, Steps, Jobs
<1>3. CASE CreateOk(w)
  <2>1. PICK j \in JobIds : Made(w, j) /\ mine' = [mine EXCEPT ![w] = j]
    BY <1>3 DEF CreateOk
  <2>2. pc' = [pc EXCEPT ![w] = "wait"] /\ UNCHANGED <<intent, strays, jobFrame>>
    BY <1>3 DEF CreateOk, Goto
  <2>3. TypeOK'
    <3>1. pc' \in [Workers -> Steps] /\ mine' \in [Workers -> JobIds \cup {Nobody}]
      BY <1>2, <2>1, <2>2 DEF Steps
    <3> QED BY <2>1, <2>2, <3>1, MadeType DEF IInv, TypeOK, Steps, Jobs
  <2>4. Holding'
    BY <1>2, <2>1, <2>2, MadeType, ResticAssumption DEF IInv, Holding, AtJob, Finished
  <2>5. Real'
    BY <2>1, <2>2, MadeType DEF IInv, Real, SuccessIsReal
  <2>6. JobsAreDeleted'
    BY <1>1, <1>2, <2>1, <2>2, MadeType, ResticAssumption DEF IInv, JobsAreDeleted
  <2> QED BY <2>3, <2>4, <2>5, <2>6 DEF IInv
<1>4. CASE CreateFails(w)
  <2>1. AfterJob(w, "Failed") /\ UNCHANGED <<mine, jobFrame>> /\ pc[w] \notin AtJob
    BY <1>4 DEF CreateFails, AtJob
  <2>2. "Failed" \in Phases
    BY DEF Phases, TerminalPhases
  <2>3. \/ UNCHANGED <<jobs, strays>>
        \/ \E j \in JobIds : Made(w, j) /\ strays' = strays \cup {j}
    BY <1>4 DEF CreateFails
  <2>4. /\ pc' \in [Workers -> Steps] /\ intent' \in [Workers -> Phases]
        /\ jobs' \in [JobIds -> Jobs] /\ strays' \subseteq JobIds
        /\ strays \subseteq strays'
        /\ \A j \in JobIds : \/ jobs'[j] = jobs[j]
                             \/ /\ j \in strays' /\ jobs[j].state = "none"
                                /\ jobs'[j].state = "created"
    <3>1. CASE UNCHANGED <<jobs, strays>>
      BY <1>2, <2>1, <2>2, <3>1, AfterJobMoves DEF IInv, TypeOK
    <3>2. CASE \E j \in JobIds : Made(w, j) /\ strays' = strays \cup {j}
      <4>1. PICK j \in JobIds : Made(w, j) /\ strays' = strays \cup {j}
        BY <3>2
      <4> QED BY <2>1, <2>2, <4>1, AfterJobMoves, MadeType DEF IInv, TypeOK
    <3> QED BY <2>3, <3>1, <3>2
  <2>5. TypeOK'
    BY <2>1, <2>4 DEF IInv, TypeOK, Steps, Jobs
  <2>6. Holding'
    <3>1. PICK s \in Steps \ AtJob : pc' = [pc EXCEPT ![w] = s]
      BY <2>1, <2>2, AfterJobMoves
    <3> QED BY <1>1, <1>2, <2>1, <2>4, <3>1, ResticAssumption
            DEF IInv, Holding, Finished
  <2>7. Real'
    <3>1. \A v \in Workers : intent'[v] = "Succeeded" => intent[v] = "Succeeded"
      BY <2>1, <2>2, AfterJobMoves
    <3> QED BY <2>1, <2>4, <3>1 DEF IInv, Real, SuccessIsReal, Workers
  <2>8. JobsAreDeleted'
    BY <2>1, <2>4 DEF IInv, JobsAreDeleted
  <2> QED BY <2>5, <2>6, <2>7, <2>8 DEF IInv
<1> QED BY <1>3, <1>4

\* The outcome that a worker reads off its own Job is the Job's.
LEMMA WaitKeeps ==
  ASSUME IInv, NEW w \in Workers, WaitSees(w) \/ WaitFails(w)
  PROVE  IInv'
<1>1. /\ pc \in [Workers -> Steps] /\ intent \in [Workers -> Phases]
      /\ {"Succeeded", "Failed"} \subseteq Phases
  BY DEF IInv, TypeOK, Steps, Phases, TerminalPhases
<1>2. /\ pc[w] = "wait" /\ pc' = [pc EXCEPT ![w] = "delete"]
      /\ UNCHANGED <<jobs, mine, strays, phase, userVars, cache, queued, todo,
                     restarts, restored, freed>>
  BY DEF WaitSees, WaitFails, Goto, jobFrame
<1>3. /\ intent' \in [Workers -> Phases]
      /\ \A v \in Workers : \/ intent'[v] = intent[v]
                            \/ intent'[v] = "Failed"
                            \/ v = w /\ jobs[mine[w]].state = "ok"
  BY <1>1 DEF WaitSees, WaitFails
<1>4. TypeOK'
  <2>1. pc' \in [Workers -> Steps]
    BY <1>1, <1>2 DEF Steps
  <2> QED BY <1>2, <1>3, <2>1 DEF IInv, TypeOK, Steps, userVars
<1>5. Holding'
  BY <1>1, <1>2 DEF IInv, Holding, AtJob
<1>6. Real'
  <2>1. mine[w] \in JobIds /\ jobs[mine[w]].by = w
    BY <1>2, ResticAssumption DEF IInv, Holding, AtJob
  <2> QED BY <1>2, <1>3, <2>1 DEF IInv, Real, SuccessIsReal, Workers, userVars
<1>7. JobsAreDeleted'
  BY <1>2 DEF IInv, JobsAreDeleted
<1> QED BY <1>4, <1>5, <1>6, <1>7 DEF IInv

\* Nobody else holds the Job that a worker deletes.
LEMMA DeleteKeeps ==
  ASSUME IInv, NEW w \in Workers, Delete(w)
  PROVE  IInv'
<1> DEFINE j == mine[w]
<1>1. /\ pc[w] = "delete" /\ mine' = [mine EXCEPT ![w] = Nobody]
      /\ AfterJob(w, intent[w])
      /\ UNCHANGED <<phase, userVars, cache, queued, todo, restarts, restored, freed>>
  BY DEF Delete, jobFrame
<1>2. j \in JobIds /\ jobs[j].by = w
  BY <1>1, ResticAssumption DEF IInv, Holding, AtJob
<1>3. /\ pc \in [Workers -> Steps] /\ mine \in [Workers -> JobIds \cup {Nobody}]
      /\ jobs \in [JobIds -> Jobs] /\ intent[w] \in Phases
  BY DEF IInv, TypeOK, Steps, Jobs
<1>4. /\ pc' \in [Workers -> Steps] /\ intent' \in [Workers -> Phases]
      /\ \A v \in Workers : intent'[v] = intent[v]
      /\ \E s \in Steps \ AtJob : pc' = [pc EXCEPT ![w] = s]
  BY <1>1, <1>3, AfterJobMoves
<1>5. /\ jobs' \in [JobIds -> Jobs]
      /\ \A k \in JobIds \ {j} : jobs'[k] = jobs[k]
      /\ \/ jobs'[j] = jobs[j] /\ j \in strays'
         \/ jobs'[j].state \in {"ending", "none"}
      /\ strays \subseteq strays' /\ strays' \subseteq JobIds
  <2>1. NoJob \in Jobs /\ NoJob.state = "none"
    BY DEF NoJob, Jobs, JobStates
  <2>2. /\ [jobs[j] EXCEPT !.state = "ending"] \in Jobs
        /\ [jobs[j] EXCEPT !.state = "ending"].state = "ending"
    BY <1>2, <1>3 DEF Jobs, JobStates
  <2>3. \/ /\ jobs' = [jobs EXCEPT ![j] = IF jobs[j].state = "running"
                            THEN [jobs[j] EXCEPT !.state = "ending"] ELSE NoJob]
           /\ strays' = strays
        \/ jobs' = jobs /\ strays' = strays \cup {j}
    BY DEF Delete
  <2>4. strays \subseteq JobIds
    BY DEF IInv, TypeOK
  <2> HIDE DEF j
  <2> QED BY <1>2, <1>3, <2>1, <2>2, <2>3, <2>4
<1>6. TypeOK'
  <2>1. mine' \in [Workers -> JobIds \cup {Nobody}]
    BY <1>1, <1>3
  <2> QED BY <1>1, <1>4, <1>5, <2>1 DEF IInv, TypeOK, Steps, Jobs, userVars
<1>7. Holding'
  <2>1. \A v \in Workers \ {w} : mine'[v] = mine[v] /\ pc'[v] = pc[v] /\ mine[v] # j
    BY <1>1, <1>2, <1>3, <1>4, ResticAssumption DEF IInv, Holding
  <2>2. mine'[w] = Nobody /\ pc'[w] \notin AtJob
    BY <1>1, <1>3, <1>4
  <2>3. \A v \in Workers : mine[v] # Nobody => mine[v] \in JobIds
    BY <1>3
  <2> HIDE DEF j
  <2> QED BY <1>5, <2>1, <2>2, <2>3 DEF IInv, Holding
<1>8. Real'
  <2>1. \A k \in JobIds : jobs'[k].state = "ok" => jobs'[k] = jobs[k]
    BY <1>5
  <2> QED BY <1>1, <1>4, <2>1 DEF IInv, Real, SuccessIsReal, Workers, userVars
<1>9. JobsAreDeleted'
  <2>1. ASSUME NEW k \in JobIds, jobs'[k].state \in {"created", "running"} \cup Finished
        PROVE  k \in strays' \/ \E v \in Workers : mine'[v] = k
    <3>1. CASE k = j
      BY <1>5, <2>1, <3>1 DEF Finished
    <3>2. CASE k # j
      BY <1>1, <1>3, <1>5, <2>1, <3>2 DEF IInv, JobsAreDeleted
    <3> QED BY <3>1, <3>2
  <2> QED BY <2>1 DEF JobsAreDeleted
<1> QED BY <1>6, <1>7, <1>8, <1>9 DEF IInv

-----------------------------------------------------------------------------
(***************************************************************************)
(* The command, the controller's runtime and the cluster.                  *)
(***************************************************************************)
\* The command says what the phase says.
LEMMA CliKeeps ==
  ASSUME IInv, NEW r \in Restores, CliCreates(r) \/ CliSees(r) \/ CliGivesUp(r)
  PROVE  IInv'
<1> USE DEF cliFrame, ctlVars, histVars
<1>1. /\ cli \in [Restores -> {"off", "polling", "ok", "err"}]
      /\ phase \in [Restores -> Phases] /\ "new" \in Phases
  BY DEF IInv, TypeOK, Phases, Open
<1>2. /\ cli' \in [Restores -> {"off", "polling", "ok", "err"}]
      /\ phase' \in [Restores -> Phases]
      /\ \A q \in Restores : /\ phase'[q] = "Succeeded" => phase[q] = "Succeeded"
                             /\ cli'[q] = "ok" => \/ cli[q] = "ok"
                                                  \/ phase[q] = "Succeeded"
  BY <1>1 DEF CliCreates, CliSees, CliGivesUp
<1>3. UNCHANGED <<target, volume, mounted, jobs, ctlVars, histVars>>
  BY DEF CliCreates, CliSees, CliGivesUp
<1>4. TypeOK'
  BY <1>2, <1>3 DEF IInv, TypeOK
<1>5. Holding' /\ JobsAreDeleted'
  BY <1>3 DEF IInv, Holding, JobsAreDeleted
<1>6. Real'
  BY <1>2, <1>3 DEF IInv, Real, SuccessIsReal
<1> QED BY <1>4, <1>5, <1>6 DEF IInv

\* The watch, and users who remove a restore or scale a workload.
LEMMA RuntimeKeeps ==
  ASSUME IInv,
         \/ \E r \in Restores : Observe(r) \/ Remove(r)
         \/ \E p \in Pvcs : Mount(p) \/ Unmount(p)
  PROVE  IInv'
<1> USE DEF userVars, ctlVars, histVars
<1>1. /\ phase \in [Restores -> Phases] /\ cache \in [Restores -> Phases]
      /\ mounted \in [Pvcs -> BOOLEAN] /\ queued \subseteq Restores
      /\ freed \subseteq Restores /\ "absent" \in Phases
  BY DEF IInv, TypeOK, Phases
<1>2. /\ phase' \in [Restores -> Phases] /\ cache' \in [Restores -> Phases]
      /\ mounted' \in [Pvcs -> BOOLEAN] /\ queued' \subseteq Restores
      /\ freed' \subseteq Restores
      /\ \A q \in Restores : phase'[q] = "Succeeded" => phase[q] = "Succeeded"
      /\ UNCHANGED <<target, volume, cli, jobs, pc, intent, mine, todo, restarts,
                     restored, strays>>
  <2>1. CASE \E r \in Restores : Observe(r) \/ Remove(r)
    BY <1>1, <2>1 DEF Observe, Remove
  <2>2. CASE \E p \in Pvcs : Mount(p) \/ Unmount(p)
    BY <1>1, <2>2 DEF Mount, Unmount, NoteFree
  <2> QED BY <2>1, <2>2
<1>3. TypeOK'
  BY <1>2 DEF IInv, TypeOK
<1>4. Holding' /\ JobsAreDeleted'
  BY <1>2 DEF IInv, Holding, JobsAreDeleted
<1>5. Real'
  BY <1>2 DEF IInv, Real, SuccessIsReal
<1> QED BY <1>3, <1>4, <1>5 DEF IInv

\* The cluster: a Job that is held stays, and one that ends well is on record.
LEMMA JobKeeps ==
  ASSUME IInv, NEW j \in JobIds, JobRuns(j) \/ JobEnds(j) \/ JobGoes(j)
  PROVE  IInv'
<1>1. /\ jobs \in [JobIds -> Jobs] /\ freed \subseteq Restores
      /\ restored \subseteq Restores /\ strays \subseteq JobIds
      /\ mine \in [Workers -> JobIds \cup {Nobody}]
  BY DEF IInv, TypeOK, Jobs
<1>2. UNCHANGED <<phase, userVars, ctlVars>>
  BY DEF JobRuns, JobEnds, JobGoes, podFrame
<1>3. /\ freed' \subseteq Restores /\ restored' \subseteq Restores
      /\ restored \subseteq restored' /\ strays' \subseteq JobIds
      /\ strays \ {j} \subseteq strays'
  BY <1>1 DEF JobRuns, JobEnds, JobGoes, NoteFree, histVars
<1>4. /\ jobs' \in [JobIds -> Jobs]
      /\ \A k \in JobIds \ {j} : jobs'[k] = jobs[k]
      /\ \/ /\ JobGoes(j)
            /\ jobs'[j] = NoJob
         \/ /\ strays' = strays
            /\ jobs[j].state \in {"created", "running"}
            /\ jobs'[j].by = jobs[j].by
            /\ jobs'[j].state \in {"running"} \cup Finished
            /\ jobs'[j].state = "ok" /\ jobs[j].by \in Restores => jobs[j].by \in restored'
  <2>1. CASE JobRuns(j)
    <3>1. jobs' = [jobs EXCEPT ![j].state = "running"] /\ strays' = strays
      BY <2>1 DEF JobRuns, histVars
    <3> QED BY <1>1, <2>1, <3>1 DEF JobRuns, Jobs, JobStates
  <2>2. CASE JobEnds(j)
    <3>1. PICK s \in Finished :
             /\ jobs' = [jobs EXCEPT ![j].state = s]
             /\ s = "ok" => restored' = restored \cup ({jobs[j].by} \cap Restores)
      BY <2>2 DEF JobEnds
    <3>2. jobs[j].state = "running" /\ strays' = strays
      BY <2>2 DEF JobEnds
    <3> QED BY <1>1, <3>1, <3>2 DEF Jobs, JobStates
  <2>3. CASE JobGoes(j)
    <3>1. NoJob \in Jobs
      BY DEF NoJob, Jobs, JobStates
    <3> QED BY <1>1, <2>3, <3>1 DEF JobGoes
  <2> QED BY <2>1, <2>2, <2>3
<1>5. TypeOK'
  BY <1>2, <1>3, <1>4 DEF IInv, TypeOK, Jobs, userVars, ctlVars
<1>6. Holding'
  <2>1. CASE JobGoes(j)
    <3>1. \A w \in Workers : mine[w] # j
      BY <2>1, ResticAssumption DEF JobGoes, IInv, Holding, Finished
    <3> QED BY <1>1, <1>2, <1>4, <3>1 DEF IInv, Holding, ctlVars
  <2>2. CASE ~JobGoes(j)
    BY <1>1, <1>2, <1>4, <2>2 DEF IInv, Holding, ctlVars
  <2> QED BY <2>1, <2>2
<1>7. Real'
  <2>1. \A k \in JobIds : jobs'[k].state = "ok" /\ jobs'[k].by \in Restores
                            => jobs'[k].by \in restored'
    BY <1>3, <1>4 DEF IInv, Real, NoJob
  <2> QED BY <1>2, <1>3, <2>1 DEF IInv, Real, SuccessIsReal, userVars, ctlVars
<1>8. JobsAreDeleted'
  BY <1>2, <1>3, <1>4 DEF IInv, JobsAreDeleted, NoJob, Finished, ctlVars
<1> QED BY <1>5, <1>6, <1>7, <1>8 DEF IInv

\* A crash leaves the Jobs in progress astray.
LEMMA RestartKeeps ==
  ASSUME IInv, Restart
  PROVE  IInv'
<1> USE DEF Restart, userVars
<1>1. TypeOK'
  BY ResticAssumption DEF IInv, TypeOK, Phases
<1>2. Holding'
  BY DEF Holding, AtJob
<1>3. Real'
  BY DEF IInv, Real, SuccessIsReal, Workers
<1>4. JobsAreDeleted'
  <2>1. ASSUME NEW k \in JobIds, jobs[k].state \in {"created", "running"} \cup Finished
        PROVE  k \in strays'
    BY <2>1, ResticAssumption DEF IInv, JobsAreDeleted
  <2> QED BY <2>1 DEF JobsAreDeleted
<1> QED BY <1>1, <1>2, <1>3, <1>4 DEF IInv

-----------------------------------------------------------------------------
\* Nothing is there yet.
LEMMA InitIInv == Init => IInv
<1> SUFFICES ASSUME Init PROVE IInv
  OBVIOUS
<1>1. TypeOK
  BY ResticAssumption DEF Init, TypeOK, NoJob, JobStates, Phases
<1>2. Holding
  BY DEF Init, Holding, AtJob
<1>3. Real
  BY DEF Init, Real, SuccessIsReal, Workers, NoJob
<1>4. JobsAreDeleted
  BY DEF Init, JobsAreDeleted, NoJob, Finished
<1> QED BY <1>1, <1>2, <1>3, <1>4 DEF IInv

\* Every step keeps IInv.
LEMMA StepIInv == IInv /\ [Next]_vars => IInv'
<1> SUFFICES ASSUME IInv, [Next]_vars PROVE IInv'
  OBVIOUS
<1>1. ASSUME NEW w \in Workers, RunJob(w) PROVE IInv'
  BY <1>1, CreateKeeps, WaitKeeps, DeleteKeeps DEF RunJob
<1>2. CASE UNCHANGED vars
  BY <1>2 DEF vars, userVars, ctlVars, histVars, IInv, TypeOK, Holding, Real,
              SuccessIsReal, JobsAreDeleted
<1> QED BY <1>1, <1>2, ReconcileKeeps, SweepKeeps, CliKeeps, RuntimeKeeps, JobKeeps,
           RestartKeeps DEF Next

\* IInv holds throughout.
LEMMA InvariantHolds == Spec => []IInv
BY InitIInv, StepIInv, PTL DEF Spec

\* The variables keep their types.
THEOREM TypeCorrect == Spec => []TypeOK
<1>1. IInv => TypeOK
  BY DEF IInv
<1> QED BY InvariantHolds, <1>1, PTL

\* A restore is reported as succeeded only if a Job of its own ran to a
\* successful end (set_restore_status after run_backup_job, and the polling
\* command).
THEOREM SuccessIsTrue == Spec => []SuccessIsReal
<1>1. IInv => SuccessIsReal
  BY DEF IInv, Real
<1> QED BY InvariantHolds, <1>1, PTL

\* A Job that is there has a worker that is to delete it, or is one that
\* run_backup_job lost by a crash, a lost answer or a failed deletion.
THEOREM NoJobForgotten == Spec => []JobsAreDeleted
<1>1. IInv => JobsAreDeleted
  BY DEF IInv
<1> QED BY InvariantHolds, <1>1, PTL

-----------------------------------------------------------------------------
(***************************************************************************)
(* Who writes: the PVC was free, and a restore has one writer.             *)
(***************************************************************************)

\* A reconcile that has found its PVC free and is on its way to a Job, or has
\* one.
Going(r) == \/ pc[r] \in {"prepare", "create", "wait", "delete"}
            \/ pc[r] = "patch" /\ intent[r] = "Running"

\* freed records what it says, and whoever is going has it on record.
Free ==
    \A r \in Restores :
        /\ pc[r] # "idle" /\ ~InUse(target[r]) => r \in freed
        /\ Going(r) => r \in freed

\* The Jobs of a restore are about its PVC; no pod of a Job that was deleted
\* for it is left when it goes on to another Job, and a Job's outcome never
\* sends it back to the start.
OwnPvc ==
    \A j \in JobIds :
        jobs[j].by \in Restores => jobs[j].pvc = target[jobs[j].by]
Alone ==
    \A j \in JobIds :
        jobs[j].by \in Restores /\ jobs[j].state = "ending" /\ Going(jobs[j].by)
            => j \in strays
Decided == \A r \in Restores : pc[r] = "delete" => intent[r] # "Running"

Writing == Free /\ OwnPvc /\ Alone /\ Decided /\ OneWriterEach

\* What a Job that may yet write tells about its restore.
LEMMA WriterIsHeld ==
  ASSUME IInv, NEW j \in JobIds, j \notin strays, jobs[j].by \in Restores,
         jobs[j].state \in {"created", "running"}
  PROVE  mine[jobs[j].by] = j /\ pc[jobs[j].by] \in AtJob
<1>1. PICK w \in Workers : mine[w] = j
  BY DEF IInv, JobsAreDeleted
<1> QED BY <1>1, ResticAssumption DEF IInv, Holding

\* A step of a reconcile concerns its restore only, and it goes on only if
\* nothing uses the PVC.
LEMMA ReconcileGoes ==
  ASSUME IInv, Free, NEW r \in Restores, Reconcile(r)
  PROVE  /\ UNCHANGED <<target, mounted, jobs, mine, strays>>
         /\ \A q \in Restores \ {r} : /\ pc'[q] = pc[q] /\ intent'[q] = intent[q]
                                      /\ q \in freed => q \in freed'
         /\ pc'[r] \notin AtJob
         /\ \/ pc'[r] = "idle"
            \/ /\ ~InUse(target[r]) => r \in freed'
               /\ Going(r)' => r \in freed' /\ (Going(r) \/ ~InUse(target[r]))
<1> USE DEF reqVars, userVars, Goto, AtJob
<1>1. /\ pc \in [Workers -> Steps] /\ intent \in [Workers -> Phases] /\ r \in Workers
      /\ Restores \subseteq Workers
  BY DEF IInv, TypeOK, Steps, Workers
<1>2. CASE Start(r)
  BY <1>1, <1>2 DEF Start, Going
<1>3. CASE LookUp(r) \/ CheckPods(r) \/ Prepare(r)
  BY <1>1, <1>3 DEF LookUp, CheckPods, Prepare, WillPatch, Going, Free
<1>4. CASE RequestFails(r) \/ PatchFails(r)
  BY <1>1, <1>4 DEF RequestFails, PatchFails, Requeue, Returns
<1>5. CASE PatchOk(r)
  BY <1>1, <1>5 DEF PatchOk, Requeue, AwaitChange, Returns, Going, Free
<1> QED BY <1>2, <1>3, <1>4, <1>5 DEF Reconcile

\* A pod of a deleted Job is found in the PVC, so its restore does not go on.
LEMMA ReconcileWrites ==
  ASSUME IInv, Writing, NEW r \in Restores, Reconcile(r)
  PROVE  Writing'
<1>1. Free
  BY DEF Writing
<1>2. \A p : InUse(p)' <=> InUse(p)
  BY <1>1, ReconcileGoes DEF InUse, HasPod
<1>3. \A q \in Restores \ {r} : Going(q)' <=> Going(q)
  BY <1>1, ReconcileGoes DEF Going
<1>4. Free'
  <2>1. ASSUME NEW q \in Restores, q # r
        PROVE  /\ pc'[q] # "idle" /\ ~InUse(target[q])' => q \in freed'
               /\ Going(q)' => q \in freed'
    BY <1>1, <1>2, <1>3, <2>1, ReconcileGoes DEF Free
  <2>2. /\ pc'[r] # "idle" /\ ~InUse(target[r])' => r \in freed'
        /\ Going(r)' => r \in freed'
    BY <1>1, <1>2, ReconcileGoes DEF Free, Going
  <2> QED BY <2>1, <2>2 DEF Free
<1>5. OwnPvc' /\ OneWriterEach'
  BY <1>1, ReconcileGoes DEF Writing, OwnPvc, OneWriterEach, HasPod
<1>6. Alone'
  <2>1. ASSUME NEW j \in JobIds, NEW q \in Restores, jobs[j].by = q,
               jobs[j].state = "ending", Going(q)'
        PROVE  j \in strays
    <3>1. CASE q # r
      BY <1>3, <2>1, <3>1 DEF Writing, Alone
    <3>2. CASE q = r
      <4>1. InUse(target[r])
        BY <2>1, <3>2 DEF Writing, OwnPvc, InUse, HasPod
      <4>2. Going(r)
        BY <1>1, <2>1, <3>2, <4>1, ReconcileGoes DEF Going
      <4> QED BY <2>1, <3>2, <4>2 DEF Writing, Alone
    <3> QED BY <3>1, <3>2
  <2> QED BY <1>1, <2>1, ReconcileGoes DEF Alone
<1>7. Decided'
  BY <1>1, ReconcileGoes DEF Writing, Decided, AtJob
<1> QED BY <1>4, <1>5, <1>6, <1>7 DEF Writing

\* Steps of a sweep, of the command, of the watch and of the users who remove
\* a restore: nothing of this is theirs.
LEMMA OthersWrite ==
  ASSUME IInv, Writing,
         \/ \E s \in Sweeps : Sweep(s)
         \/ \E r \in Restores : \/ Observe(r) \/ Remove(r)
                                \/ CliCreates(r) \/ CliSees(r) \/ CliGivesUp(r)
  PROVE  Writing'
<1> USE DEF userVars, ctlVars, histVars
<1>1. /\ UNCHANGED <<mounted, jobs, mine, freed, strays>>
      /\ \A r \in Restores : /\ pc'[r] = pc[r] /\ intent'[r] = intent[r]
                             /\ target'[r] = target[r]
  <2>1. /\ pc \in [Workers -> Steps] /\ target \in [Workers -> Pvcs]
        /\ Restores \subseteq Workers /\ \A s \in Sweeps : s \notin Restores
    BY ResticAssumption DEF IInv, TypeOK, Steps, Workers
  <2>2. ASSUME NEW s \in Sweeps, Sweep(s)
        PROVE  <1>1
    BY <2>1, <2>2 DEF Sweep, Tick, List, NextPvc, sweepVars, Goto
  <2>3. CASE \E r \in Restores : \/ Observe(r) \/ Remove(r)
                                 \/ CliCreates(r) \/ CliSees(r) \/ CliGivesUp(r)
    BY <2>3 DEF Observe, Remove, CliCreates, CliSees, CliGivesUp, cliFrame
  <2> QED BY <2>2, <2>3
<1>2. \A p : InUse(p)' <=> InUse(p)
  BY <1>1 DEF InUse, HasPod
<1>3. \A r \in Restores : Going(r)' <=> Going(r)
  BY <1>1 DEF Going
<1>4. Free'
  BY <1>1, <1>2, <1>3 DEF Writing, Free
<1>5. OwnPvc' /\ OneWriterEach' /\ Decided' /\ Alone'
  BY <1>1, <1>3 DEF Writing, OwnPvc, OneWriterEach, Decided, Alone, HasPod
<1> QED BY <1>4, <1>5 DEF Writing

\* A Job has no pod yet when it is made.
LEMMA CreateWrites ==
  ASSUME IInv, Writing, NEW w \in Workers, CreateOk(w) \/ CreateFails(w)
  PROVE  Writing'
<1> USE DEF jobFrame, userVars, Goto
<1>1. /\ UNCHANGED <<target, mounted, freed>> /\ strays \subseteq strays'
      /\ pc[w] = "create"
  BY DEF CreateOk, CreateFails
<1>2. /\ pc \in [Workers -> Steps] /\ intent \in [Workers -> Phases]
      /\ Restores \subseteq Workers /\ "Failed" \in Phases
  BY DEF IInv, TypeOK, Steps, Workers, Phases, TerminalPhases
<1>3. \A j \in JobIds : \/ jobs'[j] = jobs[j]
                        \/ /\ jobs[j].state = "none" /\ jobs'[j].state = "created"
                           /\ jobs'[j].by = w /\ jobs'[j].pvc = target[w]
  <2>1. jobs \in [JobIds -> Jobs]
    BY DEF IInv, TypeOK, Jobs
  <2> QED BY <2>1 DEF CreateOk, CreateFails, Made, NoJob
<1>4. \A q \in Restores : \/ pc'[q] = pc[q] /\ intent'[q] = intent[q]
                          \/ q = w /\ pc'[q] = "wait"
                          \/ q = w /\ pc'[q] = "patch" /\ intent'[q] = "Failed"
  BY <1>2 DEF CreateOk, CreateFails, AfterJob, WillPatch
<1>5. \A j \in JobIds : /\ HasPod(j)' <=> HasPod(j)
                        /\ HasPod(j) => jobs'[j] = jobs[j]
  BY <1>3 DEF HasPod
<1>6. \A p : InUse(p)' <=> InUse(p)
  BY <1>1, <1>5 DEF InUse
<1>7. \A q \in Restores : Going(q)' => Going(q)
  BY <1>1, <1>4 DEF Going
<1>8. Free'
  BY <1>1, <1>4, <1>6, <1>7 DEF Writing, Free
<1>9. OwnPvc'
  BY <1>1, <1>3 DEF Writing, OwnPvc
<1>10. Alone'
  BY <1>1, <1>3, <1>7 DEF Writing, Alone
<1>11. Decided'
  BY <1>4 DEF Writing, Decided
<1>12. OneWriterEach'
  BY <1>1, <1>5 DEF Writing, OneWriterEach
<1> QED BY <1>8, <1>9, <1>10, <1>11, <1>12 DEF Writing

\* Waiting changes no pod.
LEMMA WaitWrites ==
  ASSUME IInv, Writing, NEW w \in Workers, WaitSees(w) \/ WaitFails(w)
  PROVE  Writing'
<1> USE DEF jobFrame, userVars, Goto
<1>1. /\ UNCHANGED <<target, mounted, freed, jobs, strays>>
      /\ \A q \in Restores : \/ pc'[q] = pc[q] /\ intent'[q] = intent[q]
                             \/ /\ pc[q] = "wait" /\ pc'[q] = "delete"
                                /\ intent'[q] # "Running"
  <2>1. /\ pc \in [Workers -> Steps] /\ intent \in [Workers -> Phases]
        /\ Restores \subseteq Workers
    BY DEF IInv, TypeOK, Steps, Workers
  <2> QED BY <2>1 DEF WaitSees, WaitFails
<1>2. \A p : InUse(p)' <=> InUse(p)
  BY <1>1 DEF InUse, HasPod
<1>3. \A q \in Restores : Going(q)' => Going(q)
  BY <1>1 DEF Going
<1>4. Free'
  BY <1>1, <1>2, <1>3 DEF Writing, Free
<1>5. OwnPvc' /\ OneWriterEach' /\ Decided' /\ Alone'
  BY <1>1, <1>3 DEF Writing, OwnPvc, OneWriterEach, Decided, Alone, HasPod
<1> QED BY <1>4, <1>5 DEF Writing

\* A deletion in the background takes no pod away.
LEMMA DeleteWrites ==
  ASSUME IInv, Writing, NEW w \in Workers, Delete(w)
  PROVE  Writing'
<1> USE DEF jobFrame, userVars, Goto
<1> DEFINE j == mine[w]
<1>1. /\ pc[w] = "delete" /\ AfterJob(w, intent[w])
      /\ UNCHANGED <<target, mounted, freed>> /\ strays \subseteq strays'
  BY DEF Delete
<1>2. j \in JobIds /\ jobs[j].by = w
  BY <1>1, ResticAssumption DEF IInv, Holding, AtJob
<1>3. \A k \in JobIds : \/ jobs'[k] = jobs[k] /\ (k = j => k \in strays')
                        \/ k = j /\ jobs'[k] = NoJob /\ jobs[k].state # "running"
                        \/ /\ k = j /\ jobs[k].state = "running" /\ jobs'[k].state = "ending"
                           /\ jobs'[k].by = jobs[k].by /\ jobs'[k].pvc = jobs[k].pvc
  <2>1. jobs \in [JobIds -> Jobs]
    BY DEF IInv, TypeOK, Jobs
  <2>2. /\ [jobs[j] EXCEPT !.state = "ending"].state = "ending"
        /\ [jobs[j] EXCEPT !.state = "ending"].by = jobs[j].by
        /\ [jobs[j] EXCEPT !.state = "ending"].pvc = jobs[j].pvc
    BY <1>2, <2>1 DEF Jobs
  <2>3. \/ jobs' = [jobs EXCEPT ![j] = IF jobs[j].state = "running"
                       THEN [jobs[j] EXCEPT !.state = "ending"] ELSE NoJob]
        \/ jobs' = jobs /\ strays' = strays \cup {j}
    BY DEF Delete
  <2> HIDE DEF j
  <2> QED BY <1>2, <2>1, <2>2, <2>3
<1>4. jobs[j].state # "ending"
  BY <1>1, <1>2, ResticAssumption DEF IInv, Holding, Finished
<1>5. \A q \in Restores : /\ intent'[q] = intent[q]
                          /\ pc'[q] = IF q = w THEN "patch" ELSE pc[q]
  <2>1. /\ pc \in [Workers -> Steps] /\ intent \in [Workers -> Phases]
        /\ Restores \subseteq Workers
    BY DEF IInv, TypeOK, Steps, Workers
  <2> QED BY <1>1, <2>1 DEF AfterJob, WillPatch
<1>6. /\ \A q \in Restores : Going(q)' => Going(q) /\ q # w
      /\ w \in Restores => Going(w)
  BY <1>1, <1>5 DEF Going, Writing, Decided
<1> HIDE DEF j
<1>7. \A k \in JobIds : /\ HasPod(k)' <=> HasPod(k)
                        /\ HasPod(k) => /\ jobs'[k].by = jobs[k].by
                                        /\ jobs'[k].pvc = jobs[k].pvc
  BY <1>3, <1>4 DEF HasPod, NoJob
<1>8. \A p : InUse(p)' <=> InUse(p)
  BY <1>1, <1>7 DEF InUse
<1>9. Free'
  BY <1>1, <1>5, <1>6, <1>8 DEF Writing, Free
<1>10. OwnPvc'
  BY <1>1, <1>3, ResticAssumption DEF Writing, OwnPvc, NoJob, Workers
<1>11. Alone'
  BY <1>1, <1>2, <1>3, <1>6 DEF Writing, Alone, NoJob
<1>12. Decided'
  BY <1>5 DEF Writing, Decided
<1>13. OneWriterEach'
  BY <1>1, <1>7 DEF Writing, OneWriterEach
<1> QED BY <1>9, <1>10, <1>11, <1>12, <1>13 DEF Writing

\* Pods of the workload.
LEMMA MountWrites ==
  ASSUME IInv, Writing, NEW p \in Pvcs, Mount(p) \/ Unmount(p)
  PROVE  Writing'
<1> USE DEF ctlVars, histVars
<1>1. UNCHANGED <<target, jobs, pc, intent, mine, strays>>
  BY DEF Mount, Unmount
<1>2. \A r : Going(r)' <=> Going(r)
  BY <1>1 DEF Going
<1>3. Free'
  <2>1. CASE Mount(p)
    <3>1. /\ UNCHANGED freed
          /\ \A q : mounted[q] => mounted'[q]
      <4>1. mounted \in [Pvcs -> BOOLEAN]
        BY DEF IInv, TypeOK
      <4>2. UNCHANGED freed /\ mounted' = [mounted EXCEPT ![p] = TRUE]
        BY <2>1 DEF Mount
      <4> QED BY <4>1, <4>2
    <3>2. \A q : InUse(q) => InUse(q)'
      BY <1>1, <3>1 DEF InUse, HasPod
    <3> QED BY <1>1, <1>2, <3>1, <3>2 DEF Writing, Free
  <2>2. CASE Unmount(p)
    BY <1>1, <1>2, <2>2 DEF Unmount, NoteFree, Writing, Free
  <2> QED BY <2>1, <2>2
<1>4. OwnPvc' /\ OneWriterEach' /\ Decided' /\ Alone'
  BY <1>1, <1>2 DEF Writing, OwnPvc, OneWriterEach, Decided, Alone, HasPod
<1> QED BY <1>3, <1>4 DEF Writing

\* The pod that starts is the only one of its restore, or one is astray.
LEMMA JobWrites ==
  ASSUME IInv, Writing, NEW j \in JobIds, JobRuns(j) \/ JobEnds(j) \/ JobGoes(j)
  PROVE  Writing'
<1> USE DEF podFrame, userVars, ctlVars, histVars
<1>1. UNCHANGED <<target, mounted, pc, intent, mine>>
  BY DEF JobRuns, JobEnds, JobGoes
<1>2. \A r : Going(r)' <=> Going(r)
  BY <1>1 DEF Going
<1>3. /\ \A k \in JobIds \ {j} : jobs'[k] = jobs[k]
      /\ \/ jobs'[j] = NoJob
         \/ /\ jobs'[j].by = jobs[j].by /\ jobs'[j].pvc = jobs[j].pvc
            /\ jobs'[j].state \in {"running"} \cup Finished
      /\ strays \ {j} \subseteq strays'
      /\ HasPod(j)' => /\ jobs[j].state = "created" /\ jobs'[j].state = "running"
                       /\ strays' = strays
  <2>1. jobs \in [JobIds -> Jobs]
    BY DEF IInv, TypeOK, Jobs
  <2>2. CASE JobRuns(j)
    <3>1. jobs' = [jobs EXCEPT ![j].state = "running"] /\ strays' = strays
      BY <2>2 DEF JobRuns
    <3> QED BY <2>1, <2>2, <3>1 DEF JobRuns, Jobs
  <2>3. CASE JobEnds(j)
    <3>1. PICK s \in Finished : jobs' = [jobs EXCEPT ![j].state = s]
      BY <2>3 DEF JobEnds
    <3>2. strays' = strays
      BY <2>3 DEF JobEnds
    <3> QED BY <2>1, <3>1, <3>2 DEF Jobs, HasPod, Finished
  <2>4. CASE JobGoes(j)
    BY <2>1, <2>4 DEF JobGoes, HasPod, NoJob
  <2> QED BY <2>2, <2>3, <2>4
<1>4. Free'
  <2>1. CASE JobRuns(j)
    <3>1. \A p : InUse(p) => InUse(p)'
      <4>1. ~HasPod(j)
        BY <2>1 DEF JobRuns, HasPod
      <4>2. \A k \in JobIds : HasPod(k) => HasPod(k)' /\ jobs'[k] = jobs[k]
        BY <1>3, <4>1 DEF HasPod
      <4> QED BY <1>1, <4>2 DEF InUse
    <3> QED BY <1>1, <1>2, <2>1, <3>1 DEF JobRuns, Writing, Free
  <2>2. CASE JobEnds(j) \/ JobGoes(j)
    <3>1. NoteFree
      BY <2>2 DEF JobEnds, JobGoes
    <3> QED BY <1>1, <1>2, <3>1 DEF NoteFree, Writing, Free
  <2> QED BY <2>1, <2>2
<1>5. OwnPvc'
  BY <1>1, <1>3, ResticAssumption DEF Writing, OwnPvc, NoJob, Workers
<1>6. Decided'
  BY <1>1 DEF Writing, Decided
<1>7. Alone'
  BY <1>1, <1>2, <1>3 DEF Writing, Alone, NoJob, Finished
<1>8. OneWriterEach'
  <2>1. \A k \in JobIds : HasPod(k)' => jobs'[k].by = jobs[k].by
    BY <1>3 DEF HasPod, NoJob
  <2>2. ASSUME NEW k \in JobIds, k # j, HasPod(j)', HasPod(k)',
               jobs[j].by = jobs[k].by, jobs[j].by \in Restores, j \notin strays
        PROVE  k \in strays
    <3>1. mine[jobs[j].by] = j /\ pc[jobs[j].by] \in AtJob
      BY <1>3, <2>2, WriterIsHeld
    <3>2. jobs[k].state \in {"running", "ending"}
      BY <1>3, <2>2 DEF HasPod
    <3>3. CASE jobs[k].state = "running"
      BY <2>2, <3>1, <3>3, WriterIsHeld
    <3>4. CASE jobs[k].state = "ending"
      BY <2>2, <3>1, <3>4 DEF Writing, Alone, Going, AtJob
    <3> QED BY <3>2, <3>3, <3>4
  <2>3. \A k \in JobIds : k # j /\ HasPod(k)' => HasPod(k)
    BY <1>3 DEF HasPod
  <2> QED BY <1>3, <2>1, <2>2, <2>3 DEF Writing, OneWriterEach
<1> QED BY <1>4, <1>5, <1>6, <1>7, <1>8 DEF Writing

\* After a crash nobody goes on.
LEMMA RestartWrites ==
  ASSUME IInv, Writing, Restart
  PROVE  Writing'
<1>1. /\ UNCHANGED <<target, jobs>> /\ strays \subseteq strays'
      /\ \A r \in Restores : pc'[r] = "idle"
  BY DEF Restart, userVars, Workers
<1>2. Free' /\ Decided' /\ Alone'
  BY <1>1 DEF Free, Decided, Alone, Going
<1>3. OwnPvc' /\ OneWriterEach'
  BY <1>1 DEF Writing, OwnPvc, OneWriterEach, HasPod
<1> QED BY <1>2, <1>3 DEF Writing

\* Nobody goes on at first.
LEMMA InitWriting == Init => Writing
<1> SUFFICES ASSUME Init PROVE Writing
  OBVIOUS
<1>1. \A r \in Restores : pc[r] = "idle"
  BY DEF Init, Workers
<1>2. \A j \in JobIds : jobs[j].by \notin Restores
  BY ResticAssumption DEF Init, NoJob, Workers
<1> QED BY <1>1, <1>2 DEF Writing, Free, OwnPvc, Alone, Decided, OneWriterEach, Going

\* Every step keeps Writing.
LEMMA StepWriting == IInv /\ Writing /\ [Next]_vars => Writing'
<1> SUFFICES ASSUME IInv, Writing, [Next]_vars PROVE Writing'
  OBVIOUS
<1>1. ASSUME NEW w \in Workers, RunJob(w) PROVE Writing'
  BY <1>1, CreateWrites, WaitWrites, DeleteWrites DEF RunJob
<1>2. CASE UNCHANGED vars
  BY <1>2 DEF vars, userVars, ctlVars, histVars, Writing, Free, OwnPvc, Alone, Decided,
              OneWriterEach, Going, InUse, HasPod
<1> QED BY <1>1, <1>2, ReconcileWrites, OthersWrite, MountWrites, JobWrites,
           RestartWrites DEF Next

\* So does Writing.
LEMMA WritingHolds == Spec => []Writing
BY InitWriting, StepWriting, InvariantHolds, PTL DEF Spec

\* The reconcile goes on to its Job only if no pod used the PVC at some moment
\* since it began (pod_attached_to_pvc before run_backup_job).
THEOREM NotWrittenOver == Spec => []FreeBeforeRestore
<1>1. Writing => FreeBeforeRestore
  BY DEF Writing, Free, FreeBeforeRestore, Going
<1> QED BY WritingHolds, <1>1, PTL

\* Two pods that write for one restore at once: then one of them belongs to a
\* Job that the process lost track of (run_backup_job and the deletion in the
\* background).
THEOREM OneWriter == Spec => []OneWriterEach
<1>1. Writing => OneWriterEach
  BY DEF Writing
<1> QED BY WritingHolds, <1>1, PTL

=============================================================================
