------------------------------ MODULE JobProofs ------------------------------
(***************************************************************************)
(* Proofs about JobExecution, for every number of jobs, job ids, streams   *)
(* and lines, and every channel capacity.                                  *)
(***************************************************************************)
EXTENDS JobExecution, TLAPS

\* The events of different jobs differ, and no job is an event.
LEMMA EventsDiffer ==
    ASSUME NEW j \in Jobs, NEW k \in Jobs
    PROVE  /\ End(j) = End(k) => j = k
           /\ End(j) \notin Logs(k)
           /\ \A l \in Logs(j) : l \in Logs(k) => j = k
           /\ End(j) # k
           /\ k \notin Logs(j)
<1>1. /\ Logs(j) \subseteq JobEvents /\ End(j) \in JobEvents
  BY DEF JobEvents
<1>2. ASSUME NEW l \in Logs(k)
      PROVE  End(j) # l
  <2>1. PICK s \in Streams, n \in 1..Lines : l = <<k, s, n>>
    BY <1>2 DEF Logs, Log
  <2>2. Len(l) = 3 /\ Len(End(j)) = 2
    BY <2>1 DEF End
  <2> QED
    BY <2>2
<1>3. ASSUME NEW l \in Logs(j), l \in Logs(k)
      PROVE  j = k
  BY <1>3 DEF Logs, Log
<1> QED
  BY <1>1, <1>2, <1>3, JobAssumption DEF End

LEMMA EventsAreTasks ==
    ASSUME NEW j \in Jobs
    PROVE  j \in Tasks /\ End(j) \in Tasks /\ Logs(j) \subseteq Tasks
BY DEF Tasks, JobEvents

LEMMA LogsAre ==
    ASSUME NEW j \in Jobs, NEW s \in Streams, NEW n \in 1..Lines
    PROVE  Log(j, s, n) \in Logs(j) /\ Log(j, s, n) \in JobEvents
BY DEF Logs, JobEvents

-----------------------------------------------------------------------------
(***************************************************************************)
(* Types.                                                                  *)
(***************************************************************************)
LEMMA QueueTypes ==
    ASSUME TypeOK, NEW t \in Tasks, Enqueue(t)
    PROVE  /\ lockQ' \in Seq(Tasks)
           /\ outq' \in Seq(Tasks)
           /\ Len(outq') <= ChannelCapacity
BY JobAssumption DEF TypeOK, Enqueue, Holds

\* Every step of the shared client that a job takes or meets.
LEMMA ClientTypes ==
    ASSUME TypeOK,
           \/ \E j \in Jobs : InboundRpc(j) \/ HandlerReplies(j) \/ ReplySend(j)
           \/ \E e \in JobEvents : PublishStart(e) \/ PublishSend(e)
           \/ ListenLoop
           \/ LinkDies
           \/ UNCHANGED clientVars
    PROVE  TypeOK'
<1> USE DEF listenVars, callVars, taskVars
<1>1. ASSUME NEW j \in Jobs, InboundRpc(j)
      PROVE  TypeOK'
  BY <1>1 DEF InboundRpc, TypeOK
<1>2. ASSUME NEW j \in Jobs, HandlerReplies(j)
      PROVE  TypeOK'
  <2>1. <<j>> \in Seq(Tasks)
    BY EventsAreTasks
  <2> QED
    BY <1>2, <2>1 DEF HandlerReplies, Finish, Results, TypeOK
<1>3. ASSUME NEW j \in Jobs, ReplySend(j)
      PROVE  TypeOK'
  <2>1. /\ lockQ' \in Seq(Tasks) /\ outq' \in Seq(Tasks)
        /\ Len(outq') <= ChannelCapacity
    BY <1>3, QueueTypes, EventsAreTasks DEF ReplySend
  <2> QED
    BY <1>3, <2>1 DEF ReplySend, Finish, Results, TypeOK
<1>4. ASSUME NEW e \in JobEvents, PublishStart(e)
      PROVE  TypeOK'
  <2>1. lockQ' \in Seq(Tasks)
    BY <1>4 DEF PublishStart, TypeOK, Tasks
  <2> QED
    BY <1>4, <2>1 DEF PublishStart, TypeOK
<1>5. ASSUME NEW e \in JobEvents, PublishSend(e)
      PROVE  TypeOK'
  <2>1. /\ lockQ' \in Seq(Tasks) /\ outq' \in Seq(Tasks)
        /\ Len(outq') <= ChannelCapacity
    BY <1>5, QueueTypes DEF PublishSend, Tasks
  <2> QED
    BY <1>5, <2>1 DEF PublishSend, Finish, Results, TypeOK
<1>6. CASE ListenLoop
  <2> USE DEF Serving, Receiving, Reconnect, Phases, TypeOK
  <2>0. OneMoreAttempt \in 0..BackoffCap /\ 0 \in 0..BackoffCap
    BY JobAssumption DEF OneMoreAttempt
  <2>1. CASE ListenStart \/ Signal \/ LoopTop \/ BackoffEnds
    BY <2>1 DEF ListenStart, Signal, LoopTop, BackoffEnds
  <2>2. CASE ConnectOk \/ ConnectFails \/ ShutdownSeen \/ CloseDone
    BY <2>0, <2>2 DEF ConnectOk, ConnectFails, ShutdownSeen, CloseDone
  <2>3. CASE PingTick \/ PongTimeout \/ Pong \/ StreamEnds
    BY <2>0, <2>3 DEF PingTick, PongTimeout, Pong, StreamEnds
  <2>4. CASE OutboundTake
    <3>1. /\ outq' \in Seq(Tasks) /\ Len(outq') <= ChannelCapacity
          /\ Head(outq) \in Tasks
      BY <2>4, JobAssumption DEF OutboundTake
    <3> QED
      BY <2>0, <2>4, <3>1 DEF OutboundTake
  <2>5. CASE WriteEnds
    BY <2>0, <2>5 DEF WriteEnds, PingWritten, OutboundWritten, RefusalWritten
  <2> QED
    BY <1>6, <2>1, <2>2, <2>3, <2>4, <2>5 DEF ListenLoop
<1>7. CASE LinkDies
  BY <1>7 DEF LinkDies, TypeOK
<1>8. CASE UNCHANGED clientVars
  BY <1>8 DEF clientVars, TypeOK
<1> QED
  BY <1>1, <1>2, <1>3, <1>4, <1>5, <1>6, <1>7, <1>8

\* What a directory of /tmp holds, and what a job executed.
Dirs == [exists : BOOLEAN, run : Owners, cleanup : Owners]
Runs == [run : Owners, cleanup : Owners]

\* A handler past the parsing of its request has a job_id; one without left
\* no trace.
HasId(j) ==
    jobId[j] = NoId =>
        /\ stage[j] \in {"none", "failed", "returned"}
        /\ ran[j].cleanup = NoJob

JobTypeInv == JobTypeOK /\ \A j \in Jobs : HasId(j)

LEMMA OneDir ==
    ASSUME files \in [JobIds -> Dirs], NEW id \in JobIds, NEW v \in Dirs
    PROVE  [files EXCEPT ![id] = v] \in [JobIds -> Dirs]
OBVIOUS

LEMMA DirFields ==
    ASSUME NEW d \in Dirs, NEW j \in Jobs
    PROVE  /\ [d EXCEPT !.exists = TRUE] \in Dirs
           /\ [d EXCEPT !.run = j] \in Dirs
           /\ [d EXCEPT !.cleanup = j] \in Dirs
           /\ NoDir \in Dirs
           /\ d.run \in Owners /\ d.cleanup \in Owners
BY DEF Dirs, Owners, NoDir

LEMMA RunFields ==
    ASSUME NEW r \in Runs, NEW o \in Owners
    PROVE  /\ [r EXCEPT !.run = o] \in Runs
           /\ [r EXCEPT !.cleanup = o] \in Runs
BY DEF Runs

\* The steps of a handler on the filesystem touch its own directory only.
LEMMA FileTypes ==
    ASSUME JobTypeInv, NEW j \in Jobs,
           MakeDir(j) \/ WriteRun(j) \/ WriteCleanup(j) \/ Sweep(j)
    PROVE  /\ jobId[j] \in JobIds
           /\ files' \in [JobIds -> Dirs]
<1>1. jobId[j] \in JobIds
  BY DEF MakeDir, WriteRun, WriteCleanup, Sweep, At, JobTypeInv, JobTypeOK,
         HasId
<1>2. files \in [JobIds -> Dirs]
  BY DEF JobTypeInv, JobTypeOK, Dirs
<1>3. Dir(j) \in Dirs
  BY <1>1, <1>2 DEF Dir
<1>4. PICK v \in Dirs : files' = [files EXCEPT ![jobId[j]] = v]
  <2>1. CASE MakeDir(j)
    BY <1>3, <2>1, DirFields DEF MakeDir, Dir
  <2>2. CASE WriteRun(j)
    BY <1>3, <2>2, DirFields DEF WriteRun, Dir
  <2>3. CASE WriteCleanup(j)
    BY <1>3, <2>3, DirFields DEF WriteCleanup, Dir
  <2>4. CASE Sweep(j)
    <3>1. CASE files' = files
      <4>1. files' = [files EXCEPT ![jobId[j]] = Dir(j)]
        BY <1>1, <1>2, <3>1 DEF Dir
      <4> QED
        BY <1>3, <4>1
    <3>2. CASE files' = [files EXCEPT ![jobId[j]] = NoDir]
      BY <1>3, <3>2, DirFields
    <3> QED
      BY <2>4, <3>1, <3>2 DEF Sweep
  <2> QED
    BY <2>1, <2>2, <2>3, <2>4
<1> QED
  BY <1>1, <1>2, <1>4, OneDir

LEMMA JobStepTypes ==
    ASSUME JobTypeInv, NEW j \in Jobs, JobStep(j)
    PROVE  JobTypeInv'
<1> USE DEF Goto, At
<1>0. /\ TypeOK /\ stage \in [Jobs -> Stages]
      /\ jobId \in [Jobs -> JobIds \cup {NoId}]
      /\ cleanup \in [Jobs -> {"none", "given", "attempted"}]
      /\ files \in [JobIds -> Dirs] /\ ran \in [Jobs -> Runs]
      /\ streaming \subseteq Jobs /\ held \subseteq Jobs
      /\ \A k \in Jobs : HasId(k)
  BY DEF JobTypeInv, JobTypeOK, Dirs, Runs
<1>a. SUFFICES /\ TypeOK' /\ stage' \in [Jobs -> Stages]
               /\ jobId' \in [Jobs -> JobIds \cup {NoId}]
               /\ cleanup' \in [Jobs -> {"none", "given", "attempted"}]
               /\ files' \in [JobIds -> Dirs] /\ ran' \in [Jobs -> Runs]
               /\ streaming' \subseteq Jobs /\ held' \subseteq Jobs
               /\ \A k \in Jobs : HasId(k)'
  BY DEF JobTypeInv, JobTypeOK, Dirs, Runs
<1>1. CASE Receive(j)
  <2>1. TypeOK'
    BY <1>0, <1>1, ClientTypes DEF Receive
  <2>2. jobId'[j] # NoId /\ \A k \in Jobs : k # j => jobId'[k] = jobId[k]
    BY <1>0, <1>1, JobAssumption DEF Receive
  <2>3. \A k \in Jobs : HasId(k)'
    BY <1>0, <1>1, <2>2 DEF Receive, HasId
  <2> QED
    BY <1>0, <1>1, <2>1, <2>3 DEF Receive, Stages
<1>2. CASE ReceiveInvalid(j) \/ PrepareFails(j) \/ WaitFails(j)
           \/ StreamsEnd(j) \/ ScriptExits(j) \/ StreamsJoined(j) \/ BackgroundEnds(j)
  <2> USE DEF ReceiveInvalid, PrepareFails, WaitFails, StreamsEnd, ScriptExits, StreamsJoined,
         BackgroundEnds, AfterScript
  <2>1. TypeOK'
    BY <1>0, <1>2, ClientTypes
  <2>2. \A k \in Jobs : HasId(k)'
    BY <1>0, <1>2 DEF HasId
  <2>3. stage' \in [Jobs -> Stages] /\ streaming' \subseteq Jobs
        /\ held' \subseteq Jobs
    BY <1>0, <1>2 DEF Stages
  <2> QED
    BY <1>0, <1>2, <2>1, <2>2, <2>3
<1>3. CASE MakeDir(j) \/ WriteRun(j) \/ WriteCleanup(j) \/ Sweep(j)
  <2>1. jobId[j] \in JobIds /\ files' \in [JobIds -> Dirs]
    BY <1>3, FileTypes
  <2> USE DEF MakeDir, WriteRun, WriteCleanup, Sweep
  <2>2. TypeOK'
    BY <1>0, <1>3, ClientTypes
  <2>3. \A k \in Jobs : HasId(k)'
    BY <1>0, <1>3, <2>1, JobAssumption DEF HasId
  <2>4. stage' \in [Jobs -> Stages]
    BY <1>0, <1>3 DEF Stages
  <2> QED
    BY <1>0, <1>3, <2>1, <2>2, <2>3, <2>4
<1>4. CASE Spawn(j) \/ RunCleanup(j)
  <2> USE DEF Spawn, RunCleanup
  <2>1. jobId[j] \in JobIds
    BY <1>0, <1>4 DEF HasId
  <2>2. Dir(j).run \in Owners /\ Dir(j).cleanup \in Owners
    BY <1>0, <2>1, DirFields DEF Dir
  <2>3. PICK r \in Runs : ran' = [ran EXCEPT ![j] = r]
    <3>1. ran[j] \in Runs
      BY <1>0
    <3>2. CASE ran' = ran
      <4>1. ran' = [ran EXCEPT ![j] = ran[j]]
        BY <1>0, <3>2
      <4> QED
        BY <3>1, <4>1
    <3>3. CASE ran' # ran
      BY <1>4, <2>2, <3>1, <3>3, RunFields
    <3> QED
      BY <3>2, <3>3
  <2>4. TypeOK'
    BY <1>0, <1>4, ClientTypes
  <2>5. \A k \in Jobs : HasId(k)'
    BY <1>0, <1>4, <2>1, <2>3, JobAssumption DEF HasId
  <2>6. ran' \in [Jobs -> Runs]
    BY <1>0, <2>3
  <2>7. stage' \in [Jobs -> Stages] /\ streaming' \subseteq Jobs
    BY <1>0, <1>4 DEF Stages
  <2> QED
    BY <1>0, <1>4, <2>4, <2>5, <2>6, <2>7
<1>5. CASE Announce(j) \/ Return(j)
  <2> USE DEF Announce, Return
  <2>1. TypeOK'
    BY <1>0, <1>5, ClientTypes DEF JobEvents
  <2>2. \A k \in Jobs : HasId(k)'
    BY <1>0, <1>5 DEF HasId
  <2> QED
    BY <1>0, <1>5, <2>1, <2>2 DEF Stages
<1>6. ASSUME NEW s \in Streams, ReadLine(j, s)
      PROVE  JobTypeInv'
  <2>1. UNCHANGED jobVars
    BY <1>6 DEF ReadLine
  <2>2. TypeOK'
    BY <1>0, <1>6, ClientTypes, LogsAre DEF ReadLine
  <2> QED
    BY <1>0, <2>1, <2>2 DEF jobVars, HasId, JobTypeInv, JobTypeOK, Dirs, Runs
<1> QED
  BY <1>1, <1>2, <1>3, <1>4, <1>5, <1>6 DEF JobStep, JobTypeInv, JobTypeOK,
     Dirs, Runs

LEMMA JobInitTypes == JobInit => JobTypeInv
<1> SUFFICES ASSUME JobInit
             PROVE  JobTypeInv
  OBVIOUS
<1>1. TypeOK
  <2>1. <<>> \in Seq(Tasks) /\ Len(<<>>) = 0
    OBVIOUS
  <2>2. 0 \in 0..BackoffCap /\ 0 <= ChannelCapacity
    BY JobAssumption
  <2>3. Init
    BY DEF JobInit
  <2> QED
    BY <2>1, <2>2, <2>3 DEF Init, TypeOK, Phases, Results
<1> QED
  BY <1>1 DEF JobInit, JobTypeInv, JobTypeOK, HasId, NoDir, Owners, Stages

LEMMA JobTypesKept == JobTypeInv /\ [JobNext]_allVars => JobTypeInv'
<1> SUFFICES ASSUME JobTypeInv, [JobNext]_allVars
             PROVE  JobTypeInv'
  OBVIOUS
<1>1. CASE ClientSend \/ Connection \/ Exited \/ UNCHANGED allVars
  <2>1. UNCHANGED jobVars
    BY <1>1 DEF ClientSend, Connection, Exited, allVars
  <2>2. TypeOK'
    BY <1>1, ClientTypes DEF ClientSend, Connection, Exited, allVars,
                             JobTypeInv, JobTypeOK
  <2> QED
    BY <2>1, <2>2 DEF jobVars, JobTypeInv, JobTypeOK, HasId
<1> QED
  BY <1>1, JobStepTypes DEF JobNext

\* Every state is well-typed, the client's shared with the jobs included; in
\* particular the jobs together never overfill the outbound channel.
THEOREM JobTypes == JobSpec => []JobTypeOK
<1>1. JobTypeInv => JobTypeOK
  BY DEF JobTypeInv
<1> QED
  BY <1>1, JobInitTypes, JobTypesKept, PTL DEF JobSpec
-----------------------------------------------------------------------------
(***************************************************************************)
(* Which scripts a job executes.                                           *)
(***************************************************************************)

\* No request arrived for a job whose task has not started.
Unborn(j) == pc[j] = "idle" => stage[j] = "none" /\ jobId[j] = NoId

\* While nobody shares its job_id, what a job wrote to its directory stays
\* there until it was executed.
OwnFiles(j) ==
    DistinctJob(j) =>
        /\ stage[j] \in {"scripted", "ready"} => files[jobId[j]].run = j
        /\ stage[j] \in {"ready", "running", "joining", "cleanup"} /\ cleanup[j] = "given"
             => files[jobId[j]].cleanup = j
        /\ stage[j] = "cleanup" => cleanup[j] = "given"
        /\ stage[j] \in {"running", "joining", "cleanup", "sweeping"}
             => ran[j].run = j
        /\ ran[j].cleanup \in {j, NoJob}

ScriptsInv == \A j \in Jobs : Unborn(j) /\ OwnFiles(j)

\* No task goes back to the state before its request or publish.
LEMMA NeverIdleAgain ==
    ASSUME TypeOK, [JobNext]_allVars, NEW t \in Tasks, pc[t] # "idle"
    PROVE  pc'[t] # "idle"
<1>1. CASE ClientSend
  BY <1>1 DEF ClientSend, PublishSend, ReplySend, Finish, TypeOK
<1>2. CASE Connection \/ Exited \/ UNCHANGED allVars
  BY <1>2 DEF Connection, ListenLoop, ListenStart, Signal, LoopTop,
       BackoffEnds, ConnectOk, ConnectFails, ShutdownSeen, CloseDone,
       PingTick, PongTimeout, OutboundTake, WriteEnds,
       PingWritten, OutboundWritten, RefusalWritten, Pong, StreamEnds, LinkDies,
       taskVars, Exited, allVars, clientVars
<1>3. ASSUME NEW j \in Jobs, JobStep(j)
      PROVE  pc'[t] # "idle"
  <2>1. CASE Receive(j) \/ ReceiveInvalid(j)
    BY <2>1 DEF Receive, ReceiveInvalid, InboundRpc, TypeOK
  <2>2. CASE Announce(j) \/ Return(j) \/ \E s \in Streams : ReadLine(j, s)
    BY <2>2 DEF Announce, Return, ReadLine, PublishStart, HandlerReplies,
                Finish, TypeOK
  <2>3. CASE \/ PrepareFails(j) \/ MakeDir(j) \/ WriteRun(j)
             \/ WriteCleanup(j) \/ Spawn(j) \/ ScriptExits(j) \/ StreamsJoined(j) \/ BackgroundEnds(j) \/ WaitFails(j)
             \/ StreamsEnd(j) \/ RunCleanup(j) \/ Sweep(j)
    BY <2>3 DEF PrepareFails, MakeDir, WriteRun, WriteCleanup, Spawn,
                ScriptExits, StreamsJoined,
         BackgroundEnds, AfterScript, WaitFails, StreamsEnd, RunCleanup, Sweep, clientVars
  <2> QED
    BY <1>3, <2>1, <2>2, <2>3 DEF JobStep
<1> QED
  BY <1>1, <1>2, <1>3 DEF JobNext

\* A request that arrives may take the job_id of another job from it, and
\* never gives it one of its own.
LEMMA ReceiveKeeps ==
    ASSUME JobTypeInv, ScriptsInv, NEW k \in Jobs,
           Receive(k) \/ ReceiveInvalid(k), NEW j \in Jobs
    PROVE  OwnFiles(j)'
<1>0. /\ pc[k] = "idle" /\ stage[k] = "none" /\ jobId[k] = NoId
      /\ ran[k].cleanup = NoJob
      /\ files' = files /\ ran' = ran
      /\ stage'[k] \in {"parsed", "failed"}
      /\ \A i \in Jobs : i # k => /\ stage'[i] = stage[i]
                                  /\ jobId'[i] = jobId[i]
                                  /\ cleanup'[i] = cleanup[i]
  BY DEF Receive, ReceiveInvalid, InboundRpc, Goto, ScriptsInv, Unborn,
         JobTypeInv, JobTypeOK, HasId
<1>1. CASE j = k
  BY <1>0, <1>1 DEF OwnFiles
<1>2. CASE j # k
  <2>1. CASE jobId[j] = NoId
    BY <1>0, <1>2, <2>1 DEF JobTypeInv, HasId, OwnFiles
  <2>2. CASE jobId[j] # NoId
    <3>1. DistinctJob(j)' => DistinctJob(j)
      BY <1>0, <1>2, <2>2 DEF DistinctJob
    <3> QED
      BY <1>0, <1>2, <3>1 DEF ScriptsInv, OwnFiles
  <2> QED
    BY <2>1, <2>2
<1> QED
  BY <1>1, <1>2

\* A job writes and removes its own directory; one with another job_id is
\* not disturbed.
LEMMA FilesKeep ==
    ASSUME JobTypeInv, ScriptsInv, NEW k \in Jobs,
           MakeDir(k) \/ WriteRun(k) \/ WriteCleanup(k) \/ Sweep(k),
           NEW j \in Jobs
    PROVE  OwnFiles(j)'
<1>0. /\ jobId[k] \in JobIds /\ files \in [JobIds -> Dirs]
      /\ UNCHANGED <<jobId, cleanup, ran>>
      /\ stage \in [Jobs -> Stages]
      /\ DistinctJob(j)' = DistinctJob(j)
  BY FileTypes DEF MakeDir, WriteRun, WriteCleanup, Sweep, DistinctJob,
     JobTypeInv, JobTypeOK, Dirs
<1>1. CASE j # k
  <2>1. stage'[j] = stage[j]
    BY <1>0, <1>1 DEF MakeDir, WriteRun, WriteCleanup, Sweep, Goto
  <2>2. \A id \in JobIds : id # jobId[k] => files'[id] = files[id]
    BY <1>0 DEF MakeDir, WriteRun, WriteCleanup, Sweep
  <2>3. DistinctJob(j) => jobId[j] # jobId[k]
    BY <1>1 DEF DistinctJob
  <2>4. stage[j] \in {"scripted", "ready", "running", "joining", "cleanup"}
          => jobId[j] \in JobIds
    BY DEF JobTypeInv, JobTypeOK, HasId
  <2> QED
    BY <1>0, <2>1, <2>2, <2>3, <2>4 DEF ScriptsInv, OwnFiles
<1>2. CASE j = k
  <2> SUFFICES ASSUME DistinctJob(j)
               PROVE  OwnFiles(j)'
    BY <1>0 DEF OwnFiles
  <2>0. OwnFiles(j)
    BY DEF ScriptsInv
  <2>1. CASE MakeDir(k)
    <3>1. stage'[j] = "dir"
      BY <1>0, <1>2, <2>1 DEF MakeDir, Goto
    <3> QED
      BY <1>0, <2>0, <3>1 DEF OwnFiles
  <2>2. CASE WriteRun(k)
    <3>1. /\ stage'[j] = IF cleanup[j] = "given" THEN "scripted" ELSE "ready"
          /\ files'[jobId[j]].run = j
      BY <1>0, <1>2, <2>2 DEF WriteRun, Goto, Dirs
    <3>2. CASE cleanup[j] = "given"
      BY <1>0, <2>0, <3>1, <3>2 DEF OwnFiles
    <3>3. CASE cleanup[j] # "given"
      BY <1>0, <2>0, <3>1, <3>3 DEF OwnFiles
    <3> QED
      BY <3>2, <3>3
  <2>3. CASE WriteCleanup(k)
    <3>1. /\ stage[j] = "scripted" /\ stage'[j] = "ready"
          /\ files'[jobId[j]].cleanup = j
          /\ files'[jobId[j]].run = files[jobId[j]].run
      BY <1>0, <1>2, <2>3 DEF WriteCleanup, At, Goto, Dirs
    <3> QED
      BY <1>0, <2>0, <3>1 DEF OwnFiles
  <2>4. CASE Sweep(k)
    <3>1. stage'[j] = "swept"
      BY <1>0, <1>2, <2>4 DEF Sweep, Goto
    <3> QED
      BY <1>0, <2>0, <3>1 DEF OwnFiles
  <2> QED
    BY <2>1, <2>2, <2>3, <2>4
<1> QED
  BY <1>1, <1>2

\* What a job executes is what its directory holds.
LEMMA ExecutionKeeps ==
    ASSUME JobTypeInv, ScriptsInv, NEW k \in Jobs,
           Spawn(k) \/ RunCleanup(k), NEW j \in Jobs
    PROVE  OwnFiles(j)'
<1>0. /\ UNCHANGED <<jobId, files>>
      /\ DistinctJob(j)' = DistinctJob(j)
      /\ OwnFiles(j)
      /\ stage \in [Jobs -> Stages]
      /\ cleanup \in [Jobs -> {"none", "given", "attempted"}]
      /\ ran \in [Jobs -> Runs]
  BY DEF Spawn, RunCleanup, DistinctJob, ScriptsInv, JobTypeInv, JobTypeOK, Runs
<1>1. CASE j # k
  BY <1>0, <1>1 DEF Spawn, RunCleanup, Goto, OwnFiles
<1>2. CASE j = k /\ Spawn(k)
  <2>1. /\ stage[j] = "ready" /\ stage'[j] = "running" /\ cleanup' = cleanup
        /\ ran'[j].run = files[jobId[j]].run
        /\ ran'[j].cleanup = ran[j].cleanup
    BY <1>0, <1>2 DEF Spawn, At, Goto, Dir, Runs
  <2> QED
    BY <1>0, <2>1 DEF OwnFiles
<1>3. CASE j = k /\ RunCleanup(k)
  <2>1. /\ stage[j] = "cleanup" /\ stage'[j] = "sweeping"
        /\ ran'[j].run = ran[j].run
        /\ ran'[j].cleanup \in {ran[j].cleanup, files[jobId[j]].cleanup}
    BY <1>0, <1>3 DEF RunCleanup, At, Goto, Dir, Runs
  <2> QED
    BY <1>0, <2>1 DEF OwnFiles
<1> QED
  BY <1>1, <1>2, <1>3

\* Every other step of a handler leaves directories and executions alone.
LEMMA OthersKeepFiles ==
    ASSUME JobTypeInv, ScriptsInv, NEW k \in Jobs,
           \/ PrepareFails(k) \/ ScriptExits(k) \/ StreamsJoined(k) \/ BackgroundEnds(k) \/ WaitFails(k) \/ StreamsEnd(k)
           \/ Announce(k) \/ Return(k) \/ \E s \in Streams : ReadLine(k, s),
           NEW j \in Jobs
    PROVE  OwnFiles(j)'
<1>0. /\ UNCHANGED <<jobId, files, ran, cleanup>>
      /\ stage \in [Jobs -> Stages]
      /\ OwnFiles(j)
  BY DEF PrepareFails, ScriptExits, StreamsJoined,
         BackgroundEnds, AfterScript, WaitFails, StreamsEnd, Announce, Return,
         ReadLine, jobVars, ScriptsInv, JobTypeInv, JobTypeOK
<1>1. \/ stage'[j] = stage[j]
      \/ stage'[j] \in {"failed", "ending", "returned"}
      \/ stage[j] = "running" /\ stage'[j] = "joining"
      \/ /\ stage[j] = "joining"
         /\ stage'[j] = IF cleanup[j] = "given" THEN "cleanup" ELSE "sweeping"
  BY <1>0 DEF PrepareFails, ScriptExits, StreamsJoined,
         BackgroundEnds, AfterScript, WaitFails, StreamsEnd, Announce,
              Return, ReadLine, jobVars, Goto, At
<1> QED
  BY <1>0, <1>1 DEF OwnFiles, DistinctJob

LEMMA ScriptsKept ==
    ASSUME JobTypeInv, ScriptsInv, [JobNext]_allVars
    PROVE  ScriptsInv'
<1>0. TypeOK /\ \A j \in Jobs : j \in Tasks
  BY EventsAreTasks DEF JobTypeInv, JobTypeOK
<1>1. ASSUME NEW j \in Jobs, NEW k \in Jobs, JobStep(k)
      PROVE  OwnFiles(j)'
  BY <1>1, ReceiveKeeps, FilesKeep, ExecutionKeeps, OthersKeepFiles DEF JobStep
<1>2. ASSUME NEW j \in Jobs, UNCHANGED jobVars
      PROVE  OwnFiles(j)'
  BY <1>2 DEF jobVars, ScriptsInv, OwnFiles, DistinctJob
<1>3. ASSUME NEW j \in Jobs
      PROVE  Unborn(j)'
  <2> SUFFICES ASSUME pc'[j] = "idle"
               PROVE  stage'[j] = "none" /\ jobId'[j] = NoId
    BY DEF Unborn
  <2>1. pc[j] = "idle"
    BY <1>0, NeverIdleAgain
  <2>2. stage[j] = "none" /\ jobId[j] = NoId
    BY <2>1 DEF ScriptsInv, Unborn
  <2>3. CASE UNCHANGED jobVars
    BY <2>2, <2>3 DEF jobVars
  <2>4. ASSUME NEW k \in Jobs, Receive(k) \/ ReceiveInvalid(k)
        PROVE  stage'[j] = "none" /\ jobId'[j] = NoId
    <3>1. j # k
      BY <1>0, <2>4 DEF Receive, ReceiveInvalid, InboundRpc, TypeOK
    <3> QED
      BY <2>2, <2>4, <3>1 DEF Receive, ReceiveInvalid, Goto, JobTypeInv, JobTypeOK
  <2>5. ASSUME NEW k \in Jobs, JobStep(k),
               ~(Receive(k) \/ ReceiveInvalid(k))
        PROVE  stage'[j] = "none" /\ jobId'[j] = NoId
    <3>1. jobId' = jobId
      BY <2>5 DEF JobStep, PrepareFails, MakeDir, WriteRun, WriteCleanup,
           Spawn, ScriptExits, StreamsJoined,
         BackgroundEnds, AfterScript, WaitFails, StreamsEnd, RunCleanup, Sweep,
           Announce, Return, ReadLine, jobVars
    <3>2. CASE stage[k] = "none"
      BY <2>2, <2>5, <3>1, <3>2 DEF JobStep, PrepareFails, MakeDir, WriteRun,
           WriteCleanup, Spawn, ScriptExits, StreamsJoined,
         BackgroundEnds, AfterScript, WaitFails, StreamsEnd, RunCleanup,
           Sweep, Announce, Return, ReadLine, jobVars, At
    <3>3. CASE stage[k] # "none"
      <4>1. j # k
        BY <2>2, <3>3
      <4> QED
        BY <2>2, <2>5, <3>1, <4>1 DEF JobStep, PrepareFails, MakeDir, WriteRun,
           WriteCleanup, Spawn, ScriptExits, StreamsJoined,
         BackgroundEnds, AfterScript, WaitFails, StreamsEnd, RunCleanup,
           Sweep, Announce, Return, ReadLine, jobVars, Goto, JobTypeInv,
           JobTypeOK
    <3> QED
      BY <3>2, <3>3
  <2>6. CASE ClientSend \/ Connection \/ Exited \/ UNCHANGED allVars
    BY <2>3, <2>6 DEF ClientSend, Connection, Exited, allVars
  <2> QED
    BY <2>4, <2>5, <2>6 DEF JobNext
<1>4. CASE ClientSend \/ Connection \/ Exited \/ UNCHANGED allVars
  <2>1. UNCHANGED jobVars
    BY <1>4 DEF ClientSend, Connection, Exited, allVars
  <2> QED
    BY <1>2, <1>3, <2>1 DEF ScriptsInv
<1> QED
  BY <1>1, <1>3, <1>4 DEF JobNext, ScriptsInv

LEMMA InitScripts == JobInit => ScriptsInv
<1> SUFFICES ASSUME JobInit, NEW j \in Jobs
             PROVE  Unborn(j) /\ OwnFiles(j)
  BY DEF ScriptsInv
<1>1. stage[j] = "none" /\ jobId[j] = NoId /\ ran[j].cleanup = NoJob
  BY DEF JobInit
<1> QED
  BY <1>1 DEF Unborn, OwnFiles

\* A job whose job_id no other job on the device shares executes its own
\* run.sh and its own cleanup.sh, however many other jobs write and remove
\* their directories in between and whatever fails.
THEOREM ScriptsAreOwn == JobSpec => []RunsOwnScripts
<1>1. ScriptsInv => RunsOwnScripts
  BY DEF ScriptsInv, OwnFiles, RunsOwnScripts
<1>2. JobTypeInv /\ ScriptsInv /\ [JobNext]_allVars => ScriptsInv'
  BY ScriptsKept
<1> QED
  BY <1>1, <1>2, JobInitTypes, JobTypesKept, InitScripts, PTL DEF JobSpec
-----------------------------------------------------------------------------
(***************************************************************************)
(* The order of a job's messages.                                          *)
(***************************************************************************)

\* Nothing of a job is queued behind its end event but its reply, and no end
\* event behind the reply; the same of what the broker has already got.
Follows(j, t) ==
    /\ End(j) \in delivered \cup hand => t \notin Logs(j)
    /\ j \in delivered \cup hand => t # End(j)
QueueOrder ==
    \A j \in Jobs :
        /\ \A i \in 1..Len(outq) : Follows(j, outq[i])
        /\ End(j) \in delivered => hand \cap Logs(j) = {}
        /\ j \in delivered => End(j) \notin hand
        /\ \A i, m \in 1..Len(outq) : i < m =>
             /\ outq[i] = End(j) => outq[m] \notin Logs(j)
             /\ outq[i] = j => outq[m] # End(j)

\* Messages on their way were published, replies by handlers that returned.
Published(j) ==
    /\ End(j) \in delivered \/ InQueue(End(j)) => pc[End(j)] # "idle"
    /\ j \in delivered \/ InQueue(j) \/ pc[j] = "publishing"
         => stage[j] = "returned"

\* A handler announces the end when its stream tasks are joined and silent,
\* and returns when the announcement is queued.
Silent(j) == j \notin streaming /\ \A l \in Logs(j) : pc[l] # "publishing"
Joined(j) ==
    /\ stage[j] \in {"cleanup", "sweeping", "swept"} \/ pc[End(j)] # "idle"
         => Silent(j)
    /\ pc[End(j)] # "idle" => stage[j] \in {"ending", "returned"}
    /\ stage[j] = "returned" => pc[End(j)] # "publishing"

OrderInv == QueueOrder /\ \A j \in Jobs : Published(j) /\ Joined(j)

\* The end of the queue is where a message may be added: no log line of a
\* job that announced its end, no end event of a job that replied.
LEMMA AppendOrder ==
    ASSUME JobTypeInv, OrderInv, NEW t \in Tasks,
           outq' = Append(outq, t), delivered' = delivered, hand' = hand,
           \A j \in Jobs : t \in Logs(j) => pc[End(j)] = "idle",
           \A j \in Jobs : t = End(j) => stage[j] # "returned"
    PROVE  QueueOrder'
<1>1. /\ outq \in Seq(Tasks) /\ Len(outq) \in Nat
      /\ Len(outq') = Len(outq) + 1 /\ outq'[Len(outq) + 1] = t
      /\ \A i \in 1..Len(outq) : outq'[i] = outq[i]
  BY DEF JobTypeInv, JobTypeOK, TypeOK
<1>2. \A i \in 1..Len(outq') : i \in 1..Len(outq) \/ i = Len(outq) + 1
  BY <1>1
<1>3. ASSUME NEW j \in Jobs, t \in Logs(j)
      PROVE  /\ End(j) \notin delivered \cup hand
             /\ \A i \in 1..Len(outq) : outq[i] # End(j)
  BY <1>3 DEF OrderInv, Published, InQueue
<1>4. ASSUME NEW j \in Jobs, t = End(j)
      PROVE  j \notin delivered \cup hand /\ \A i \in 1..Len(outq) : outq[i] # j
  BY <1>4 DEF OrderInv, Published, InQueue
<1>5. ASSUME NEW j \in Jobs, NEW i \in 1..Len(outq')
      PROVE  Follows(j, outq[i])'
  BY <1>1, <1>2, <1>3, <1>4 DEF OrderInv, QueueOrder, Follows
<1>6. ASSUME NEW j \in Jobs, NEW i \in 1..Len(outq'), NEW m \in 1..Len(outq'),
             i < m
      PROVE  /\ outq'[i] = End(j) => outq'[m] \notin Logs(j)
             /\ outq'[i] = j => outq'[m] # End(j)
  <2>1. i \in 1..Len(outq) /\ outq'[i] = outq[i]
    BY <1>1, <1>6
  <2>2. CASE m \in 1..Len(outq)
    <3>1. \A a, b \in 1..Len(outq) : a < b =>
             /\ outq[a] = End(j) => outq[b] \notin Logs(j)
             /\ outq[a] = j => outq[b] # End(j)
      BY DEF OrderInv, QueueOrder
    <3> QED
      BY <1>1, <1>6, <2>1, <2>2, <3>1
  <2>3. CASE m = Len(outq) + 1
    BY <1>1, <1>3, <1>4, <2>1, <2>3
  <2> QED
    BY <1>2, <2>2, <2>3
<1>7. ASSUME NEW j \in Jobs
      PROVE  /\ End(j) \in delivered' => hand' \cap Logs(j) = {}
             /\ j \in delivered' => End(j) \notin hand'
  BY DEF OrderInv, QueueOrder
<1> QED
  BY <1>5, <1>6, <1>7 DEF QueueOrder

\* The listen task takes messages from the front of the queue,
LEMMA TakeOrder ==
    ASSUME JobTypeInv, OrderInv, OutboundTake
    PROVE  /\ QueueOrder'
           /\ \A t : InQueue(t)' => InQueue(t)
           /\ delivered' = delivered
<1>1. /\ outq \in Seq(Tasks) /\ Len(outq) \in Nat /\ Len(outq) >= 1
      /\ Head(outq) = outq[1] /\ 1 \in 1..Len(outq)
      /\ Len(outq') = Len(outq) - 1
      /\ \A i \in 1..Len(outq') : /\ i + 1 \in 1..Len(outq) /\ 1 < i + 1
                                  /\ outq'[i] = outq[i + 1]
      /\ delivered' = delivered /\ hand' = {outq[1]}
  BY DEF OutboundTake, JobTypeInv, JobTypeOK, TypeOK
<1>2. ASSUME NEW j \in Jobs, NEW i \in 1..Len(outq')
      PROVE  Follows(j, outq[i])'
  <2>1. /\ Follows(j, outq[i + 1])
        /\ outq[1] = End(j) => outq[i + 1] \notin Logs(j)
        /\ outq[1] = j => outq[i + 1] # End(j)
    BY <1>1 DEF OrderInv, QueueOrder
  <2> QED
    BY <1>1, <2>1 DEF Follows
<1>3. ASSUME NEW j \in Jobs, NEW i \in 1..Len(outq'), NEW m \in 1..Len(outq'),
             i < m
      PROVE  /\ outq'[i] = End(j) => outq'[m] \notin Logs(j)
             /\ outq'[i] = j => outq'[m] # End(j)
  <2>1. /\ i + 1 \in 1..Len(outq) /\ m + 1 \in 1..Len(outq) /\ i + 1 < m + 1
        /\ outq'[i] = outq[i + 1] /\ outq'[m] = outq[m + 1]
    BY <1>1, <1>3
  <2>2. \A a, b \in 1..Len(outq) : a < b =>
           /\ outq[a] = End(j) => outq[b] \notin Logs(j)
           /\ outq[a] = j => outq[b] # End(j)
    BY DEF OrderInv, QueueOrder
  <2>3. /\ outq[i + 1] = End(j) => outq[m + 1] \notin Logs(j)
        /\ outq[i + 1] = j => outq[m + 1] # End(j)
    BY <2>1, <2>2
  <2> QED
    BY <2>1, <2>3
<1>4. ASSUME NEW j \in Jobs
      PROVE  /\ End(j) \in delivered' => hand' \cap Logs(j) = {}
             /\ j \in delivered' => End(j) \notin hand'
  <2>1. Follows(j, outq[1])
    BY <1>1 DEF OrderInv, QueueOrder
  <2> QED
    BY <1>1, <2>1 DEF Follows
<1>5. QueueOrder'
  BY <1>2, <1>3, <1>4 DEF QueueOrder
<1>6. \A t : InQueue(t)' => InQueue(t)
  BY <1>1 DEF InQueue
<1> QED
  BY <1>1, <1>5, <1>6

\* and delivers what it took, or loses it.
LEMMA WriteOrder ==
    ASSUME JobTypeInv, OrderInv, WriteEnds
    PROVE  /\ QueueOrder'
           /\ \A t : InQueue(t)' => InQueue(t)
           /\ \A t : t \in delivered' => t \in delivered \/ InQueue(t)
           /\ \A j \in Jobs : /\ End(j) \in delivered
                                   => delivered' \cap Logs(j) \subseteq delivered
                              /\ j \in delivered /\ End(j) \in delivered'
                                   => End(j) \in delivered
<1>1. /\ outq' = outq
      /\ \/ hand' = {}
         \/ hand' = hand /\ delivered' = delivered
      /\ delivered' \subseteq delivered \cup hand
  <2>1. CASE PingWritten
    BY <2>1 DEF PingWritten, taskVars
  <2>2. CASE OutboundWritten
    BY <2>2 DEF OutboundWritten
  <2>3. CASE RefusalWritten
    BY <2>3 DEF RefusalWritten
  <2> QED
    BY <2>1, <2>2, <2>3 DEF WriteEnds
<1>2. ASSUME NEW j \in Jobs, NEW i \in 1..Len(outq')
      PROVE  Follows(j, outq[i])'
  <2>1. Follows(j, outq[i])
    BY <1>1 DEF OrderInv, QueueOrder
  <2> QED
    BY <1>1, <2>1 DEF Follows
<1>3. ASSUME NEW j \in Jobs
      PROVE  /\ End(j) \in delivered' => hand' \cap Logs(j) = {}
             /\ j \in delivered' => End(j) \notin hand'
  BY <1>1 DEF OrderInv, QueueOrder
<1>4. ASSUME NEW j \in Jobs, NEW i \in 1..Len(outq'), NEW m \in 1..Len(outq'),
             i < m
      PROVE  /\ outq'[i] = End(j) => outq'[m] \notin Logs(j)
             /\ outq'[i] = j => outq'[m] # End(j)
  BY <1>1, <1>4 DEF OrderInv, QueueOrder
<1>5. QueueOrder'
  BY <1>2, <1>3, <1>4 DEF QueueOrder
<1>6. ASSUME NEW j \in Jobs
      PROVE  /\ End(j) \in delivered => delivered' \cap Logs(j) \subseteq delivered
             /\ j \in delivered /\ End(j) \in delivered' => End(j) \in delivered
  BY <1>1 DEF OrderInv, QueueOrder
<1> QED
  BY <1>1, <1>5, <1>6 DEF InQueue

\* A message that enters the queue was being published by its task, which is
\* done with it.
LEMMA EnqueueOrder ==
    ASSUME JobTypeInv, OrderInv, NEW t \in Tasks, pc[t] = "publishing",
           Enqueue(t), pc' = [pc EXCEPT ![t] = "done"],
           UNCHANGED <<delivered, hand, stage, streaming>>
    PROVE  OrderInv'
<1>0. outq' = Append(outq, t) /\ outq \in Seq(Tasks)
      /\ pc \in [Tasks -> {"idle", "running", "publishing", "awaiting", "done"}]
  BY DEF Enqueue, JobTypeInv, JobTypeOK, TypeOK
<1>1. \A j \in Jobs : t \in Logs(j) => pc[End(j)] = "idle"
  BY DEF OrderInv, Joined, Silent
<1>2. \A j \in Jobs : t = End(j) => stage[j] # "returned"
  BY DEF OrderInv, Joined
<1>3. QueueOrder'
  BY <1>0, <1>1, <1>2, AppendOrder
<1>4. \A u : InQueue(u)' => InQueue(u) \/ u = t
  BY <1>0 DEF InQueue
<1>5. ASSUME NEW j \in Jobs
      PROVE  Published(j)' /\ Joined(j)'
  <2>0. End(j) \in Tasks /\ j \in Tasks /\ Logs(j) \subseteq Tasks
    BY EventsAreTasks
  <2>1. Published(j) /\ Joined(j)
    BY DEF OrderInv
  <2>2. pc'[t] = "done" /\ \A u \in Tasks : u # t => pc'[u] = pc[u]
    BY <1>0
  <2>3. Published(j)'
    BY <1>4, <2>0, <2>1, <2>2 DEF Published
  <2>4. Joined(j)'
    BY <2>0, <2>1, <2>2 DEF Joined, Silent
  <2> QED
    BY <2>3, <2>4
<1> QED
  BY <1>3, <1>5 DEF OrderInv

\* A step of job k's handler that sends and delivers nothing.
LEMMA HandlerOrder ==
    ASSUME JobTypeInv, OrderInv, UNCHANGED <<outq, delivered, hand>>,
           NEW k \in Jobs,
           \A j \in Jobs : j # k =>
               /\ stage'[j] = stage[j]
               /\ j \in streaming' <=> j \in streaming
               /\ pc'[j] = pc[j] /\ pc'[End(j)] = pc[End(j)]
               /\ \A l \in Logs(j) : pc'[l] = pc[l],
           Published(k)', Joined(k)'
    PROVE  OrderInv'
<1>1. QueueOrder'
  BY DEF OrderInv, QueueOrder, Follows
<1>2. ASSUME NEW j \in Jobs, j # k
      PROVE  Published(j)' /\ Joined(j)'
  <2>1. Published(j) /\ Joined(j)
    BY DEF OrderInv
  <2>2. Published(j)'
    BY <1>2, <2>1 DEF Published, InQueue
  <2>3. Joined(j)'
    BY <1>2, <2>1 DEF Joined, Silent
  <2> QED
    BY <2>2, <2>3
<1> QED
  BY <1>1, <1>2 DEF OrderInv

LEMMA OrderFrame ==
    ASSUME OrderInv, UNCHANGED <<outq, delivered, hand, pc, stage, streaming>>
    PROVE  OrderInv'
BY DEF OrderInv, QueueOrder, Follows, Published, Joined, Silent, InQueue

LEMMA HandlerKeepsOrder ==
    ASSUME JobTypeInv, ScriptsInv, OrderInv, NEW k \in Jobs, JobStep(k)
    PROVE  OrderInv'
<1>0. /\ k \in Tasks /\ End(k) \in Tasks /\ Logs(k) \subseteq Tasks
      /\ Published(k) /\ Joined(k) /\ Unborn(k)
      /\ pc \in [Tasks -> {"idle", "running", "publishing", "awaiting", "done"}]
      /\ stage \in [Jobs -> Stages]
  BY EventsAreTasks DEF OrderInv, ScriptsInv, JobTypeInv, JobTypeOK, TypeOK
<1>a. \A j \in Jobs : j # k =>
         /\ j \in Tasks /\ End(j) \in Tasks /\ Logs(j) \subseteq Tasks
         /\ End(j) # End(k) /\ End(j) # k /\ j # End(k)
         /\ End(j) \notin Logs(k) /\ End(k) \notin Logs(j)
         /\ j \notin Logs(k) /\ k \notin Logs(j)
         /\ Logs(j) \cap Logs(k) = {}
  BY EventsAreTasks, EventsDiffer
<1>b. End(k) # k /\ End(k) \notin Logs(k) /\ k \notin Logs(k)
  BY EventsDiffer
<1>1. CASE Receive(k) \/ ReceiveInvalid(k)
  <2>1. /\ pc[k] = "idle" /\ pc' = [pc EXCEPT ![k] = "running"]
        /\ stage[k] = "none" /\ stage'[k] \in {"parsed", "failed"}
        /\ \A j \in Jobs : j # k => stage'[j] = stage[j]
        /\ UNCHANGED <<outq, delivered, hand, streaming>>
    BY <1>0, <1>1 DEF Receive, ReceiveInvalid, InboundRpc, Goto, Unborn, listenVars
  <2>2. Published(k)'
    BY <1>0, <1>b, <2>1 DEF Published, InQueue
  <2>3. Joined(k)'
    BY <1>0, <1>b, <2>1 DEF Joined, Silent
  <2> QED
    BY <1>0, <1>a, <2>1, <2>2, <2>3, HandlerOrder
<1>2. CASE \/ PrepareFails(k) \/ MakeDir(k) \/ WriteRun(k) \/ WriteCleanup(k)
           \/ Spawn(k) \/ ScriptExits(k) \/ WaitFails(k)
  <2>1. /\ stage[k] \in {"parsed", "dir", "scripted", "ready", "running"}
        /\ stage'[k] \in {"failed", "dir", "scripted", "ready", "running",
                          "joining"}
        /\ \A j \in Jobs : j # k => /\ stage'[j] = stage[j]
                                    /\ j \in streaming' <=> j \in streaming
        /\ UNCHANGED <<outq, delivered, hand, pc>>
    BY <1>0, <1>2 DEF PrepareFails, MakeDir, WriteRun, WriteCleanup, Spawn,
                      ScriptExits, WaitFails, Goto, At, clientVars
  <2>2. Published(k)'
    BY <1>0, <2>1 DEF Published, InQueue
  <2>3. Joined(k)'
    BY <1>0, <2>1 DEF Joined
  <2> QED
    BY <2>1, <2>2, <2>3, HandlerOrder
<1>3. CASE StreamsJoined(k)
  <2>1. /\ stage[k] = "joining" /\ stage'[k] \in {"cleanup", "sweeping"}
        /\ \A j \in Jobs : j # k => /\ stage'[j] = stage[j]
                                    /\ j \in streaming' <=> j \in streaming
        /\ UNCHANGED <<outq, delivered, hand, pc>>
        /\ k \notin streaming'
    BY <1>0, <1>3 DEF StreamsJoined, AfterScript, Goto, At, clientVars
  <2>2. \A l \in Logs(k) : pc'[l] # "publishing"
    BY <1>3, <2>1 DEF StreamsJoined, Quiet, Publishing, Logs
  <2>3. Published(k)'
    BY <1>0, <2>1 DEF Published, InQueue
  <2>4. Joined(k)'
    BY <1>0, <2>1, <2>2 DEF Joined, Silent
  <2> QED
    BY <2>1, <2>3, <2>4, HandlerOrder
<1>9. CASE BackgroundEnds(k)
  BY <1>9, OrderFrame DEF BackgroundEnds, clientVars
<1>4. CASE StreamsEnd(k)
  <2>1. /\ stage' = stage /\ streaming' = streaming \ {k}
        /\ UNCHANGED <<outq, delivered, hand, pc>>
    BY <1>4 DEF StreamsEnd, clientVars
  <2>2. Published(k)'
    BY <1>0, <2>1 DEF Published, InQueue
  <2>3. Joined(k)'
    BY <1>0, <2>1 DEF Joined, Silent
  <2> QED
    BY <2>1, <2>2, <2>3, HandlerOrder
<1>5. CASE RunCleanup(k) \/ Sweep(k)
  <2>1. /\ stage[k] \in {"cleanup", "sweeping"}
        /\ stage'[k] \in {"sweeping", "swept"}
        /\ \A j \in Jobs : j # k => stage'[j] = stage[j]
        /\ UNCHANGED <<outq, delivered, hand, pc, streaming>>
    BY <1>0, <1>5 DEF RunCleanup, Sweep, Goto, At, clientVars
  <2>2. Published(k)'
    BY <1>0, <2>1 DEF Published, InQueue
  <2>3. Joined(k)'
    BY <1>0, <2>1 DEF Joined, Silent
  <2> QED
    BY <2>1, <2>2, <2>3, HandlerOrder
<1>6. CASE Announce(k)
  <2>1. /\ stage[k] = "swept" /\ stage'[k] = "ending"
        /\ \A j \in Jobs : j # k => stage'[j] = stage[j]
        /\ pc' = [pc EXCEPT ![End(k)] = "publishing"]
        /\ UNCHANGED <<outq, delivered, hand, streaming>>
    BY <1>0, <1>6 DEF Announce, PublishStart, Goto, At, listenVars
  <2>2. Published(k)'
    BY <1>0, <1>b, <2>1 DEF Published, InQueue
  <2>3. Joined(k)'
    BY <1>0, <1>b, <2>1 DEF Joined, Silent
  <2> QED
    BY <1>0, <1>a, <2>1, <2>2, <2>3, HandlerOrder
<1>7. CASE Return(k)
  <2>1. /\ \/ stage[k] = "failed"
           \/ stage[k] = "ending" /\ pc[End(k)] = "done"
        /\ stage'[k] = "returned"
        /\ \A j \in Jobs : j # k => stage'[j] = stage[j]
        /\ \/ pc' = [pc EXCEPT ![k] = "publishing"]
           \/ pc' = [pc EXCEPT ![k] = "done"]
        /\ UNCHANGED <<outq, delivered, hand, streaming>>
    BY <1>0, <1>7 DEF Return, HandlerReplies, Finish, Goto, listenVars
  <2>2. Published(k)'
    BY <1>0, <1>b, <2>1 DEF Published, InQueue
  <2>3. Joined(k)'
    BY <1>0, <1>b, <2>1 DEF Joined, Silent
  <2> QED
    BY <1>0, <1>a, <2>1, <2>2, <2>3, HandlerOrder
<1>8. ASSUME NEW s \in Streams, ReadLine(k, s)
      PROVE  OrderInv'
  <2>1. PICK n \in 1..Lines : PublishStart(Log(k, s, n))
    BY <1>8 DEF ReadLine
  <2>2. /\ Log(k, s, n) \in Logs(k)
        /\ pc' = [pc EXCEPT ![Log(k, s, n)] = "publishing"]
        /\ k \in streaming
        /\ UNCHANGED <<outq, delivered, hand, streaming, stage>>
    BY <1>8, <2>1, LogsAre DEF ReadLine, PublishStart, jobVars, listenVars
  <2>3. Published(k)'
    BY <1>0, <1>b, <2>2 DEF Published, InQueue
  <2>4. Joined(k)'
    BY <1>0, <1>b, <2>2 DEF Joined, Silent
  <2> QED
    BY <1>0, <1>a, <2>2, <2>3, <2>4, HandlerOrder
<1> QED
  BY <1>1, <1>2, <1>3, <1>4, <1>5, <1>6, <1>7, <1>8, <1>9 DEF JobStep

\* A message the broker gets was in the queue, and leaves it.
LEMMA OutboundKeepsOrder ==
    ASSUME JobTypeInv, OrderInv, OutboundTake \/ WriteEnds, UNCHANGED jobVars
    PROVE  OrderInv'
<1>1. UNCHANGED <<pc, stage, streaming>>
  BY DEF OutboundTake, WriteEnds, PingWritten, OutboundWritten, RefusalWritten,
         taskVars, jobVars
<1>2. /\ QueueOrder'
      /\ \A t : InQueue(t)' => InQueue(t)
      /\ \A t : t \in delivered' => t \in delivered \/ InQueue(t)
  BY TakeOrder, WriteOrder
<1>3. ASSUME NEW j \in Jobs
      PROVE  Published(j)' /\ Joined(j)'
  <2>1. Published(j) /\ Joined(j)
    BY DEF OrderInv
  <2>2. Published(j)'
    BY <1>1, <1>2, <2>1 DEF Published
  <2>3. Joined(j)'
    BY <1>1, <2>1 DEF Joined, Silent
  <2> QED
    BY <2>2, <2>3
<1> QED
  BY <1>2, <1>3 DEF OrderInv

LEMMA OrderKept ==
    ASSUME JobTypeInv, ScriptsInv, OrderInv, [JobNext]_allVars
    PROVE  OrderInv'
<1>1. CASE ClientSend
  <2>1. PICK t \in JobEvents \cup Jobs : PublishSend(t) \/ ReplySend(t)
    BY <1>1 DEF ClientSend
  <2>2. /\ t \in Tasks /\ pc[t] = "publishing" /\ Enqueue(t)
        /\ pc' = [pc EXCEPT ![t] = "done"]
        /\ UNCHANGED <<delivered, hand, stage, streaming>>
    BY <1>1, <2>1 DEF ClientSend, PublishSend, ReplySend, Finish, jobVars,
                      listenVars, Tasks
  <2> QED
    BY <2>2, EnqueueOrder
<1>2. CASE Connection /\ (OutboundTake \/ WriteEnds)
  BY <1>2, OutboundKeepsOrder DEF Connection
<1>3. CASE Connection /\ ~(OutboundTake \/ WriteEnds)
  <2>1. UNCHANGED <<outq, delivered, hand, pc, stage, streaming>>
    BY <1>3 DEF Connection, ListenLoop, ListenStart, Signal, LoopTop,
         BackoffEnds, ConnectOk, ConnectFails, ShutdownSeen, CloseDone,
         PingTick, PongTimeout, Pong, StreamEnds, LinkDies, taskVars, jobVars
  <2> QED
    BY <2>1, OrderFrame
<1>4. CASE Exited \/ UNCHANGED allVars
  BY <1>4, OrderFrame DEF Exited, allVars, clientVars, jobVars
<1> QED
  BY <1>1, <1>2, <1>3, <1>4, HandlerKeepsOrder DEF JobNext

LEMMA InitOrder == JobInit => OrderInv
<1> SUFFICES ASSUME JobInit
             PROVE  OrderInv
  OBVIOUS
<1>1. /\ outq = <<>> /\ Len(outq) = 0 /\ delivered = {} /\ hand = {}
      /\ streaming = {}
      /\ \A t \in Tasks : pc[t] = "idle"
      /\ \A j \in Jobs : stage[j] = "none"
  BY DEF JobInit, Init
<1>2. \A i \in 1..Len(outq) : FALSE
  BY <1>1
<1>3. QueueOrder
  BY <1>1, <1>2 DEF QueueOrder
<1>4. ASSUME NEW j \in Jobs
      PROVE  Published(j) /\ Joined(j)
  <2>1. End(j) \in Tasks /\ j \in Tasks
    BY EventsAreTasks
  <2> QED
    BY <1>1, <1>2, <2>1 DEF Published, Joined, InQueue
<1> QED
  BY <1>3, <1>4 DEF OrderInv

\* The action the theorem is about, step by step.
InOrder ==
    \A j \in Jobs :
        /\ End(j) \in delivered => delivered' \cap Logs(j) \subseteq delivered
        /\ j \in delivered /\ End(j) \in delivered' => End(j) \in delivered

LEMMA StepInOrder ==
    ASSUME JobTypeInv, OrderInv, [JobNext]_allVars
    PROVE  InOrder
<1>1. CASE Connection /\ (OutboundTake \/ WriteEnds)
  BY <1>1, TakeOrder, WriteOrder DEF InOrder
<1>2. ASSUME delivered' = delivered
      PROVE  InOrder
  BY <1>2 DEF InOrder
<1>3. CASE \/ ClientSend \/ Exited \/ UNCHANGED allVars
           \/ (Connection /\ ~(OutboundTake \/ WriteEnds))
  BY <1>2, <1>3 DEF ClientSend, PublishSend, ReplySend, Exited, allVars,
       clientVars, Connection, ListenLoop, ListenStart, Signal, LoopTop,
       BackoffEnds, ConnectOk, ConnectFails, ShutdownSeen, CloseDone,
       PingTick, PongTimeout, Pong, StreamEnds, LinkDies
<1>4. ASSUME NEW k \in Jobs, JobStep(k)
      PROVE  InOrder
  BY <1>2, <1>4 DEF JobStep, Receive, ReceiveInvalid, InboundRpc,
       PrepareFails, MakeDir, WriteRun, WriteCleanup, Spawn, ScriptExits, StreamsJoined,
         BackgroundEnds, AfterScript,
       WaitFails, StreamsEnd, RunCleanup, Sweep, Announce, Return, ReadLine,
       PublishStart, HandlerReplies, clientVars
<1> QED
  BY <1>1, <1>3, <1>4 DEF JobNext

\* The messages of a job reach the broker log lines first, then the end
\* event, then the reply, for every number of jobs, streams and lines, every
\* order in which tasks get the publish lock and every loss on the way.
THEOREM MessagesInOrder == JobSpec => StreamOrder
<1>1. JobTypeInv /\ ScriptsInv /\ [JobNext]_allVars => ScriptsInv'
  BY ScriptsKept
<1>2. JobTypeInv /\ ScriptsInv /\ OrderInv /\ [JobNext]_allVars => OrderInv'
  BY OrderKept
<1>3. JobTypeInv /\ OrderInv /\ [JobNext]_allVars => [InOrder]_allVars
  BY StepInOrder
<1>4. StreamOrder <=> [][InOrder]_allVars
  BY DEF StreamOrder, InOrder
<1> QED
  BY <1>1, <1>2, <1>3, <1>4, JobInitTypes, JobTypesKept, InitScripts,
     InitOrder, PTL DEF JobSpec

-----------------------------------------------------------------------------
(***************************************************************************)
(* The client inside.                                                      *)
(***************************************************************************)

\* The handlers use the client as its own specification allows: a job is one
\* inbound RPC, an event one publish, and no step of a job does anything else
\* to the client's state.
LEMMA ClientStep ==
    ASSUME [JobNext]_allVars
    PROVE  [Next]_vars
<1> USE DEF vars, clientVars, allVars
<1>1. ASSUME NEW j \in Jobs, JobStep(j)
      PROVE  [Next]_vars
  <2>1. CASE Receive(j) \/ ReceiveInvalid(j)
    BY <2>1 DEF Receive, ReceiveInvalid, Next, ListenStep
  <2>2. CASE Announce(j)
    <3>1. PublishStart(End(j)) /\ End(j) \in JobEvents
      BY <2>2 DEF Announce, JobEvents
    <3> QED
      BY <3>1 DEF Next, PublishStep
  <2>3. CASE Return(j)
    BY <2>3 DEF Return, Next, HandlerStep
  <2>4. ASSUME NEW s \in Streams, ReadLine(j, s)
        PROVE  [Next]_vars
    <3>1. PICK n \in 1..Lines : PublishStart(Log(j, s, n))
      BY <2>4 DEF ReadLine
    <3>2. Log(j, s, n) \in JobEvents
      BY LogsAre
    <3> QED
      BY <3>1, <3>2 DEF Next, PublishStep
  <2>5. CASE \/ PrepareFails(j) \/ MakeDir(j) \/ WriteRun(j) \/ WriteCleanup(j) \/ Spawn(j)
             \/ ScriptExits(j) \/ StreamsJoined(j) \/ BackgroundEnds(j) \/ WaitFails(j) \/ StreamsEnd(j) \/ RunCleanup(j) \/ Sweep(j)
    <3>1. UNCHANGED clientVars
      BY <2>5 DEF PrepareFails, MakeDir, WriteRun, WriteCleanup, Spawn,
         ScriptExits, StreamsJoined,
         BackgroundEnds, AfterScript, WaitFails, StreamsEnd, RunCleanup, Sweep
    <3> QED
      BY <3>1
  <2> QED
    BY <1>1, <2>1, <2>2, <2>3, <2>4, <2>5 DEF JobStep
<1>2. CASE ClientSend
  BY <1>2 DEF ClientSend, Next, PublishStep, HandlerStep
<1>3. CASE Connection
  BY <1>3 DEF Connection, Next, ListenStep, EnvStep
<1>4. CASE Exited \/ UNCHANGED allVars
  BY <1>4 DEF Exited
<1> QED
  BY <1>1, <1>2, <1>3, <1>4 DEF JobNext

\* JobExecution implements WampClient: what is proved of the client for any
\* publishes and RPCs holds of it under the execute handler's.
THEOREM ClientAsSpecified == JobSpec => Spec
<1>1. JobInit => Init
  BY DEF JobInit
<1>2. [JobNext]_allVars => [Next]_vars
  BY ClientStep
<1> QED
  BY <1>1, <1>2, PTL DEF JobSpec, Spec

\* The client of WampClientProofs, with the jobs for its RPCs and their events
\* for its publishes, is the one JobExecution is composed with.
Client == INSTANCE WampClientProofs
             WITH Calls <- {}, Publishes <- JobEvents, Rpcs <- Jobs, CorrIds <- {}

\* It starts as that one does,
LEMMA SameStart == Init => Client!Init
BY DEF Init, Tasks, Client!Init, Client!Tasks

\* and steps as that one does.
LEMMA SameSteps == [Next]_vars => [Client!Next]_Client!vars
BY DEF Answer, BackoffEnds, CallPublish, CallPublishFails, CallReturns,
   CallStart, CallStep, CallTimeout, ChannelOpen, CloseDone, ConnectFails,
   ConnectOk, Enqueue, EnqueueFails, EnvStep, Finish, Finished,
   HandlerEndsSilently, HandlerReplies, HandlerStep, Holds, InboundReply,
   InboundRpc, InboundUnknown, LinkDies, ListenLoop, ListenStart,
   ListenStep, LockFree, LoopTop, Next, OneMoreAttempt, OutboundTake,
   OutboundWritten, PingTick, PingWritten, RefusalWritten, WriteEnds, Inside, Pong, PongTimeout, PublishFails, PublishSend, PublishStart,
   PublishStep, Receiving, Reconnect, ReplySend, ReplySendFails, SendError,
   Serving, ShutdownSeen, Signal, StreamEnds, TakeEntry, Tasks, callVars,
   listenVars, taskVars, vars, Client!Answer, Client!BackoffEnds,
   Client!CallPublish, Client!CallPublishFails, Client!CallReturns,
   Client!CallStart, Client!CallStep, Client!CallTimeout,
   Client!ChannelOpen, Client!CloseDone, Client!ConnectFails,
   Client!ConnectOk, Client!Enqueue, Client!EnqueueFails, Client!EnvStep,
   Client!Finish, Client!Finished, Client!HandlerEndsSilently,
   Client!HandlerReplies, Client!HandlerStep, Client!Holds,
   Client!InboundReply, Client!InboundRpc, Client!InboundUnknown,
   Client!LinkDies, Client!ListenLoop, Client!ListenStart,
   Client!ListenStep, Client!LockFree, Client!LoopTop, Client!Next,
   Client!OneMoreAttempt, Client!OutboundTake, Client!OutboundWritten,
   Client!PingTick, Client!PingWritten, Client!RefusalWritten,
   Client!WriteEnds, Client!Inside, Client!Pong,
   Client!PongTimeout, Client!PublishFails, Client!PublishSend,
   Client!PublishStart, Client!PublishStep, Client!Receiving,
   Client!Reconnect, Client!ReplySend, Client!ReplySendFails,
   Client!SendError, Client!Serving, Client!ShutdownSeen, Client!Signal,
   Client!StreamEnds, Client!TakeEntry, Client!Tasks, Client!callVars,
   Client!listenVars, Client!taskVars, Client!vars

\* However jobs fail, end or are cut off, the publish lock they share is
\* handed on: it is held or waited for exactly by the tasks between lock() and
\* the end of their send.
THEOREM JobsGiveTheLockBack == JobSpec => []LockDiscipline
<1>1. Client!LockDiscipline => LockDiscipline
  BY DEF LockDiscipline, Client!LockDiscipline, Tasks, Client!Tasks
<1>2. Client!Spec => []Client!LockDiscipline
  BY JobAssumption, Client!LockIsGivenBack
<1>3. Spec => Client!Spec
  BY SameStart, SameSteps, PTL DEF Spec, Client!Spec
<1> QED
  BY <1>1, <1>2, <1>3, ClientAsSpecified, PTL

=============================================================================
