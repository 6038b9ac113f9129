---------------------------- MODULE JobExecution ----------------------------
(***************************************************************************)
(* The `execute` handler of src/src/start.rs (l. 128-374), run by the      *)
(* tasks that WampClient.dispatch_rpc spawns, and publishing through the   *)
(* client it shares with every other job: composed with WampClient, whose  *)
(* inbound RPCs are the jobs and whose publishes are their events.         *)
(*                                                                         *)
(* External: the scripts (they print some lines and exit), the filesystem  *)
(* (any operation may fail), the executor service behind reply_channel.    *)
(***************************************************************************)
EXTENDS Naturals, Sequences

CONSTANTS
    Jobs,             \* `execute` requests
    JobIds,           \* values of their job_id field, chosen by the executor
    Streams,          \* {"stdout", "stderr"}
    Lines,            \* a script prints at most this many lines per stream
    NoJob,
    NoCall, NoId, ChannelCapacity, BackoffCap

Log(j, s, n) == <<j, s, n>>
End(j) == <<j, "end">>
Logs(j) == {Log(j, s, n) : s \in Streams, n \in 1..Lines}
JobEvents == UNION {Logs(j) \cup {End(j)} : j \in Jobs}

ASSUME JobAssumption ==
    /\ NoJob \notin Jobs
    /\ NoId \notin JobIds
    /\ Jobs \cap JobEvents = {}
    /\ Lines \in Nat
    /\ ChannelCapacity \in Nat \ {0}
    /\ BackoffCap \in Nat \ {0}

VARIABLES phase, attempt, shutdown, link, waiting, lockQ, outq, hand,
          delivered, pc, result, corr, pending, slot, answer

INSTANCE WampClient WITH Calls <- {}, Publishes <- JobEvents, Rpcs <- Jobs,
                         CorrIds <- {}

VARIABLES
    stage,      \* where the handler of each job is
    jobId,      \* the job_id each job came with
    cleanup,    \* cleanup_script: "none", "given", or "attempted"
    files,      \* /tmp/{job_id}: whose run.sh and cleanup.sh it holds
    ran,        \* whose run.sh, and whose cleanup.sh, each job executed
    streaming,  \* jobs whose two stream tasks still read
    held        \* jobs whose pipe a background child of run.sh still holds

jobVars == <<stage, jobId, cleanup, files, ran, streaming, held>>
clientVars == <<phase, attempt, shutdown, link, waiting, lockQ, outq, hand,
                delivered, pc, result, corr, pending, slot, answer>>
allVars == <<clientVars, jobVars>>

Stages == {"none", "parsed", "dir", "scripted", "ready", "running", "joining",
           "cleanup", "sweeping", "swept", "ending", "failed", "returned"}
NoDir == [exists |-> FALSE, run |-> NoJob, cleanup |-> NoJob]
Owners == Jobs \cup {NoJob}

JobTypeOK ==
    /\ TypeOK
    /\ stage \in [Jobs -> Stages]
    /\ jobId \in [Jobs -> JobIds \cup {NoId}]
    /\ cleanup \in [Jobs -> {"none", "given", "attempted"}]
    /\ files \in [JobIds -> [exists : BOOLEAN, run : Owners, cleanup : Owners]]
    /\ ran \in [Jobs -> [run : Owners, cleanup : Owners]]
    /\ streaming \subseteq Jobs
    /\ held \subseteq Jobs

JobInit ==
    /\ Init
    /\ stage = [j \in Jobs |-> "none"]
    /\ jobId = [j \in Jobs |-> NoId]
    /\ cleanup = [j \in Jobs |-> "none"]
    /\ files = [id \in JobIds |-> NoDir]
    /\ ran = [j \in Jobs |-> [run |-> NoJob, cleanup |-> NoJob]]
    /\ streaming = {}
    /\ held = {}

-----------------------------------------------------------------------------
\* main() returns when listen() does (start.rs l. 891): the runtime goes, and
\* with it every handler; the scripts it spawned are not killed.
Alive == phase # "stopped"

Dir(j) == files[jobId[j]]
Goto(j, s) == stage' = [stage EXCEPT ![j] = s]
At(j, s) == Alive /\ stage[j] = s

\* The request arrives and its kwargs parse.
Receive(j) ==
    /\ InboundRpc(j)
    /\ Goto(j, "parsed")
    /\ \E id \in JobIds : jobId' = [jobId EXCEPT ![j] = id]
    /\ \E c \in {"none", "given"} : cleanup' = [cleanup EXCEPT ![j] = c]
    /\ UNCHANGED <<files, ran, streaming, held>>

\* ... or they do not.
ReceiveInvalid(j) ==
    /\ InboundRpc(j)
    /\ Goto(j, "failed")
    /\ UNCHANGED <<jobId, cleanup, files, ran, streaming, held>>

\* One of the `?` returns before run.sh was started: a filesystem operation,
\* a chmod or the spawn failed.  Nothing is undone.
PrepareFails(j) ==
    /\ Alive
    /\ stage[j] \in {"parsed", "dir", "scripted", "ready"}
    /\ Goto(j, "failed")
    /\ UNCHANGED <<clientVars, jobId, cleanup, files, ran, streaming, held>>

MakeDir(j) ==
    /\ At(j, "parsed")
    /\ Goto(j, "dir")
    /\ files' = [files EXCEPT ![jobId[j]].exists = TRUE]
    /\ UNCHANGED <<clientVars, jobId, cleanup, ran, streaming, held>>

\* Mutant of WriteRun: the path does not hold the job_id.
WriteRunShared(j) ==
    /\ At(j, "dir")
    /\ Dir(j).exists
    /\ Goto(j, IF cleanup[j] = "given" THEN "scripted" ELSE "ready")
    /\ files' = [id \in JobIds |-> [files[id] EXCEPT !.run = j]]
    /\ UNCHANGED <<clientVars, jobId, cleanup, ran, streaming, held>>

WriteRun(j) ==
    /\ At(j, "dir")
    /\ Dir(j).exists
    /\ Goto(j, IF cleanup[j] = "given" THEN "scripted" ELSE "ready")
    /\ files' = [files EXCEPT ![jobId[j]].run = j]
    /\ UNCHANGED <<clientVars, jobId, cleanup, ran, streaming, held>>

WriteCleanup(j) ==
    /\ At(j, "scripted")
    /\ Dir(j).exists
    /\ Goto(j, "ready")
    /\ files' = [files EXCEPT ![jobId[j]].cleanup = j]
    /\ UNCHANGED <<clientVars, jobId, cleanup, ran, streaming, held>>

\* sudo bash run.sh with piped output; two tasks read the pipes.
Spawn(j) ==
    /\ At(j, "ready")
    /\ Goto(j, "running")
    /\ ran' = [ran EXCEPT ![j].run = Dir(j).run]
    /\ streaming' = streaming \cup {j}
    /\ UNCHANGED <<clientVars, jobId, cleanup, files, held>>

\* A stream task reads a line and awaits its publish before the next one.
Publishing(j, s) == \E n \in 1..Lines : pc[Log(j, s, n)] = "publishing"

ReadLine(j, s) ==
    /\ Alive
    /\ j \in streaming
    /\ ~Publishing(j, s)
    /\ \E n \in 1..Lines :
          /\ \A m \in 1..(n - 1) : pc[Log(j, s, m)] = "done"
          /\ PublishStart(Log(j, s, n))
    /\ UNCHANGED jobVars

\* run.sh is reaped and wait() returns Ok, whatever of its output is still
\* unread.  A child it left in the background may hold the pipes open.
ScriptExits(j) ==
    /\ At(j, "running")
    /\ Goto(j, "joining")
    /\ held' \in {held, held \cup {j}}
    /\ UNCHANGED <<clientVars, jobId, cleanup, files, ran, streaming>>

\* ... until that child ends, if it ever does.
BackgroundEnds(j) ==
    /\ Alive
    /\ j \in held
    /\ held' = held \ {j}
    /\ UNCHANGED <<clientVars, stage, jobId, cleanup, files, ran, streaming>>

AfterScript(j) == IF cleanup[j] = "given" THEN "cleanup" ELSE "sweeping"
Quiet(j) == \A s \in Streams : ~Publishing(j, s)

\* Mutant of StreamsJoined: the stream tasks are not joined.
StreamsNotJoined(j) ==
    /\ At(j, "joining")
    /\ Goto(j, AfterScript(j))
    /\ UNCHANGED <<clientVars, jobId, cleanup, files, ran, streaming, held>>

\* join!: both tasks are out of their last publish and read end of file.
StreamsJoined(j) ==
    /\ At(j, "joining")
    /\ Quiet(j)
    /\ j \notin held
    /\ streaming' = streaming \ {j}
    /\ Goto(j, AfterScript(j))
    /\ UNCHANGED <<clientVars, jobId, cleanup, files, ran, held>>

\* wait() itself fails: the handler returns, the stream tasks live on.
WaitFails(j) ==
    /\ At(j, "running")
    /\ Goto(j, "failed")
    /\ UNCHANGED <<clientVars, jobId, cleanup, files, ran, streaming, held>>

\* The detached stream tasks of such a job reach the end of the pipes.
StreamsEnd(j) ==
    /\ Alive
    /\ stage[j] \in {"failed", "returned"}
    /\ j \in streaming
    /\ Quiet(j)
    /\ streaming' = streaming \ {j}
    /\ UNCHANGED <<clientVars, stage, jobId, cleanup, files, ran, held>>

\* cleanup.sh runs to its end, or cannot be spawned; either is only logged.
RunCleanup(j) ==
    /\ At(j, "cleanup")
    /\ Goto(j, "sweeping")
    /\ cleanup' = [cleanup EXCEPT ![j] = "attempted"]
    /\ \/ ran' = [ran EXCEPT ![j].cleanup = Dir(j).cleanup]
       \/ ran' = ran
    /\ UNCHANGED <<clientVars, jobId, files, streaming, held>>

\* remove_dir_all of both directories, errors ignored.
Sweep(j) ==
    /\ At(j, "sweeping")
    /\ Goto(j, "swept")
    /\ \/ files' = [files EXCEPT ![jobId[j]] = NoDir]
       \/ files' = files
    /\ UNCHANGED <<clientVars, jobId, cleanup, ran, streaming, held>>

\* publish() of the done or error event.
Announce(j) ==
    /\ At(j, "swept")
    /\ Goto(j, "ending")
    /\ PublishStart(End(j))
    /\ UNCHANGED <<jobId, cleanup, files, ran, streaming, held>>

\* Mutant of Return: the handler waits until its end event is on the wire.
ReturnWhenDelivered(j) ==
    /\ Alive
    /\ \/ stage[j] = "failed"
       \/ stage[j] = "ending" /\ End(j) \in delivered
    /\ Goto(j, "returned")
    /\ HandlerReplies(j)
    /\ UNCHANGED <<jobId, cleanup, files, ran, streaming, held>>

\* The handler returns, Ok or Err, and its task replies or drops the reply.
Return(j) ==
    /\ Alive
    /\ \/ stage[j] = "failed"
       \/ stage[j] = "ending" /\ pc[End(j)] = "done"
    /\ Goto(j, "returned")
    /\ HandlerReplies(j)
    /\ UNCHANGED <<jobId, cleanup, files, ran, streaming, held>>

\* What the client does with a message that waits for its lock or channel.
ClientSend ==
    /\ Alive
    /\ \/ \E e \in JobEvents : PublishSend(e)
       \/ \E j \in Jobs : ReplySend(j)
    /\ UNCHANGED jobVars

Connection == (ListenLoop \/ LinkDies) /\ UNCHANGED jobVars

\* listen() returned, the process is gone.
Exited == ~Alive /\ UNCHANGED allVars

JobStep(j) ==
    \/ Receive(j) \/ ReceiveInvalid(j) \/ PrepareFails(j)
    \/ MakeDir(j) \/ WriteRun(j) \/ WriteCleanup(j) \/ Spawn(j)
    \/ ScriptExits(j) \/ WaitFails(j) \/ BackgroundEnds(j)
    \/ StreamsJoined(j) \/ StreamsEnd(j)
    \/ RunCleanup(j) \/ Sweep(j) \/ Announce(j) \/ Return(j)
    \/ \E s \in Streams : ReadLine(j, s)

JobNext == (\E j \in Jobs : JobStep(j)) \/ ClientSend \/ Connection \/ Exited

JobSpec == JobInit /\ [][JobNext]_allVars

-----------------------------------------------------------------------------
(***************************************************************************)
(* Fairness, action by action: the runtime polls every handler and stream  *)
(* task; a script terminates if its output is read, and its cleanup script *)
(* does; the client is as fair as in WampClient.  No failure is ever       *)
(* promised but the one of a write into a directory another job removed,   *)
(* and a background child need never let go of the pipes.                  *)
(***************************************************************************)
DirGone(j) == stage[j] \in {"dir", "scripted"} /\ ~Dir(j).exists

HandlerFairness(j) ==
    /\ WF_allVars(MakeDir(j))
    /\ WF_allVars(WriteRun(j))
    /\ WF_allVars(WriteCleanup(j))
    /\ WF_allVars(DirGone(j) /\ PrepareFails(j))
    /\ WF_allVars(Spawn(j))
    /\ WF_allVars(Quiet(j) /\ ScriptExits(j))
    /\ WF_allVars(StreamsJoined(j))
    /\ WF_allVars(RunCleanup(j))
    /\ WF_allVars(Sweep(j))
    /\ WF_allVars(Announce(j))
    /\ WF_allVars(Return(j))

JobFairness ==
    /\ \A j \in Jobs : HandlerFairness(j)
    /\ \A e \in JobEvents : WF_allVars(PublishSend(e) /\ Alive /\ UNCHANGED jobVars)
    /\ \A j \in Jobs : WF_allVars(ReplySend(j) /\ Alive /\ UNCHANGED jobVars)
    /\ WF_allVars(LoopTop /\ UNCHANGED jobVars)
    /\ WF_allVars(ShutdownSeen /\ UNCHANGED jobVars)
    /\ WF_allVars(CloseDone /\ UNCHANGED jobVars)
    /\ WF_allVars(BackoffEnds /\ UNCHANGED jobVars)
    /\ WF_allVars(PingTick /\ UNCHANGED jobVars)
    /\ WF_allVars(PongTimeout /\ UNCHANGED jobVars)
    /\ WF_allVars(WriteEnds /\ UNCHANGED jobVars)
    /\ SF_allVars(ConnectOk /\ UNCHANGED jobVars)
    /\ SF_allVars(OutboundTake /\ UNCHANGED jobVars)

JobFairSpec == JobSpec /\ JobFairness

-----------------------------------------------------------------------------
(***************************************************************************)
(* Properties.                                                             *)
(***************************************************************************)
DistinctJob(j) == \A k \in Jobs \ {j} : jobId[k] # jobId[j]

\* A job whose job_id no other job on the device shares executes its own
\* run.sh and its own cleanup.sh: the shared /tmp/{job_id} directory is never
\* rewritten or removed under it.
RunsOwnScripts ==
    \A j \in Jobs :
        DistinctJob(j) =>
            /\ stage[j] \in {"running", "joining", "cleanup", "sweeping"}
                 => ran[j].run = j
            /\ ran[j].cleanup \in {j, NoJob}

\* The executor closes the caller's stream on the terminal event, so nothing
\* of the job may follow it: once the end event reached the broker no log
\* line does, and once the reply did no end event does, whatever the order
\* in which tasks got the publish lock and whatever was lost in between.
StreamOrder ==
    [][\A j \in Jobs :
          /\ End(j) \in delivered => delivered' \cap Logs(j) \subseteq delivered
          /\ j \in delivered /\ End(j) \in delivered' => End(j) \in delivered]_allVars

\* A handler that took a request returns, unless the process goes first or a
\* background child of run.sh keeps the pipes open: neither a full channel
\* nor a lost connection holds a job for ever, in join! on its stream tasks
\* no more than in its own publish.
JobsReturn ==
    \A j \in Jobs :
        (stage[j] # "none") ~> (stage[j] = "returned" \/ j \in held \/ ~Alive)

(***************************************************************************)
(* What a comment says and the code does not keep.                         *)
(***************************************************************************)

\* start.rs l. 338: the end event is published first "so the executor's event
\* subscriber receives "done"/"error" [...] before the call() resolves".
EndBeforeReply ==
    \A j \in Jobs :
        j \in delivered /\ pc[End(j)] = "done" => End(j) \in delivered

=============================================================================
