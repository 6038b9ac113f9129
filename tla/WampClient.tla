----------------------------- MODULE WampClient -----------------------------
(***************************************************************************)
(* The WAMP-style websocket client of src/src/wamp_client.rs: one listen   *)
(* task that owns the connection, and any number of tasks that share the   *)
(* client through an Arc and call `call`, `publish`, or run an RPC handler *)
(* that `dispatch_rpc` spawned.                                            *)
(*                                                                         *)
(* A task of this module is one invocation: a call() in Calls, a publish() *)
(* in Publishes, an inbound RPC in Rpcs.  Each puts at most one message in *)
(* the outbound channel, so a task also names its message.                 *)
(*                                                                         *)
(* The broker and the services behind it are the environment: the link may *)
(* die at any moment without the client noticing, a request may never be   *)
(* answered, an answer may arrive late or more than once.                  *)
(***************************************************************************)
EXTENDS Naturals, Sequences

CONSTANTS
    Calls,            \* invocations of call()
    Publishes,        \* invocations of publish()
    Rpcs,             \* RPC events that reach this client
    CorrIds,          \* readings of the millisecond clock: correlation ids
    NoCall, NoId,     \* no entry under an id; no id drawn yet
    ChannelCapacity,  \* capacity of the outbound mpsc channel (32 in the code)
    BackoffCap        \* attempts after which the backoff stops growing (6)

Tasks == Calls \cup Publishes \cup Rpcs

ASSUME WampAssumption ==
    /\ Calls \cap Publishes = {}
    /\ Calls \cap Rpcs = {}
    /\ Publishes \cap Rpcs = {}
    /\ NoCall \notin Calls
    /\ NoId \notin CorrIds
    /\ ChannelCapacity \in Nat \ {0}
    /\ BackoffCap \in Nat \ {0}

VARIABLES
    phase,      \* where the listen task is in its loop
    attempt,    \* failed attempts since the last connection, capped
    shutdown,   \* the signal task has sent `true` on the watch channel
    link,       \* does the websocket really reach the broker?
    waiting,    \* waiting_for_pong (pong_timeout is Some exactly then)
    lockQ,      \* the fair mutex around publish_tx: holder first, then waiters
    outq,       \* the outbound mpsc channel
    hand,       \* the message whose write to the socket has not ended, if any
    delivered,  \* messages that reached the broker
    pc,         \* where each task is
    result,     \* what each finished task returned
    corr,       \* the correlation id of each call
    pending,    \* the pending map: id -> call whose oneshot sender it holds
    slot,       \* the oneshot channel of each call
    answer      \* what the callee (or the broker) answered to each call

listenVars == <<phase, attempt, shutdown, link, waiting, hand>>
callVars   == <<corr, pending, slot>>
vars == <<phase, attempt, shutdown, link, waiting, lockQ, outq, hand,
          delivered, pc, result, corr, pending, slot, answer>>

Phases == {"off", "top", "backoff", "connecting", "connected", "pinging",
           "writing", "refusing", "closing", "stopped"}
Results == {"none", "ok", "err", "dropped", "timeout", "not_connected",
            "closed", "replied", "reply_dropped", "no_reply", "refused"}

TypeOK ==
    /\ phase \in Phases
    /\ attempt \in 0..BackoffCap
    /\ shutdown \in BOOLEAN
    /\ link \in {"up", "dead"}
    /\ waiting \in BOOLEAN
    /\ lockQ \in Seq(Tasks)
    /\ outq \in Seq(Tasks)
    /\ Len(outq) <= ChannelCapacity
    /\ hand \subseteq Tasks
    /\ delivered \subseteq Tasks
    /\ pc \in [Tasks -> {"idle", "running", "publishing", "awaiting", "done"}]
    /\ result \in [Tasks -> Results]
    /\ corr \in [Calls -> CorrIds \cup {NoId}]
    /\ pending \in [CorrIds -> Calls \cup {NoCall}]
    /\ slot \in [Calls -> {"empty", "ok", "err", "dropped"}]
    /\ answer \in [Calls -> {"none", "ok", "err"}]

Init ==
    /\ phase = "off"
    /\ attempt = 0
    /\ shutdown = FALSE
    /\ link = "dead"
    /\ waiting = FALSE
    /\ lockQ = <<>>
    /\ outq = <<>>
    /\ hand = {}
    /\ delivered = {}
    /\ pc = [t \in Tasks |-> "idle"]
    /\ result = [t \in Tasks |-> "none"]
    /\ corr = [c \in Calls |-> NoId]
    /\ pending = [id \in CorrIds |-> NoCall]
    /\ slot = [c \in Calls |-> "empty"]
    /\ answer = [c \in Calls |-> "none"]

-----------------------------------------------------------------------------
(***************************************************************************)
(* Shared pieces.                                                          *)
(***************************************************************************)

\* The tokio mutex is fair: it is handed to the head of its queue, and
\* try_lock succeeds only when nobody holds it or waits for it.
Holds(t) == lockQ # <<>> /\ Head(lockQ) = t
LockFree == lockQ = <<>>

\* publish_tx is Some, and its receiver lives, while listen() runs.
ChannelOpen == phase \notin {"off", "stopped"}

\* Mutant of Enqueue: an unbounded channel.
EnqueueUnbounded(t) ==
    /\ Holds(t)
    /\ ChannelOpen
    /\ outq' = Append(outq, t)
    /\ lockQ' = Tail(lockQ)

\* The holder sends into the channel, waiting while it is full, and unlocks.
Enqueue(t) ==
    /\ Holds(t)
    /\ ChannelOpen
    /\ Len(outq) < ChannelCapacity
    /\ outq' = Append(outq, t)
    /\ lockQ' = Tail(lockQ)

\* Mutant of EnqueueFails: the error path forgets the guard.
EnqueueFailsLocked(t) ==
    /\ Holds(t)
    /\ ~ChannelOpen
    /\ outq' = outq
    /\ lockQ' = lockQ

\* The holder finds publish_tx None, or its send fails because the receiver
\* is gone; the guard is dropped on the way out.
EnqueueFails(t) ==
    /\ Holds(t)
    /\ ~ChannelOpen
    /\ outq' = outq
    /\ lockQ' = Tail(lockQ)

SendError == IF phase = "off" THEN "not_connected" ELSE "closed"

\* The oneshots after the pending entry under id was taken: v is what its
\* sender sent, "dropped" when it was dropped unused.
TakeEntry(id, v) == [c \in Calls |-> IF c = pending[id] THEN v ELSE slot[c]]

Finish(t, r) ==
    /\ pc' = [pc EXCEPT ![t] = "done"]
    /\ result' = [result EXCEPT ![t] = r]

-----------------------------------------------------------------------------
(***************************************************************************)
(* call().                                                                 *)
(***************************************************************************)

\* Mutant of CallStart: an id already in the map keeps its first entry.
CallStartOrInsert(c) ==
    /\ pc[c] = "idle"
    /\ \E id \in CorrIds :
          /\ corr' = [corr EXCEPT ![c] = id]
          /\ pending' = [pending EXCEPT ![id] = IF @ = NoCall THEN c ELSE @]
    /\ pc' = [pc EXCEPT ![c] = "publishing"]
    /\ lockQ' = Append(lockQ, c)
    /\ UNCHANGED <<listenVars, outq, delivered, result, slot, answer>>

\* The id is a reading of the wall clock: nothing keeps two calls from
\* reading the same millisecond, and insert() drops the sender it replaces.
CallStart(c) ==
    /\ pc[c] = "idle"
    /\ \E id \in CorrIds :
          /\ corr' = [corr EXCEPT ![c] = id]
          /\ pending' = [pending EXCEPT ![id] = c]
          /\ slot' = TakeEntry(id, "dropped")
    /\ pc' = [pc EXCEPT ![c] = "publishing"]
    /\ lockQ' = Append(lockQ, c)
    /\ UNCHANGED <<listenVars, outq, delivered, result, answer>>

CallPublish(c) ==
    /\ pc[c] = "publishing"
    /\ Enqueue(c)
    /\ pc' = [pc EXCEPT ![c] = "awaiting"]
    /\ UNCHANGED <<listenVars, delivered, result, callVars, answer>>

\* The two `?` returns: the pending entry stays behind.
CallPublishFails(c) ==
    /\ pc[c] = "publishing"
    /\ EnqueueFails(c)
    /\ Finish(c, SendError)
    /\ UNCHANGED <<listenVars, delivered, callVars, answer>>

\* The oneshot resolved before the 30 s were over.
CallReturns(c) ==
    /\ pc[c] = "awaiting"
    /\ slot[c] # "empty"
    /\ Finish(c, slot[c])
    /\ UNCHANGED <<listenVars, lockQ, outq, delivered, callVars, answer>>

\* Mutant of CallTimeout: the entry is not removed.
CallTimeoutLeaks(c) ==
    /\ pc[c] = "awaiting"
    /\ slot[c] = "empty"
    /\ Finish(c, "timeout")
    /\ UNCHANGED <<listenVars, lockQ, outq, delivered, callVars, answer>>

\* 30 s without a reply: the entry under the call's id is removed.
CallTimeout(c) ==
    /\ pc[c] = "awaiting"
    /\ slot[c] = "empty"
    /\ Finish(c, "timeout")
    /\ pending' = [pending EXCEPT ![corr[c]] = NoCall]
    /\ slot' = TakeEntry(corr[c], "dropped")
    /\ UNCHANGED <<listenVars, lockQ, outq, delivered, corr, answer>>

-----------------------------------------------------------------------------
(***************************************************************************)
(* publish().                                                              *)
(***************************************************************************)

PublishStart(p) ==
    /\ pc[p] = "idle"
    /\ pc' = [pc EXCEPT ![p] = "publishing"]
    /\ lockQ' = Append(lockQ, p)
    /\ UNCHANGED <<listenVars, outq, delivered, result, callVars, answer>>

PublishSend(p) ==
    /\ pc[p] = "publishing"
    /\ Enqueue(p)
    /\ Finish(p, "ok")
    /\ UNCHANGED <<listenVars, delivered, callVars, answer>>

PublishFails(p) ==
    /\ pc[p] = "publishing"
    /\ EnqueueFails(p)
    /\ Finish(p, SendError)
    /\ UNCHANGED <<listenVars, delivered, callVars, answer>>

-----------------------------------------------------------------------------
(***************************************************************************)
(* The task dispatch_rpc() spawns for a registered function.               *)
(***************************************************************************)

\* The handler returns and its request wanted a reply: the reply needs the
\* publish lock, and try_lock() does not wait for it.
HandlerReplies(r) ==
    /\ pc[r] = "running"
    /\ IF LockFree
         THEN /\ pc' = [pc EXCEPT ![r] = "publishing"]
              /\ lockQ' = <<r>>
              /\ result' = result
         ELSE /\ Finish(r, "reply_dropped")
              /\ lockQ' = lockQ
    /\ UNCHANGED <<listenVars, outq, delivered, callVars, answer>>

\* The request came without correlation id or reply_to.
HandlerEndsSilently(r) ==
    /\ pc[r] = "running"
    /\ Finish(r, "no_reply")
    /\ UNCHANGED <<listenVars, lockQ, outq, delivered, callVars, answer>>

ReplySend(r) ==
    /\ pc[r] = "publishing"
    /\ Enqueue(r)
    /\ Finish(r, "replied")
    /\ UNCHANGED <<listenVars, delivered, callVars, answer>>

ReplySendFails(r) ==
    /\ pc[r] = "publishing"
    /\ EnqueueFails(r)
    /\ Finish(r, "reply_dropped")
    /\ UNCHANGED <<listenVars, delivered, callVars, answer>>

-----------------------------------------------------------------------------
(***************************************************************************)
(* listen(): the connection loop.                                          *)
(***************************************************************************)

\* Everything the listen task leaves alone while it only manages the link.
taskVars == <<hand, lockQ, pc, result, callVars, answer>>

ListenStart ==
    /\ phase = "off"
    /\ LockFree
    /\ phase' = "top"
    /\ UNCHANGED <<attempt, shutdown, link, waiting, outq, delivered, taskVars>>

\* SIGTERM or ctrl-c, seen by the task listen() spawned.
Signal ==
    /\ phase \notin {"off", "stopped"}
    /\ shutdown = FALSE
    /\ shutdown' = TRUE
    /\ UNCHANGED <<phase, attempt, link, waiting, outq, delivered, taskVars>>

LoopTop ==
    /\ phase = "top"
    /\ \/ shutdown /\ phase' = "stopped"
       \/ ~shutdown /\ attempt > 0 /\ phase' = "backoff"
       \/ ~shutdown /\ attempt = 0 /\ phase' = "connecting"
    /\ UNCHANGED <<attempt, shutdown, link, waiting, outq, delivered, taskVars>>

BackoffEnds ==
    /\ phase = "backoff"
    /\ \/ phase' = "connecting"
       \/ shutdown /\ phase' = "stopped"
    /\ UNCHANGED <<attempt, shutdown, link, waiting, outq, delivered, taskVars>>

ConnectOk ==
    /\ phase = "connecting"
    /\ phase' = "connected"
    /\ link' = "up"
    /\ attempt' = 0
    /\ UNCHANGED <<shutdown, waiting, outq, delivered, taskVars>>

OneMoreAttempt == IF attempt < BackoffCap THEN attempt + 1 ELSE attempt

\* Refused, or not finished within 15 s.
ConnectFails ==
    /\ phase = "connecting"
    /\ phase' = "top"
    /\ attempt' = OneMoreAttempt
    /\ UNCHANGED <<shutdown, link, waiting, outq, delivered, taskVars>>

\* The inner select is biased: the branches after the shutdown branch run
\* only while no signal was seen.
Serving == phase = "connected" /\ ~shutdown

\* The body of a branch awaits its write to the socket (l. 327, 347, 569):
\* until the write ends no branch of the select is polled.
Inside == phase \in {"connected", "pinging", "writing", "refusing"}

\* `break` out of the inner loop: the stream and its ping state are dropped.
Reconnect ==
    /\ phase' = "top"
    /\ attempt' = OneMoreAttempt
    /\ link' = "dead"
    /\ waiting' = FALSE

ShutdownSeen ==
    /\ phase = "connected"
    /\ shutdown
    /\ phase' = "closing"
    /\ UNCHANGED <<attempt, shutdown, link, waiting, outq, delivered, taskVars>>

\* Mutant of CloseDone: the drain loop ignores stream errors.
CloseDoneOnFrame ==
    /\ phase = "closing"
    /\ link = "up"
    /\ phase' = "stopped"
    /\ link' = "dead"
    /\ waiting' = FALSE
    /\ UNCHANGED <<attempt, shutdown, outq, delivered, taskVars>>

\* The peer's close frame, the end of the stream or an error on it.
CloseDone ==
    /\ phase = "closing"
    /\ phase' = "stopped"
    /\ link' = "dead"
    /\ waiting' = FALSE
    /\ UNCHANGED <<attempt, shutdown, outq, delivered, taskVars>>

\* Ping interval: the pong of the last ping is missing, or the write of the
\* next ping begins.
PingTick ==
    /\ Serving
    /\ IF waiting
         THEN Reconnect
         ELSE /\ phase' = "pinging"
              /\ UNCHANGED <<attempt, link, waiting>>
    /\ UNCHANGED <<shutdown, outq, delivered, taskVars>>

\* Mutant of PingWritten: nothing waits for the pong.
PingWrittenUnarmed ==
    /\ phase = "pinging"
    /\ phase' = "connected"
    /\ UNCHANGED <<attempt, shutdown, link, waiting, outq, delivered, taskVars>>

\* The write of a ping ends; on a dead link it fails, or the socket's buffer
\* takes it.
PingWritten ==
    /\ phase = "pinging"
    /\ \/ /\ phase' = "connected"
          /\ waiting' = TRUE
          /\ UNCHANGED <<attempt, link>>
       \/ /\ link = "dead"
          /\ Reconnect
    /\ UNCHANGED <<shutdown, outq, delivered, taskVars>>

PongTimeout ==
    /\ Serving
    /\ waiting
    /\ Reconnect
    /\ UNCHANGED <<shutdown, outq, delivered, taskVars>>

\* recv(): the message leaves the channel, and its write begins.
OutboundTake ==
    /\ Serving
    /\ outq # <<>>
    /\ outq' = Tail(outq)
    /\ hand' = {Head(outq)}
    /\ phase' = "writing"
    /\ UNCHANGED <<attempt, shutdown, link, waiting, delivered, lockQ, pc,
                   result, callVars, answer>>

\* The write ends.  The message is in no queue any more: on a dead link it is
\* lost whether or not the write reports an error.
OutboundWritten ==
    /\ phase = "writing"
    /\ hand' = {}
    /\ delivered' = IF link = "up" THEN delivered \cup hand ELSE delivered
    /\ \/ /\ phase' = "connected"
          /\ UNCHANGED <<attempt, link, waiting>>
       \/ /\ link = "dead"
          /\ Reconnect
    /\ UNCHANGED <<shutdown, outq, lockQ, pc, result, callVars, answer>>

\* The last branch of the biased select: polled only when recv() is not ready.
Receiving == Serving /\ outq = <<>>

Pong ==
    /\ Receiving
    /\ link = "up"
    /\ waiting
    /\ waiting' = FALSE
    /\ UNCHANGED <<phase, attempt, shutdown, link, outq, delivered, taskVars>>

\* Close frame, stream error or end of stream.
StreamEnds ==
    /\ Receiving
    /\ Reconnect
    /\ UNCHANGED <<shutdown, outq, delivered, taskVars>>

\* Mutant of InboundReply: is_error is not looked at.
InboundReplyAlwaysOk(c) ==
    /\ Receiving
    /\ link = "up"
    /\ answer[c] # "none"
    /\ pending' = [pending EXCEPT ![corr[c]] = NoCall]
    /\ slot' = TakeEntry(corr[c], "ok")
    /\ UNCHANGED <<listenVars, lockQ, outq, delivered, pc, result, corr, answer>>

\* A reply event or a BrokerError for c's id: whichever call is registered
\* under that id gets it; under no entry it is ignored.
InboundReply(c) ==
    /\ Receiving
    /\ link = "up"
    /\ answer[c] # "none"
    /\ pending' = [pending EXCEPT ![corr[c]] = NoCall]
    /\ slot' = TakeEntry(corr[c], answer[c])
    /\ UNCHANGED <<listenVars, lockQ, outq, delivered, pc, result, corr, answer>>

\* An event that names a function nobody registered: refused on the stream,
\* past the channel, if it says where to reply.
InboundUnknown(r) ==
    /\ Receiving
    /\ link = "up"
    /\ pc[r] = "idle"
    /\ \/ /\ Finish(r, "refused")
          /\ phase' = "refusing"
          /\ hand' = {r}
       \/ /\ Finish(r, "no_reply")
          /\ UNCHANGED <<phase, hand>>
    /\ UNCHANGED <<attempt, shutdown, link, waiting, lockQ, outq, delivered,
                   callVars, answer>>

\* The write of the refusal ends; an error is ignored.
RefusalWritten ==
    /\ phase = "refusing"
    /\ phase' = "connected"
    /\ hand' = {}
    /\ delivered' = IF link = "up" THEN delivered \cup hand ELSE delivered
    /\ UNCHANGED <<attempt, shutdown, link, waiting, outq, lockQ, pc, result,
                   callVars, answer>>

\* An event for a registered function: its handler is spawned.
InboundRpc(r) ==
    /\ Receiving
    /\ link = "up"
    /\ pc[r] = "idle"
    /\ pc' = [pc EXCEPT ![r] = "running"]
    /\ UNCHANGED <<listenVars, lockQ, outq, delivered, result, callVars, answer>>

-----------------------------------------------------------------------------
(***************************************************************************)
(* The environment.                                                        *)
(***************************************************************************)

\* The TCP connection goes away; nobody tells the client.
LinkDies ==
    /\ Inside \/ phase = "closing"
    /\ link = "up"
    /\ link' = "dead"
    /\ UNCHANGED <<phase, attempt, shutdown, waiting, outq, delivered, taskVars>>

\* The callee answers a request that reached the broker, or the broker
\* rejects it.
Answer(c) ==
    /\ c \in delivered
    /\ answer[c] = "none"
    /\ \E a \in {"ok", "err"} : answer' = [answer EXCEPT ![c] = a]
    /\ UNCHANGED <<listenVars, lockQ, outq, delivered, pc, result, callVars>>

-----------------------------------------------------------------------------
CallStep(c) ==
    CallStart(c) \/ CallPublish(c) \/ CallPublishFails(c) \/ CallReturns(c)
        \/ CallTimeout(c)

PublishStep(p) == PublishStart(p) \/ PublishSend(p) \/ PublishFails(p)

HandlerStep(r) ==
    HandlerReplies(r) \/ HandlerEndsSilently(r) \/ ReplySend(r)
        \/ ReplySendFails(r)

\* The one write of the listen task that is under way comes to its end.
WriteEnds == PingWritten \/ OutboundWritten \/ RefusalWritten

ListenLoop ==
    \/ ListenStart \/ Signal \/ LoopTop \/ BackoffEnds
    \/ ConnectOk \/ ConnectFails \/ ShutdownSeen \/ CloseDone
    \/ PingTick \/ PongTimeout \/ OutboundTake \/ WriteEnds \/ Pong \/ StreamEnds

ListenStep ==
    \/ ListenLoop
    \/ \E c \in Calls : InboundReply(c)
    \/ \E r \in Rpcs : InboundUnknown(r) \/ InboundRpc(r)

EnvStep == LinkDies \/ \E c \in Calls : Answer(c)

\* listen() returned and nobody is left inside the client.
Finished ==
    /\ phase = "stopped"
    /\ \A t \in Tasks : pc[t] = "done" \/ (t \in Rpcs /\ pc[t] = "idle")
    /\ UNCHANGED vars

Next ==
    \/ \E c \in Calls : CallStep(c)
    \/ \E p \in Publishes : PublishStep(p)
    \/ \E r \in Rpcs : HandlerStep(r)
    \/ ListenStep
    \/ EnvStep
    \/ Finished

Spec == Init /\ [][Next]_vars

(***************************************************************************)
(* Fairness.  Every task is polled by the tokio runtime, every timer fires *)
(* and a select branch that stays ready is taken: weak fairness.  A write  *)
(* to the socket ends: the peer reads on, or TCP gives the connection up.  *)
(* Strong fairness of ConnectOk is the assumption that the broker is not   *)
(* unreachable for ever; of OutboundTake, that recv(), ready at once,      *)
(* wins against the 15 s and 10 s timers in some round.  Nothing else in   *)
(* the code ends a wait for a place in a full channel.  Signals, dead      *)
(* links, inbound traffic and new calls are never promised.                *)
(***************************************************************************)
TaskFairness ==
    /\ \A c \in Calls : /\ WF_vars(CallPublish(c))
                        /\ WF_vars(CallPublishFails(c))
                        /\ WF_vars(CallReturns(c) \/ CallTimeout(c))
    /\ \A p \in Publishes : WF_vars(PublishSend(p)) /\ WF_vars(PublishFails(p))
    /\ \A r \in Rpcs : WF_vars(ReplySend(r)) /\ WF_vars(ReplySendFails(r))

ListenFairness ==
    /\ WF_vars(LoopTop)
    /\ WF_vars(BackoffEnds)
    /\ WF_vars(ShutdownSeen)
    /\ WF_vars(CloseDone)
    /\ WF_vars(PingTick)
    /\ WF_vars(PongTimeout)
    /\ WF_vars(WriteEnds)

BrokerReachable == SF_vars(ConnectOk) /\ SF_vars(OutboundTake)

FairSpec == Spec /\ TaskFairness /\ ListenFairness /\ BrokerReachable

-----------------------------------------------------------------------------
(***************************************************************************)
(* Properties.                                                             *)
(***************************************************************************)
InCall(c) == pc[c] \in {"publishing", "awaiting"}
DistinctId(c) == \A d \in Calls \ {c} : corr[d] # corr[c]

\* A call that is still in progress either has its result in its oneshot or
\* can still be resolved: its own sender is the one registered under its id
\* (insert, remove and the timeout of call(), handle_message), whatever ids
\* other calls drew.
WaiterIsRegistered ==
    \A c \in Calls :
        InCall(c) /\ slot[c] = "empty" => pending[corr[c]] = c

\* An entry of the pending map is filed under its call's own id and belongs
\* to a call that is in progress and unresolved, or to one that left through
\* the two `?` returns of call() with a send error: no other path leaks.
LeaksOnlyOnSendError ==
    \A id \in CorrIds :
        LET c == pending[id] IN
        c # NoCall =>
            /\ corr[c] = id
            /\ slot[c] = "empty"
            /\ InCall(c) \/ result[c] \in {"not_connected", "closed"}

\* A call whose id no other call drew returns Ok or Err exactly as its own
\* callee or the broker answered, late and repeated replies notwithstanding,
\* and never ends with "reply channel dropped".
OwnReply ==
    \A c \in Calls :
        DistinctId(c) =>
            /\ result[c] \in {"ok", "err"} => answer[c] = result[c]
            /\ result[c] # "dropped"

\* The inductive strengthening of the three invariants above: what a call
\* has not begun leaves no trace, a finished one keeps its result, and the
\* value in the oneshot of a call in progress is already its own.
InQueue(t) == t \in hand \/ \E i \in 1..Len(outq) : outq[i] = t
Untouched(c) == pc[c] = "idle" => corr[c] = NoId /\ slot[c] = "empty"
Begun(c) ==
    (pc[c] # "idle" \/ InQueue(c) \/ c \in delivered \/ answer[c] # "none")
        => corr[c] # NoId
FinishedOnce(c) == result[c] # "none" => pc[c] = "done"
OwnSlot(c) ==
    InCall(c) /\ DistinctId(c) =>
        /\ slot[c] \in {"ok", "err"} => answer[c] = slot[c]
        /\ slot[c] # "dropped"

CallInv ==
    /\ WaiterIsRegistered
    /\ LeaksOnlyOnSendError
    /\ OwnReply
    /\ \A c \in Calls : Untouched(c) /\ Begun(c) /\ FinishedOnce(c) /\ OwnSlot(c)

\* Nobody leaves the client while holding the publish lock, and nobody is in
\* its queue twice: the tasks in the queue are exactly those between lock()
\* or try_lock() and the end of their send, on every error path too.
LockDiscipline ==
    /\ \A t \in Tasks :
          pc[t] = "publishing" <=> \E i \in 1..Len(lockQ) : lockQ[i] = t
    /\ \A i, j \in 1..Len(lockQ) : lockQ[i] = lockQ[j] => i = j

\* Whatever dies on the way, every task that asked for the publish lock gets
\* out of the client: a full channel, a lost connection and the shutdown of
\* listen() delay calls, publishes and replies but block none for ever.
TasksReturn == \A t \in Tasks : (pc[t] = "publishing") ~> (pc[t] = "done")

\* A connection that died silently is given up: the ping and pong timers
\* take the client out of the inner loop, though they are not polled while a
\* branch writes to the socket.
DeadLinkNoticed == (Inside /\ link = "dead") ~> ~Inside

\* After SIGTERM listen() returns, whichever await the loop is in.
StopsOnSignal == shutdown ~> (phase = "stopped")

(***************************************************************************)
(* What a comment of wamp_client.rs says and the code does not keep.       *)
(***************************************************************************)

\* listen() "Dispatches incoming RPC calls to registered handlers and sends
\* results back" (l. 218): until it is told to stop, no result is dropped.
ResultsAreSentBack ==
    ~shutdown => \A r \in Rpcs : result[r] # "reply_dropped"

=============================================================================
