-------------------------- MODULE WampClientProofs --------------------------
(***************************************************************************)
(* Proofs about WampClient, for every number of calls, publishes, RPCs and *)
(* correlation ids, and every channel capacity, and the proof that it      *)
(* implements CallPromise.                                                 *)
(***************************************************************************)
EXTENDS WampRefinement, TLAPS

\* Releasing the lock keeps the queue of the publish mutex a sequence of
\* tasks, and the head of a non-empty queue is one of them.
LEMMA TailOfTasks ==
    ASSUME NEW s \in Seq(Tasks), s # <<>>
    PROVE  Tail(s) \in Seq(Tasks) /\ Len(Tail(s)) = Len(s) - 1 /\ Head(s) \in Tasks
OBVIOUS

LEMMA AppendOfTasks ==
    ASSUME NEW s \in Seq(Tasks), NEW t \in Tasks
    PROVE  Append(s, t) \in Seq(Tasks) /\ Len(Append(s, t)) = Len(s) + 1
OBVIOUS

\* Taking a pending entry leaves every oneshot in one of its four states.
LEMMA TakeEntryType ==
    ASSUME TypeOK, NEW id, NEW v \in {"ok", "err", "dropped"}
    PROVE  TakeEntry(id, v) \in [Calls -> {"empty", "ok", "err", "dropped"}]
BY DEF TypeOK, TakeEntry

\* The reconnect counter stays below its cap.
LEMMA AttemptType ==
    ASSUME TypeOK
    PROVE  OneMoreAttempt \in 0..BackoffCap
BY WampAssumption DEF TypeOK, OneMoreAttempt

\* The listen task only moves itself, the link and the outbound channel.
LEMMA ListenTypes ==
    ASSUME TypeOK, ListenStep
    PROVE  TypeOK'
<1> USE DEF TypeOK, Phases, taskVars, callVars, Serving, Receiving, Reconnect
<1>0. OneMoreAttempt \in 0..BackoffCap /\ 0 \in 0..BackoffCap
  BY AttemptType, WampAssumption
<1>1. CASE ListenStart \/ Signal \/ LoopTop \/ BackoffEnds
  BY <1>1 DEF ListenStart, Signal, LoopTop, BackoffEnds
<1>2. CASE ConnectOk \/ ConnectFails \/ ShutdownSeen \/ CloseDone
  BY <1>0, <1>2 DEF ConnectOk, ConnectFails, ShutdownSeen, CloseDone
<1>3. CASE PingTick \/ PongTimeout \/ Pong \/ StreamEnds
  BY <1>0, <1>3 DEF PingTick, PongTimeout, Pong, StreamEnds
<1>4. CASE OutboundTake
  <2>1. outq' \in Seq(Tasks) /\ Len(outq') = Len(outq) - 1 /\ Head(outq) \in Tasks
    BY <1>4, TailOfTasks DEF OutboundTake
  <2>2. Len(outq') <= ChannelCapacity
    BY <2>1, WampAssumption
  <2> QED
    BY <1>0, <1>4, <2>1, <2>2 DEF OutboundTake
<1>w. CASE WriteEnds
  BY <1>0, <1>w DEF WriteEnds, PingWritten, OutboundWritten, RefusalWritten
<1>5. ASSUME NEW c \in Calls, InboundReply(c)
      PROVE  TypeOK'
  <2>1. answer[c] \in {"ok", "err", "dropped"}
    BY <1>5 DEF InboundReply
  <2>2. slot' \in [Calls -> {"empty", "ok", "err", "dropped"}]
    BY <1>5, <2>1, TakeEntryType DEF InboundReply
  <2> QED
    BY <1>5, <2>2 DEF InboundReply, listenVars
<1>6. ASSUME NEW r \in Rpcs, InboundUnknown(r) \/ InboundRpc(r)
      PROVE  TypeOK'
  <2>1. CASE InboundUnknown(r)
    <3>1. hand' \subseteq Tasks
      BY <2>1 DEF InboundUnknown, Tasks
    <3>2. pc' \in [Tasks -> {"idle", "running", "publishing", "awaiting", "done"}]
          /\ result' \in [Tasks -> Results]
      BY <2>1 DEF InboundUnknown, Finish, Tasks, Results
    <3>3. phase' \in Phases
      BY <2>1 DEF InboundUnknown
    <3> QED
      BY <2>1, <3>1, <3>2, <3>3 DEF InboundUnknown
  <2>2. CASE InboundRpc(r)
    BY <2>2 DEF InboundRpc, Tasks, listenVars
  <2> QED
    BY <1>6, <2>1, <2>2
<1> QED
  BY <1>1, <1>2, <1>3, <1>4, <1>w, <1>5, <1>6 DEF ListenStep, ListenLoop
\* The lock is passed on and the channel grows only while it has room.
LEMMA EnqueueTypes ==
    ASSUME TypeOK, NEW t \in Tasks, Enqueue(t) \/ EnqueueFails(t)
    PROVE  /\ lockQ' \in Seq(Tasks)
           /\ outq' \in Seq(Tasks)
           /\ Len(outq') <= ChannelCapacity
<1>1. lockQ # <<>> /\ lockQ' = Tail(lockQ)
  BY DEF Enqueue, EnqueueFails, Holds
<1>2. lockQ' \in Seq(Tasks)
  BY <1>1, TailOfTasks DEF TypeOK
<1>3. CASE Enqueue(t)
  <2>1. outq' = Append(outq, t) /\ Len(outq) < ChannelCapacity
    BY <1>3 DEF Enqueue
  <2>2. outq' \in Seq(Tasks) /\ Len(outq') = Len(outq) + 1
    BY <2>1, AppendOfTasks DEF TypeOK
  <2>3. Len(outq) \in Nat
    BY DEF TypeOK
  <2> QED
    BY <1>2, <2>1, <2>2, <2>3, WampAssumption
<1>4. CASE EnqueueFails(t)
  BY <1>2, <1>4 DEF EnqueueFails, TypeOK
<1> QED
  BY <1>3, <1>4

LEMMA CallTypes ==
    ASSUME TypeOK, NEW c \in Calls, CallStep(c)
    PROVE  TypeOK'
<1> USE DEF listenVars, callVars
<1>0. c \in Tasks
  BY DEF Tasks
<1>1. CASE CallStart(c)
  <2> PICK id \in CorrIds :
         /\ corr' = [corr EXCEPT ![c] = id]
         /\ pending' = [pending EXCEPT ![id] = c]
         /\ slot' = TakeEntry(id, "dropped")
    BY <1>1 DEF CallStart
  <2>1. slot' \in [Calls -> {"empty", "ok", "err", "dropped"}]
    BY TakeEntryType
  <2>2. lockQ' \in Seq(Tasks)
    BY <1>0, <1>1, AppendOfTasks DEF CallStart, TypeOK
  <2>3. corr' \in [Calls -> CorrIds \cup {NoId}]
        /\ pending' \in [CorrIds -> Calls \cup {NoCall}]
    BY DEF TypeOK
  <2>4. pc' \in [Tasks -> {"idle", "running", "publishing", "awaiting", "done"}]
    BY <1>1 DEF CallStart, TypeOK
  <2> QED
    BY <1>1, <2>1, <2>2, <2>3, <2>4 DEF CallStart, TypeOK
<1>2. CASE CallPublish(c)
  <2>1. lockQ' \in Seq(Tasks) /\ outq' \in Seq(Tasks) /\ Len(outq') <= ChannelCapacity
    BY <1>0, <1>2, EnqueueTypes DEF CallPublish
  <2> QED
    BY <1>2, <2>1 DEF CallPublish, TypeOK
<1>3. CASE CallPublishFails(c)
  <2>1. lockQ' \in Seq(Tasks) /\ outq' \in Seq(Tasks) /\ Len(outq') <= ChannelCapacity
    BY <1>0, <1>3, EnqueueTypes DEF CallPublishFails
  <2> QED
    BY <1>3, <2>1 DEF CallPublishFails, Finish, SendError, Results, TypeOK
<1>4. CASE CallReturns(c)
  BY <1>4 DEF CallReturns, Finish, Results, TypeOK
<1>5. CASE CallTimeout(c)
  <2>1. slot' \in [Calls -> {"empty", "ok", "err", "dropped"}]
    BY <1>5, TakeEntryType DEF CallTimeout
  <2> QED
    BY <1>5, <2>1 DEF CallTimeout, Finish, Results, TypeOK
<1> QED
  BY <1>1, <1>2, <1>3, <1>4, <1>5 DEF CallStep

LEMMA PublishTypes ==
    ASSUME TypeOK, NEW p \in Publishes, PublishStep(p)
    PROVE  TypeOK'
<1> USE DEF listenVars, callVars
<1>0. p \in Tasks
  BY DEF Tasks
<1>1. CASE PublishStart(p)
  <2>1. lockQ' \in Seq(Tasks)
    BY <1>0, <1>1, AppendOfTasks DEF PublishStart, TypeOK
  <2> QED
    BY <1>1, <2>1 DEF PublishStart, TypeOK
<1>2. CASE PublishSend(p) \/ PublishFails(p)
  <2>1. lockQ' \in Seq(Tasks) /\ outq' \in Seq(Tasks) /\ Len(outq') <= ChannelCapacity
    BY <1>0, <1>2, EnqueueTypes DEF PublishSend, PublishFails
  <2> QED
    BY <1>2, <2>1 DEF PublishSend, PublishFails, Finish, SendError, Results, TypeOK
<1> QED
  BY <1>1, <1>2 DEF PublishStep

LEMMA HandlerTypes ==
    ASSUME TypeOK, NEW r \in Rpcs, HandlerStep(r)
    PROVE  TypeOK'
<1> USE DEF listenVars, callVars
<1>0. r \in Tasks
  BY DEF Tasks
<1>1. CASE HandlerReplies(r)
  <2>1. <<r>> \in Seq(Tasks)
    BY <1>0
  <2> QED
    BY <1>1, <2>1 DEF HandlerReplies, Finish, Results, TypeOK
<1>2. CASE HandlerEndsSilently(r)
  BY <1>2 DEF HandlerEndsSilently, Finish, Results, TypeOK
<1>3. CASE ReplySend(r) \/ ReplySendFails(r)
  <2>1. lockQ' \in Seq(Tasks) /\ outq' \in Seq(Tasks) /\ Len(outq') <= ChannelCapacity
    BY <1>0, <1>3, EnqueueTypes DEF ReplySend, ReplySendFails
  <2> QED
    BY <1>3, <2>1 DEF ReplySend, ReplySendFails, Finish, Results, TypeOK
<1> QED
  BY <1>1, <1>2, <1>3 DEF HandlerStep

LEMMA EnvTypes ==
    ASSUME TypeOK, EnvStep
    PROVE  TypeOK'
BY DEF EnvStep, LinkDies, Answer, taskVars, listenVars, callVars, TypeOK

LEMMA InitTypes == Init => TypeOK
<1> SUFFICES ASSUME Init
             PROVE  TypeOK
  OBVIOUS
<1>1. 0 \in 0..BackoffCap /\ 0 <= ChannelCapacity
  BY WampAssumption
<1>2. <<>> \in Seq(Tasks) /\ Len(<<>>) = 0
  OBVIOUS
<1> QED
  BY <1>1, <1>2 DEF Init, TypeOK, Phases, Results

LEMMA StepTypes == TypeOK /\ [Next]_vars => TypeOK'
<1> SUFFICES ASSUME TypeOK, [Next]_vars
             PROVE  TypeOK'
  OBVIOUS
<1>1. CASE UNCHANGED vars
  BY <1>1 DEF vars, TypeOK
<1>2. CASE Finished
  BY <1>1, <1>2 DEF Finished
<1> QED
  BY <1>1, <1>2, CallTypes, PublishTypes, HandlerTypes, ListenTypes, EnvTypes
     DEF Next

\* Every state of the client is well-typed; in particular the outbound
\* channel never holds more than its capacity, whoever sends into it.
THEOREM TypeCorrect == Spec => []TypeOK
BY InitTypes, StepTypes, PTL DEF Spec
-----------------------------------------------------------------------------
(***************************************************************************)
(* Who is resolved by what: the pending map, the oneshots and the replies. *)
(***************************************************************************)

\* Nothing enters the channel by taking its head, and only t by appending t.
LEMMA TailElements ==
    ASSUME NEW s \in Seq(Tasks), s # <<>>, NEW i \in 1..Len(Tail(s))
    PROVE  i + 1 \in 1..Len(s) /\ Tail(s)[i] = s[i + 1]
OBVIOUS

LEMMA AppendElements ==
    ASSUME NEW s \in Seq(Tasks), NEW t \in Tasks, NEW i \in 1..Len(Append(s, t))
    PROVE  \/ i \in 1..Len(s) /\ Append(s, t)[i] = s[i]
           \/ Append(s, t)[i] = t
OBVIOUS

LEMMA HeadQueued ==
    ASSUME TypeOK, outq # <<>>
    PROVE  InQueue(Head(outq))
<1>1. 1 \in 1..Len(outq) /\ Head(outq) = outq[1]
  BY DEF TypeOK
<1> QED
  BY <1>1 DEF InQueue

LEMMA DequeueKeeps ==
    ASSUME TypeOK, outq # <<>>, outq' = Tail(outq), hand' = {Head(outq)},
           NEW t, InQueue(t)'
    PROVE  InQueue(t)
<1>1. CASE t \in hand'
  BY <1>1, HeadQueued
<1>2. CASE t \notin hand'
  <2> PICK i \in 1..Len(outq') : outq'[i] = t
    BY <1>2 DEF InQueue
  <2> QED
    BY TailElements DEF TypeOK, InQueue
<1> QED
  BY <1>1, <1>2

LEMMA EnqueueAdds ==
    ASSUME TypeOK, NEW t \in Tasks, Enqueue(t), hand' = hand, NEW u, InQueue(u)'
    PROVE  InQueue(u) \/ u = t
<1>1. CASE u \in hand'
  BY <1>1 DEF InQueue
<1>2. CASE u \notin hand'
  <2> PICK i \in 1..Len(outq') : outq'[i] = u
    BY <1>2 DEF InQueue
  <2>1. outq' = Append(outq, t)
    BY DEF Enqueue
  <2> QED
    BY <2>1, AppendElements DEF TypeOK, InQueue
<1> QED
  BY <1>1, <1>2

\* A step that leaves every call, its id, entry, oneshot and answer alone
\* keeps the invariant, provided it delivers and queues nothing new of calls.
LEMMA CallFrame ==
    ASSUME TypeOK, CallInv,
           UNCHANGED <<corr, pending, slot, answer>>,
           \A c \in Calls : pc'[c] = pc[c] /\ result'[c] = result[c],
           \A c \in Calls : InQueue(c)' => InQueue(c),
           \A c \in Calls : c \in delivered' => c \in delivered \/ InQueue(c)
    PROVE  CallInv'
<1> USE DEF CallInv, InCall, DistinctId
<1>1. WaiterIsRegistered' /\ OwnReply'
  BY DEF WaiterIsRegistered, OwnReply
<1>2. LeaksOnlyOnSendError'
  <2>1. ASSUME NEW id \in CorrIds, pending[id] # NoCall
        PROVE  pending[id] \in Calls
    BY <2>1 DEF TypeOK
  <2> QED
    BY <2>1 DEF LeaksOnlyOnSendError
<1>3. ASSUME NEW c \in Calls
      PROVE  (Untouched(c) /\ Begun(c) /\ FinishedOnce(c) /\ OwnSlot(c))'
  BY <1>3 DEF Untouched, Begun, FinishedOnce, OwnSlot
<1> QED
  BY <1>1, <1>2, <1>3
\* What an entry of the pending map says about its call.
LEMMA EntryFacts ==
    ASSUME TypeOK, CallInv, NEW id \in CorrIds, pending[id] # NoCall
    PROVE  /\ pending[id] \in Calls
           /\ corr[pending[id]] = id
           /\ slot[pending[id]] = "empty"
           /\ InCall(pending[id]) \/ result[pending[id]] \in {"not_connected", "closed"}
BY DEF CallInv, LeaksOnlyOnSendError, TypeOK

\* The same facts of the next state, one entry at a time.
LEMMA EntriesAfter ==
    ASSUME TypeOK',
           \A j \in CorrIds : \A d \in Calls : pending'[j] = d =>
               /\ corr'[d] = j
               /\ slot'[d] = "empty"
               /\ InCall(d)' \/ result'[d] \in {"not_connected", "closed"}
    PROVE  LeaksOnlyOnSendError'
BY DEF LeaksOnlyOnSendError, TypeOK

\* A call that begins replaces at most one entry, and that entry's call is
\* told at once: its oneshot reads "dropped" and its id is no longer its own.
LEMMA StartKeeps ==
    ASSUME TypeOK, TypeOK', CallInv, NEW c \in Calls, CallStart(c)
    PROVE  CallInv'
<1> PICK id \in CorrIds :
       /\ corr' = [corr EXCEPT ![c] = id]
       /\ pending' = [pending EXCEPT ![id] = c]
       /\ slot' = TakeEntry(id, "dropped")
  BY DEF CallStart
<1>0. /\ c \in Tasks /\ id # NoId /\ NoCall \notin Calls
      /\ pc[c] = "idle" /\ pc' = [pc EXCEPT ![c] = "publishing"]
      /\ UNCHANGED <<outq, hand, delivered, result, answer>>
  BY WampAssumption DEF CallStart, listenVars, Tasks
<1>1. corr[c] = NoId /\ slot[c] = "empty" /\ result[c] = "none"
  BY <1>0 DEF CallInv, Untouched, FinishedOnce
<1>2. pending[id] # c
  BY <1>0, <1>1, EntryFacts
<1>3. /\ corr'[c] = id /\ pc'[c] = "publishing" /\ slot'[c] = "empty"
      /\ \A d \in Calls : d # c => corr'[d] = corr[d] /\ pc'[d] = pc[d]
      /\ \A d \in Calls : slot'[d] = IF d = pending[id] THEN "dropped" ELSE slot[d]
      /\ pending'[id] = c /\ \A j \in CorrIds : j # id => pending'[j] = pending[j]
  BY <1>0, <1>1, <1>2 DEF TypeOK, TakeEntry, Tasks
<1>4. WaiterIsRegistered'
  <2> SUFFICES ASSUME NEW d \in Calls, InCall(d)', slot'[d] = "empty"
               PROVE  pending'[corr'[d]] = d
    BY DEF WaiterIsRegistered
  <2>1. CASE d = c
    BY <1>3, <2>1
  <2>2. CASE d # c
    <3>1. InCall(d) /\ d # pending[id] /\ slot[d] = "empty"
      BY <1>3, <2>2 DEF InCall
    <3>2. pending[corr[d]] = d /\ corr[d] \in CorrIds
      BY <3>1 DEF CallInv, WaiterIsRegistered, Begun, InCall, TypeOK
    <3> QED
      BY <1>3, <2>2, <3>1, <3>2
  <2> QED
    BY <2>1, <2>2
<1>5. LeaksOnlyOnSendError'
  <2> SUFFICES ASSUME NEW j \in CorrIds, NEW d \in Calls, pending'[j] = d
               PROVE  /\ corr'[d] = j
                      /\ slot'[d] = "empty"
                      /\ InCall(d)' \/ result'[d] \in {"not_connected", "closed"}
    BY EntriesAfter
  <2>1. CASE j = id
    BY <1>3, <2>1 DEF InCall
  <2>2. CASE j # id
    <3>1. pending[j] = d /\ d # NoCall
      BY <1>0, <1>3, <2>2
    <3>2. /\ corr[d] = j /\ slot[d] = "empty"
          /\ InCall(d) \/ result[d] \in {"not_connected", "closed"}
      BY <3>1, EntryFacts
    <3>3. d # c
      BY <1>1, <3>2, WampAssumption
    <3>4. pending[id] # d
      BY <2>2, <3>1, <3>2, EntryFacts
    <3> QED
      BY <1>0, <1>3, <3>2, <3>3, <3>4 DEF InCall
  <2> QED
    BY <2>1, <2>2
<1>6. ASSUME NEW d \in Calls
      PROVE  (Untouched(d) /\ Begun(d) /\ FinishedOnce(d))'
  <2>1. CASE d = c
    BY <1>0, <1>1, <1>3, <2>1 DEF Untouched, Begun, FinishedOnce
  <2>2. CASE d # c
    <3>1. pc[d] = "idle" => d # pending[id]
      BY <1>0, EntryFacts DEF CallInv, Untouched
    <3> QED
      BY <1>0, <1>3, <2>2, <3>1
         DEF CallInv, Untouched, Begun, FinishedOnce, InQueue
  <2> QED
    BY <2>1, <2>2
<1>7. ASSUME NEW d \in Calls, DistinctId(d)', corr[d] # NoId
      PROVE  DistinctId(d) /\ d # c /\ d # pending[id]
  <2>1. d # c /\ corr'[d] = corr[d] /\ corr'[d] # id
    BY <1>1, <1>3, <1>7 DEF DistinctId
  <2>2. d # pending[id]
    BY <1>0, <2>1, EntryFacts
  <2>3. ASSUME NEW e \in Calls \ {d}
        PROVE  corr[e] # corr[d]
    BY <1>1, <1>3, <1>7, <2>1, <2>3 DEF DistinctId
  <2> QED
    BY <2>1, <2>2, <2>3 DEF DistinctId
<1>8. OwnReply'
  <2> SUFFICES ASSUME NEW d \in Calls, DistinctId(d)'
               PROVE  /\ result'[d] \in {"ok", "err"} => answer'[d] = result'[d]
                      /\ result'[d] # "dropped"
    BY DEF OwnReply
  <2>1. CASE corr[d] = NoId
    <3>1. result[d] = "none"
      BY <2>1 DEF CallInv, Begun, FinishedOnce
    <3> QED
      BY <1>0, <3>1
  <2>2. CASE corr[d] # NoId
    BY <1>0, <1>7, <2>2 DEF CallInv, OwnReply
  <2> QED
    BY <2>1, <2>2
<1>9. ASSUME NEW d \in Calls
      PROVE  OwnSlot(d)'
  <2> SUFFICES ASSUME InCall(d)', DistinctId(d)'
               PROVE  /\ slot'[d] \in {"ok", "err"} => answer'[d] = slot'[d]
                      /\ slot'[d] # "dropped"
    BY DEF OwnSlot
  <2>1. CASE d = c
    BY <1>3, <2>1
  <2>2. CASE d # c
    <3>1. InCall(d) /\ corr[d] # NoId
      BY <1>3, <2>2 DEF CallInv, Begun, InCall
    <3>2. DistinctId(d) /\ d # pending[id]
      BY <1>7, <3>1
    <3> QED
      BY <1>0, <1>3, <3>1, <3>2 DEF CallInv, OwnSlot
  <2> QED
    BY <2>1, <2>2
<1> QED
  BY <1>4, <1>5, <1>6, <1>8, <1>9 DEF CallInv
\* A call that enters the channel, fails to, or returns what its oneshot
\* holds: only its own pc and result move.
LEMMA MoveKeeps ==
    ASSUME TypeOK, TypeOK', CallInv, NEW c \in Calls,
           CallPublish(c) \/ CallPublishFails(c) \/ CallReturns(c)
    PROVE  CallInv'
<1>0. /\ c \in Tasks /\ NoCall \notin Calls
      /\ UNCHANGED <<corr, pending, slot, answer, delivered, hand>>
  BY WampAssumption
     DEF CallPublish, CallPublishFails, CallReturns, callVars, listenVars, Tasks
<1>1. /\ InCall(c) /\ corr[c] # NoId
      /\ \A d \in Calls : d # c => pc'[d] = pc[d] /\ result'[d] = result[d]
      /\ pc'[c] # "idle"
  BY DEF CallPublish, CallPublishFails, CallReturns, Finish, InCall, CallInv,
         Begun, TypeOK, Tasks
<1>2. result[c] = "none"
  BY <1>1 DEF CallInv, FinishedOnce, InCall
<1>3. \/ InCall(c)' /\ result'[c] = "none"
      \/ pc'[c] = "done" /\ result'[c] \in {"not_connected", "closed"}
      \/ pc'[c] = "done" /\ result'[c] = slot[c] /\ slot[c] # "empty"
  <2>1. CASE CallPublish(c)
    BY <1>0, <1>2, <2>1 DEF CallPublish, InCall, TypeOK
  <2>2. CASE CallPublishFails(c)
    BY <1>0, <2>2 DEF CallPublishFails, Finish, SendError, TypeOK
  <2>3. CASE CallReturns(c)
    BY <1>0, <2>3 DEF CallReturns, Finish, TypeOK
  <2> QED
    BY <2>1, <2>2, <2>3
<1>4. ASSUME NEW d \in Calls, InQueue(d)'
      PROVE  InQueue(d) \/ d = c
  <2>1. CASE CallPublish(c)
    BY <1>0, <1>4, <2>1, EnqueueAdds DEF CallPublish
  <2>2. CASE CallPublishFails(c) \/ CallReturns(c)
    BY <1>0, <1>4, <2>2 DEF CallPublishFails, CallReturns, EnqueueFails, InQueue
  <2> QED
    BY <2>1, <2>2
<1>5. WaiterIsRegistered'
  BY <1>0, <1>1 DEF CallInv, WaiterIsRegistered, InCall
<1>6. LeaksOnlyOnSendError'
  <2> SUFFICES ASSUME NEW j \in CorrIds, NEW d \in Calls, pending'[j] = d
               PROVE  /\ corr'[d] = j
                      /\ slot'[d] = "empty"
                      /\ InCall(d)' \/ result'[d] \in {"not_connected", "closed"}
    BY EntriesAfter
  <2>1. /\ corr[d] = j /\ slot[d] = "empty"
        /\ InCall(d) \/ result[d] \in {"not_connected", "closed"}
    BY <1>0, EntryFacts
  <2> QED
    BY <1>0, <1>1, <1>3, <2>1 DEF InCall
<1>7. ASSUME NEW d \in Calls
      PROVE  (Untouched(d) /\ Begun(d) /\ FinishedOnce(d))'
  <2>1. CASE d = c
    BY <1>0, <1>1, <1>3, <2>1 DEF Untouched, Begun, FinishedOnce, InCall
  <2>2. CASE d # c
    BY <1>0, <1>1, <1>4, <2>2 DEF CallInv, Untouched, Begun, FinishedOnce
  <2> QED
    BY <2>1, <2>2
<1>8. OwnReply'
  <2> SUFFICES ASSUME NEW d \in Calls, DistinctId(d)'
               PROVE  /\ result'[d] \in {"ok", "err"} => answer'[d] = result'[d]
                      /\ result'[d] # "dropped"
    BY DEF OwnReply
  <2>0. DistinctId(d)
    BY <1>0 DEF DistinctId
  <2>1. CASE d = c
    BY <1>0, <1>1, <1>3, <2>0, <2>1 DEF CallInv, OwnSlot
  <2>2. CASE d # c
    BY <1>0, <1>1, <2>0, <2>2 DEF CallInv, OwnReply
  <2> QED
    BY <2>1, <2>2
<1>9. ASSUME NEW d \in Calls
      PROVE  OwnSlot(d)'
  BY <1>0, <1>1 DEF CallInv, OwnSlot, InCall, DistinctId
<1> QED
  BY <1>5, <1>6, <1>7, <1>8, <1>9 DEF CallInv

\* The entry under the id of a call that began is taken, by a reply to that
\* call or by its timeout: the call registered there is the one told.
LEMMA TakeKeeps ==
    ASSUME TypeOK, TypeOK', CallInv, NEW c \in Calls,
           InboundReply(c) \/ CallTimeout(c)
    PROVE  CallInv'
<1>0. /\ c \in Tasks /\ NoCall \notin Calls
      /\ pending' = [pending EXCEPT ![corr[c]] = NoCall]
      /\ UNCHANGED <<corr, answer, delivered, outq, hand>>
  BY WampAssumption DEF InboundReply, CallTimeout, listenVars, Tasks
<1>1. corr[c] \in CorrIds
  BY DEF InboundReply, CallTimeout, CallInv, Begun, TypeOK
<1>2. PICK v \in {"ok", "err", "dropped"} :
         /\ slot' = TakeEntry(corr[c], v)
         /\ \/ InboundReply(c) /\ v = answer[c]
            \/ CallTimeout(c) /\ v = "dropped" /\ pending[corr[c]] = c
  <2>1. CASE InboundReply(c)
    BY <2>1 DEF InboundReply, TypeOK
  <2>2. CASE CallTimeout(c)
    BY <2>2 DEF CallTimeout, CallInv, WaiterIsRegistered, InCall
  <2> QED
    BY <2>1, <2>2
<1>3. \A d \in Calls : slot'[d] = IF d = pending[corr[c]] THEN v ELSE slot[d]
  BY <1>2 DEF TakeEntry
<1>4. \A d \in Calls :
         \/ pc'[d] = pc[d] /\ result'[d] = result[d]
         \/ /\ d = c /\ CallTimeout(c) /\ d = pending[corr[c]]
            /\ pc[d] = "awaiting" /\ pc'[d] = "done" /\ result'[d] = "timeout"
  <2>1. CASE InboundReply(c)
    BY <2>1 DEF InboundReply
  <2>2. CASE CallTimeout(c)
    <3>1. pending[corr[c]] = c
      BY <2>2 DEF CallTimeout, CallInv, WaiterIsRegistered, InCall
    <3>2. /\ pc[c] = "awaiting"
          /\ pc' = [pc EXCEPT ![c] = "done"]
          /\ result' = [result EXCEPT ![c] = "timeout"]
      BY <2>2 DEF CallTimeout, Finish
    <3> QED
      BY <1>0, <2>2, <3>1, <3>2 DEF TypeOK, Tasks
  <2> QED
    BY <2>1, <2>2
<1>5. WaiterIsRegistered'
  <2> SUFFICES ASSUME NEW d \in Calls, InCall(d)', slot'[d] = "empty"
               PROVE  pending'[corr'[d]] = d
    BY DEF WaiterIsRegistered
  <2>1. InCall(d) /\ d # pending[corr[c]] /\ slot[d] = "empty"
    BY <1>3, <1>4 DEF InCall
  <2>2. pending[corr[d]] = d /\ corr[d] # corr[c]
    BY <2>1 DEF CallInv, WaiterIsRegistered
  <2>3. corr[d] \in CorrIds
    BY <2>1 DEF CallInv, Begun, InCall, TypeOK
  <2> QED
    BY <1>0, <2>2, <2>3 DEF TypeOK
<1>6. LeaksOnlyOnSendError'
  <2> SUFFICES ASSUME NEW j \in CorrIds, NEW d \in Calls, pending'[j] = d
               PROVE  /\ corr'[d] = j
                      /\ slot'[d] = "empty"
                      /\ InCall(d)' \/ result'[d] \in {"not_connected", "closed"}
    BY EntriesAfter
  <2>1. j # corr[c] /\ pending[j] = d
    BY <1>0, <1>1 DEF TypeOK
  <2>2. /\ corr[d] = j /\ slot[d] = "empty"
        /\ InCall(d) \/ result[d] \in {"not_connected", "closed"}
    BY <1>0, <2>1, EntryFacts
  <2>3. d # pending[corr[c]]
    BY <1>0, <1>1, <2>1, <2>2, EntryFacts
  <2> QED
    BY <1>0, <1>3, <1>4, <2>2, <2>3 DEF InCall
<1>7. ASSUME NEW d \in Calls
      PROVE  (Untouched(d) /\ Begun(d) /\ FinishedOnce(d))'
  <2>1. corr[d] = NoId => d # pending[corr[c]]
    BY <1>0, <1>1, EntryFacts, WampAssumption
  <2> QED
    BY <1>0, <1>3, <1>4, <2>1
       DEF CallInv, Untouched, Begun, FinishedOnce, InQueue
<1>8. OwnReply'
  BY <1>0, <1>4 DEF CallInv, OwnReply, DistinctId
<1>9. ASSUME NEW d \in Calls
      PROVE  OwnSlot(d)'
  <2> SUFFICES ASSUME InCall(d)', DistinctId(d)
               PROVE  /\ slot'[d] \in {"ok", "err"} => answer'[d] = slot'[d]
                      /\ slot'[d] # "dropped"
    BY <1>0 DEF OwnSlot, DistinctId
  <2>1. InCall(d)
    BY <1>4 DEF InCall
  <2>2. CASE d # pending[corr[c]]
    BY <1>0, <1>3, <2>1, <2>2 DEF CallInv, OwnSlot
  <2>3. CASE d = pending[corr[c]]
    <3>1. corr[d] = corr[c]
      BY <1>0, <1>1, <2>3, EntryFacts
    <3>2. d = c
      BY <3>1 DEF DistinctId
    <3>3. InboundReply(c) /\ v = answer[c] /\ answer[c] # "dropped"
      BY <1>2, <1>4, <2>3, <3>2 DEF InCall, TypeOK, CallTimeout, Finish, Tasks
    <3> QED
      BY <1>0, <1>3, <2>3, <3>2, <3>3
  <2> QED
    BY <2>2, <2>3
<1> QED
  BY <1>5, <1>6, <1>7, <1>8, <1>9 DEF CallInv
LEMMA AnswerKeeps ==
    ASSUME TypeOK, TypeOK', CallInv, NEW c \in Calls, Answer(c)
    PROVE  CallInv'
<1>0. /\ answer[c] = "none" /\ c \in delivered
      /\ \A d \in Calls : d # c => answer'[d] = answer[d]
      /\ UNCHANGED <<corr, pending, slot, pc, result, outq, hand, delivered>>
  BY DEF Answer, callVars, listenVars, TypeOK
<1>1. WaiterIsRegistered' /\ LeaksOnlyOnSendError'
  BY <1>0 DEF CallInv, WaiterIsRegistered, LeaksOnlyOnSendError, InCall
<1>2. ASSUME NEW d \in Calls
      PROVE  (Untouched(d) /\ Begun(d) /\ FinishedOnce(d))'
  BY <1>0 DEF CallInv, Untouched, Begun, FinishedOnce, InQueue
<1>3. OwnReply'
  <2> SUFFICES ASSUME NEW d \in Calls, DistinctId(d)
               PROVE  /\ result'[d] \in {"ok", "err"} => answer'[d] = result'[d]
                      /\ result'[d] # "dropped"
    BY <1>0 DEF OwnReply, DistinctId
  <2> QED
    BY <1>0 DEF CallInv, OwnReply
<1>4. ASSUME NEW d \in Calls
      PROVE  OwnSlot(d)'
  BY <1>0 DEF CallInv, OwnSlot, InCall, DistinctId
<1> QED
  BY <1>1, <1>2, <1>3, <1>4 DEF CallInv

LEMMA ListenKeeps ==
    ASSUME TypeOK, TypeOK', CallInv, ListenStep
    PROVE  CallInv'
<1>1. CASE OutboundTake
  <2>1. outq # <<>> /\ outq' = Tail(outq) /\ hand' = {Head(outq)}
    BY <1>1 DEF OutboundTake
  <2>2. UNCHANGED <<corr, pending, slot, answer, pc, result, delivered>>
    BY <1>1 DEF OutboundTake, callVars
  <2>3. \A c \in Calls : InQueue(c)' => InQueue(c)
    BY <2>1, DequeueKeeps
  <2> QED
    BY <2>2, <2>3, CallFrame
<1>w. CASE WriteEnds
  <2>1. UNCHANGED <<corr, pending, slot, answer, pc, result, outq>>
    BY <1>w DEF WriteEnds, PingWritten, OutboundWritten, RefusalWritten,
                taskVars, callVars
  <2>2. hand' \subseteq hand /\ delivered' \subseteq delivered \cup hand
    BY <1>w DEF WriteEnds, PingWritten, OutboundWritten, RefusalWritten, taskVars
  <2> QED
    BY <2>1, <2>2, CallFrame DEF InQueue
<1>2. ASSUME NEW r \in Rpcs, InboundUnknown(r) \/ InboundRpc(r)
      PROVE  CallInv'
  <2>1. /\ r \notin Calls /\ \A c \in Calls : c \in Tasks
        /\ UNCHANGED <<corr, pending, slot, answer, outq, delivered>>
        /\ hand' \subseteq hand \cup {r}
    BY <1>2, WampAssumption DEF InboundUnknown, InboundRpc, callVars, listenVars, Tasks
  <2>2. \A c \in Calls : pc'[c] = pc[c] /\ result'[c] = result[c]
    BY <1>2, <2>1 DEF InboundUnknown, InboundRpc, Finish, TypeOK
  <2> QED
    BY <2>1, <2>2, CallFrame DEF InQueue
<1>3. ASSUME NEW c \in Calls, InboundReply(c)
      PROVE  CallInv'
  BY <1>3, TakeKeeps
<1>4. CASE \/ ListenStart \/ Signal \/ LoopTop \/ BackoffEnds
           \/ ConnectOk \/ ConnectFails \/ ShutdownSeen \/ CloseDone
           \/ PingTick \/ PongTimeout \/ Pong \/ StreamEnds
  <2>1. UNCHANGED <<corr, pending, slot, answer, pc, result, outq, delivered, hand>>
    BY <1>4 DEF ListenStart, Signal, LoopTop, BackoffEnds, ConnectOk,
          ConnectFails, ShutdownSeen, CloseDone, PingTick, PongTimeout, Pong,
          StreamEnds, taskVars, callVars
  <2> QED
    BY <2>1, CallFrame DEF InQueue
<1> QED
  BY <1>1, <1>w, <1>2, <1>3, <1>4 DEF ListenStep, ListenLoop

\* publish() and the reply of a handler queue their own message and touch no
\* call.
LEMMA OthersKeep ==
    ASSUME TypeOK, TypeOK', CallInv, NEW t \in Publishes \cup Rpcs,
           PublishStep(t) \/ HandlerStep(t)
    PROVE  CallInv'
<1>1. t \in Tasks /\ t \notin Calls
  BY WampAssumption DEF Tasks
<1>2. /\ UNCHANGED <<corr, pending, slot, answer, delivered, hand>>
      /\ \A c \in Calls : pc'[c] = pc[c] /\ result'[c] = result[c]
  BY <1>1 DEF PublishStep, PublishStart, PublishSend, PublishFails, HandlerStep,
        HandlerReplies, HandlerEndsSilently, ReplySend, ReplySendFails, Finish,
        callVars, listenVars, TypeOK, Tasks
<1>3. Enqueue(t) \/ outq' = outq
  BY DEF PublishStep, PublishStart, PublishSend, PublishFails, HandlerStep,
        HandlerReplies, HandlerEndsSilently, ReplySend, ReplySendFails,
        EnqueueFails
<1>4. \A c \in Calls : InQueue(c)' => InQueue(c)
  BY <1>1, <1>2, <1>3, EnqueueAdds DEF InQueue
<1> QED
  BY <1>2, <1>4, CallFrame

LEMMA InitCalls == Init => CallInv
BY DEF Init, CallInv, WaiterIsRegistered, LeaksOnlyOnSendError, OwnReply,
       Untouched, Begun, FinishedOnce, OwnSlot, InCall, InQueue, Tasks

LEMMA StepCalls == TypeOK /\ TypeOK' /\ CallInv /\ [Next]_vars => CallInv'
<1> SUFFICES ASSUME TypeOK, TypeOK', CallInv, [Next]_vars
             PROVE  CallInv'
  OBVIOUS
<1>1. CASE UNCHANGED vars
  BY <1>1, CallFrame DEF vars, InQueue
<1>2. ASSUME NEW c \in Calls, CallStep(c)
      PROVE  CallInv'
  BY <1>2, StartKeeps, MoveKeeps, TakeKeeps DEF CallStep
<1>3. CASE EnvStep
  <2>1. ASSUME LinkDies
        PROVE  CallInv'
    BY <2>1, CallFrame DEF LinkDies, taskVars, callVars, InQueue
  <2> QED
    BY <1>3, <2>1, AnswerKeeps DEF EnvStep
<1> QED
  BY <1>1, <1>2, <1>3, ListenKeeps, OthersKeep DEF Next, Finished

LEMMA CallsCorrect == Spec => []CallInv
BY InitTypes, InitCalls, StepTypes, StepCalls, PTL DEF Spec

\* A call in progress without a result in its oneshot is the one registered
\* under its id, so that its reply, or the next call to draw its id, ends it.
THEOREM WaitersAreRegistered == Spec => []WaiterIsRegistered
<1>1. CallInv => WaiterIsRegistered
  BY DEF CallInv
<1> QED
  BY <1>1, CallsCorrect, PTL

\* Only the two error returns of call() before its await leave an entry in
\* the pending map.
THEOREM NoOtherLeaks == Spec => []LeaksOnlyOnSendError
<1>1. CallInv => LeaksOnlyOnSendError
  BY DEF CallInv
<1> QED
  BY <1>1, CallsCorrect, PTL

\* A call whose id is its own returns Ok or Err only as its callee or the
\* broker answered it, and never "reply channel dropped".
THEOREM RepliesAreOwn == Spec => []OwnReply
<1>1. CallInv => OwnReply
  BY DEF CallInv
<1> QED
  BY <1>1, CallsCorrect, PTL
-----------------------------------------------------------------------------
(***************************************************************************)
(* The publish lock is given back on every path.                           *)
(***************************************************************************)

\* A task that lock() or try_lock() puts in the queue of the mutex, where it
\* was not: it is there once, and it is the only newcomer.
LEMMA JoinKeeps ==
    ASSUME TypeOK, LockDiscipline, NEW t \in Tasks, pc[t] # "publishing",
           lockQ' = Append(lockQ, t), pc' = [pc EXCEPT ![t] = "publishing"]
    PROVE  LockDiscipline'
<1>1. /\ lockQ \in Seq(Tasks) /\ Len(lockQ) \in Nat
      /\ Len(lockQ') = Len(lockQ) + 1 /\ lockQ'[Len(lockQ) + 1] = t
      /\ \A i \in 1..Len(lockQ) : lockQ'[i] = lockQ[i]
  BY DEF TypeOK
<1>2. \A i \in 1..Len(lockQ) : lockQ[i] # t
  BY DEF LockDiscipline
<1>3. /\ pc'[t] = "publishing"
      /\ \A u \in Tasks : u # t => pc'[u] = pc[u]
  BY DEF TypeOK
<1>4. \A i \in 1..Len(lockQ') : i \in 1..Len(lockQ) \/ i = Len(lockQ) + 1
  BY <1>1
<1>5. \A i \in 1..Len(lockQ) : i \in 1..Len(lockQ')
  BY <1>1
<1>6. ASSUME NEW u \in Tasks
      PROVE  pc'[u] = "publishing" <=> \E i \in 1..Len(lockQ') : lockQ'[i] = u
  <2>1. CASE u = t
    <3>1. Len(lockQ) + 1 \in 1..Len(lockQ')
      BY <1>1
    <3> QED
      BY <1>1, <1>3, <2>1, <3>1
  <2>2. CASE u # t
    <3>1. pc[u] = "publishing" <=> \E i \in 1..Len(lockQ) : lockQ[i] = u
      BY DEF LockDiscipline
    <3> QED
      BY <1>1, <1>3, <1>4, <1>5, <2>2, <3>1
  <2> QED
    BY <2>1, <2>2
<1>7. ASSUME NEW i \in 1..Len(lockQ'), NEW j \in 1..Len(lockQ'),
             lockQ'[i] = lockQ'[j]
      PROVE  i = j
  <2>1. \A m, n \in 1..Len(lockQ) : lockQ[m] = lockQ[n] => m = n
    BY DEF LockDiscipline
  <2> QED
    BY <1>1, <1>2, <1>4, <1>7, <2>1
<1> QED
  BY <1>6, <1>7 DEF LockDiscipline

\* The holder that unlocks: it was in the queue once, so it is in it no more.
LEMMA LeaveKeeps ==
    ASSUME TypeOK, LockDiscipline, NEW t \in Tasks, Holds(t),
           lockQ' = Tail(lockQ), pc'[t] # "publishing",
           \A u \in Tasks : u # t => pc'[u] = pc[u]
    PROVE  LockDiscipline'
<1>1. /\ lockQ \in Seq(Tasks) /\ Len(lockQ) \in Nat /\ Len(lockQ) >= 1
      /\ Len(lockQ') = Len(lockQ) - 1 /\ lockQ[1] = t
      /\ \A i \in 1..Len(lockQ') : i + 1 \in 1..Len(lockQ) /\ lockQ'[i] = lockQ[i + 1]
  BY DEF TypeOK, Holds
<1>2. \A m, n \in 1..Len(lockQ) : lockQ[m] = lockQ[n] => m = n
  BY DEF LockDiscipline
<1>3. 1 \in 1..Len(lockQ)
  BY <1>1
<1>4. \A i \in 1..Len(lockQ') : lockQ'[i] # t
  BY <1>1, <1>2, <1>3
<1>5. ASSUME NEW u \in Tasks
      PROVE  pc'[u] = "publishing" <=> \E i \in 1..Len(lockQ') : lockQ'[i] = u
  <2>1. CASE u = t
    BY <1>4, <2>1
  <2>2. CASE u # t
    <3>1. pc[u] = "publishing" <=> \E i \in 1..Len(lockQ) : lockQ[i] = u
      BY DEF LockDiscipline
    <3>2. ASSUME NEW i \in 1..Len(lockQ), lockQ[i] = u
          PROVE  \E k \in 1..Len(lockQ') : lockQ'[k] = u
      <4>1. i - 1 \in 1..Len(lockQ')
        BY <1>1, <2>2, <3>2
      <4>2. lockQ'[i - 1] = lockQ[i]
        BY <1>1, <4>1
      <4> QED
        BY <3>2, <4>1, <4>2
    <3> QED
      BY <1>1, <2>2, <3>1, <3>2
  <2> QED
    BY <2>1, <2>2
<1>6. ASSUME NEW i \in 1..Len(lockQ'), NEW j \in 1..Len(lockQ'),
             lockQ'[i] = lockQ'[j]
      PROVE  i = j
  BY <1>1, <1>2, <1>6
<1> QED
  BY <1>5, <1>6 DEF LockDiscipline

\* Whoever moves without entering or leaving a send leaves the queue alone.
LEMMA LockFrame ==
    ASSUME LockDiscipline, lockQ' = lockQ,
           \A t \in Tasks : pc'[t] = "publishing" <=> pc[t] = "publishing"
    PROVE  LockDiscipline'
BY DEF LockDiscipline

\* A call that times out or returns holds no lock; publishing calls leave
\* through Enqueue or EnqueueFails, which unlock.
LEMMA CallLocks ==
    ASSUME TypeOK, LockDiscipline, NEW c \in Calls, CallStep(c)
    PROVE  LockDiscipline'
<1>0. c \in Tasks
  BY DEF Tasks
<1>1. CASE CallStart(c)
  BY <1>0, <1>1, JoinKeeps DEF CallStart
<1>2. CASE CallPublish(c) \/ CallPublishFails(c)
  <2>1. /\ Holds(c) /\ lockQ' = Tail(lockQ) /\ pc'[c] # "publishing"
        /\ \A u \in Tasks : u # c => pc'[u] = pc[u]
    BY <1>0, <1>2 DEF CallPublish, CallPublishFails, Enqueue, EnqueueFails,
                      Finish, TypeOK
  <2> QED
    BY <1>0, <2>1, LeaveKeeps
<1>3. CASE CallReturns(c) \/ CallTimeout(c)
  <2>1. /\ lockQ' = lockQ
        /\ \A t \in Tasks : pc'[t] = "publishing" <=> pc[t] = "publishing"
    BY <1>0, <1>3 DEF CallReturns, CallTimeout, Finish, TypeOK
  <2> QED
    BY <2>1, LockFrame
<1> QED
  BY <1>1, <1>2, <1>3 DEF CallStep

LEMMA OtherLocks ==
    ASSUME TypeOK, LockDiscipline, NEW t \in Publishes \cup Rpcs,
           PublishStep(t) \/ HandlerStep(t)
    PROVE  LockDiscipline'
<1>0. t \in Tasks
  BY DEF Tasks
<1>1. CASE PublishStart(t)
  BY <1>0, <1>1, JoinKeeps DEF PublishStart
<1>2. CASE PublishSend(t) \/ PublishFails(t) \/ ReplySend(t) \/ ReplySendFails(t)
  <2>1. /\ Holds(t) /\ lockQ' = Tail(lockQ) /\ pc'[t] # "publishing"
        /\ \A u \in Tasks : u # t => pc'[u] = pc[u]
    BY <1>0, <1>2 DEF PublishSend, PublishFails, ReplySend, ReplySendFails,
                      Enqueue, EnqueueFails, Finish, TypeOK
  <2> QED
    BY <1>0, <2>1, LeaveKeeps
<1>3. CASE HandlerReplies(t)
  <2>1. CASE LockFree
    <3>1. lockQ' = Append(lockQ, t)
      BY <1>3, <2>1 DEF HandlerReplies, LockFree
    <3> QED
      BY <1>0, <1>3, <2>1, <3>1, JoinKeeps DEF HandlerReplies
  <2>2. CASE ~LockFree
    <3>1. /\ lockQ' = lockQ
          /\ \A u \in Tasks : pc'[u] = "publishing" <=> pc[u] = "publishing"
      BY <1>0, <1>3, <2>2 DEF HandlerReplies, Finish, TypeOK
    <3> QED
      BY <3>1, LockFrame
  <2> QED
    BY <2>1, <2>2
<1>4. CASE HandlerEndsSilently(t)
  <2>1. /\ lockQ' = lockQ
        /\ \A u \in Tasks : pc'[u] = "publishing" <=> pc[u] = "publishing"
    BY <1>0, <1>4 DEF HandlerEndsSilently, Finish, TypeOK
  <2> QED
    BY <2>1, LockFrame
<1> QED
  BY <1>1, <1>2, <1>3, <1>4 DEF PublishStep, HandlerStep

\* The listen task takes no publish lock once it runs, and an inbound event
\* spawns its handler before it holds anything.
LEMMA ListenLocks ==
    ASSUME TypeOK, LockDiscipline, ListenStep \/ EnvStep
    PROVE  LockDiscipline'
<1>1. lockQ' = lockQ
  BY DEF ListenStep, ListenLoop, ListenStart, Signal, LoopTop, BackoffEnds,
         ConnectOk, ConnectFails, ShutdownSeen, CloseDone, PingTick,
         PongTimeout, OutboundTake, WriteEnds, PingWritten,
         OutboundWritten, RefusalWritten, Pong, StreamEnds, InboundReply,
         InboundUnknown, InboundRpc, EnvStep, LinkDies, Answer, taskVars
<1>2. ASSUME NEW r \in Rpcs, InboundUnknown(r) \/ InboundRpc(r), NEW t \in Tasks
      PROVE  pc'[t] = "publishing" <=> pc[t] = "publishing"
  BY <1>2 DEF InboundUnknown, InboundRpc, Finish, Tasks, TypeOK
<1>3. CASE ~\E r \in Rpcs : InboundUnknown(r) \/ InboundRpc(r)
  <2>1. pc' = pc
    BY <1>3 DEF ListenStep, ListenLoop, ListenStart, Signal, LoopTop,
           BackoffEnds, ConnectOk, ConnectFails, ShutdownSeen, CloseDone,
           PingTick, PongTimeout, OutboundTake, WriteEnds, PingWritten,
         OutboundWritten, RefusalWritten, Pong, StreamEnds,
           InboundReply, EnvStep, LinkDies, Answer, taskVars
  <2> QED
    BY <1>1, <2>1, LockFrame
<1> QED
  BY <1>1, <1>2, <1>3, LockFrame

\* The tasks in the queue of the publish mutex are exactly those between
\* lock() or try_lock() and the end of their send, each once: no error path
\* of call(), publish() or a handler keeps the lock.
THEOREM LockIsGivenBack == Spec => []LockDiscipline
<1>1. Init => LockDiscipline
  BY DEF Init, LockDiscipline
<1>2. TypeOK /\ LockDiscipline /\ [Next]_vars => LockDiscipline'
  <2> SUFFICES ASSUME TypeOK, LockDiscipline, [Next]_vars
               PROVE  LockDiscipline'
    OBVIOUS
  <2>1. CASE UNCHANGED vars \/ Finished
    BY <2>1 DEF vars, Finished, LockDiscipline
  <2> QED
    BY <2>1, CallLocks, OtherLocks, ListenLocks DEF Next
<1> QED
  BY <1>1, <1>2, InitTypes, StepTypes, PTL DEF Spec

-----------------------------------------------------------------------------
(***************************************************************************)
(* WampClient implements CallPromise while no two calls draw the same id:  *)
(* initial states map to initial states, and every step maps to a step of  *)
(* the promise or to a stutter.                                            *)
(***************************************************************************)

\* What the caller sees of all calls: the mapped variable `status`.
Seen == [c \in Calls |-> CallStatus(c)]

\* The status of a call, one case at a time.
LEMMA StatusCases ==
    ASSUME NEW c \in Calls
    PROVE  /\ pc[c] = "idle" => CallStatus(c) = "idle"
           /\ InCall(c) => CallStatus(c) = "waiting"
           /\ pc[c] = "done" /\ result[c] \in {"ok", "err"}
                => CallStatus(c) = result[c]
           /\ pc[c] = "done" /\ result[c] \notin {"ok", "err"}
                => CallStatus(c) = "failed"
BY DEF CallStatus, InCall

\* The same, of the next state.
LEMMA StatusCasesAfter ==
    ASSUME NEW c \in Calls
    PROVE  /\ InCall(c)' => CallStatus(c)' = "waiting"
           /\ pc'[c] = "done" /\ result'[c] \in {"ok", "err"}
                => CallStatus(c)' = result'[c]
           /\ pc'[c] = "done" /\ result'[c] \notin {"ok", "err"}
                => CallStatus(c)' = "failed"
BY DEF CallStatus, InCall

\* A call whose own pc and result stay is seen as before.
LEMMA StatusStays ==
    ASSUME NEW c, pc'[c] = pc[c], result'[c] = result[c]
    PROVE  CallStatus(c)' = CallStatus(c)
BY DEF CallStatus, InCall

\* Steps that move no call and answer none stutter.
LEMMA AllStay ==
    ASSUME \A c \in Calls : pc'[c] = pc[c] /\ result'[c] = result[c],
           answer' = answer
    PROVE  UNCHANGED Promise!promiseVars
<1>1. \A c \in Calls : CallStatus(c)' = CallStatus(c)
  BY StatusStays
<1> QED
  BY <1>1 DEF Promise!promiseVars

\* A step of one call changes what is seen of that call only.
LEMMA OneMoves ==
    ASSUME NEW c \in Calls,
           \A d \in Calls : d # c => pc'[d] = pc[d] /\ result'[d] = result[d]
    PROVE  Seen' = [Seen EXCEPT ![c] = CallStatus(c)']
<1>1. \A d \in Calls : d # c => CallStatus(d)' = CallStatus(d)
  BY StatusStays
<1> QED
  BY <1>1 DEF Seen

\* The steps of one call.
LEMMA CallMaps ==
    ASSUME TypeOK, CallInv, IdsDistinct', NEW c \in Calls, CallStep(c)
    PROVE  [Promise!PromiseNext]_(Promise!promiseVars)
<1>0. /\ c \in Tasks /\ \A d \in Calls : d \in Tasks
      /\ answer' = answer
  BY DEF Tasks, CallStep, CallStart, CallPublish, CallPublishFails,
         CallReturns, CallTimeout
<1>1. \A d \in Calls : d # c => pc'[d] = pc[d] /\ result'[d] = result[d]
  BY <1>0 DEF CallStep, CallStart, CallPublish, CallPublishFails,
         CallReturns, CallTimeout, Finish, TypeOK
<1>2. Seen' = [Seen EXCEPT ![c] = CallStatus(c)']
  BY <1>1, OneMoves
<1>3. CASE CallStart(c)
  <2>1. CallStatus(c) = "idle"
    BY <1>3, StatusCases DEF CallStart
  <2>2. InCall(c)'
    BY <1>0, <1>3 DEF CallStart, InCall, TypeOK
  <2>3. CallStatus(c)' = "waiting"
    BY <2>2, StatusCasesAfter
  <2>4. Promise!Begin(c)
    BY <1>0, <1>2, <2>1, <2>3 DEF Promise!Begin, Seen
  <2> QED
    BY <2>4 DEF Promise!PromiseNext
<1>4. CASE CallPublish(c)
  <2>1. InCall(c) /\ InCall(c)'
    BY <1>0, <1>4 DEF CallPublish, InCall, TypeOK
  <2>2. CallStatus(c)' = CallStatus(c)
    BY <2>1, StatusCases, StatusCasesAfter
  <2>3. Seen' = Seen
    BY <1>2, <2>2 DEF Seen
  <2> QED
    BY <1>0, <2>3 DEF Promise!promiseVars, Seen
<1>5. ASSUME InCall(c), pc'[c] = "done", result'[c] \notin {"ok", "err"}
      PROVE  Promise!PromiseNext
  <2>1. CallStatus(c) = "waiting" /\ CallStatus(c)' = "failed"
    BY <1>5, StatusCases, StatusCasesAfter
  <2>2. Promise!GiveUp(c)
    BY <1>0, <1>2, <2>1 DEF Promise!GiveUp, Seen
  <2> QED
    BY <2>2 DEF Promise!PromiseNext
<1>6. CASE CallPublishFails(c) \/ CallTimeout(c)
  <2>1. InCall(c) /\ pc'[c] = "done" /\ result'[c] \notin {"ok", "err"}
    BY <1>0, <1>6 DEF CallPublishFails, CallTimeout, Finish, SendError, InCall,
                      TypeOK
  <2> QED
    BY <1>5, <2>1
<1>7. CASE CallReturns(c)
  <2>1. InCall(c) /\ pc'[c] = "done" /\ result'[c] = slot[c] /\ corr' = corr
    BY <1>0, <1>7 DEF CallReturns, Finish, InCall, TypeOK, callVars
  <2>2. CASE slot[c] \notin {"ok", "err"}
    BY <1>5, <2>1, <2>2
  <2>3. CASE slot[c] \in {"ok", "err"}
    <3>1. corr[c] # NoId
      BY <2>1 DEF CallInv, Begun, InCall
    <3>2. DistinctId(c)
      BY <2>1, <3>1 DEF IdsDistinct, DistinctId
    <3>3. answer[c] = slot[c]
      BY <2>1, <2>3, <3>2 DEF CallInv, OwnSlot
    <3>4. CallStatus(c) = "waiting" /\ CallStatus(c)' = slot[c]
      BY <2>1, <2>3, StatusCases, StatusCasesAfter
    <3>5. Promise!ReturnVerdict(c)
      BY <1>0, <1>2, <2>3, <3>3, <3>4 DEF Promise!ReturnVerdict, Seen
    <3> QED
      BY <3>5 DEF Promise!PromiseNext
  <2> QED
    BY <2>2, <2>3
<1> QED
  BY <1>3, <1>4, <1>6, <1>7 DEF CallStep

\* The callee decides a call that has begun; what the caller sees stays.
LEMMA AnswerMaps ==
    ASSUME TypeOK, CallInv, NEW c \in Calls, Answer(c)
    PROVE  Promise!PromiseNext
<1>1. /\ answer[c] = "none"
      /\ \E v \in {"ok", "err"} : answer' = [answer EXCEPT ![c] = v]
      /\ UNCHANGED <<pc, result>>
  BY DEF Answer
<1>2. Seen' = Seen
  <2>1. \A d \in Calls : CallStatus(d)' = CallStatus(d)
    BY <1>1, StatusStays
  <2> QED
    BY <2>1 DEF Seen
<1>3. CallStatus(c) # "idle"
  <2>1. corr[c] # NoId
    BY DEF Answer, CallInv, Begun
  <2>2. pc[c] # "idle"
    BY <2>1 DEF CallInv, Untouched
  <2> QED
    BY <2>2 DEF CallStatus, InCall, TypeOK
<1>4. Promise!Decide(c)
  BY <1>1, <1>2, <1>3 DEF Promise!Decide, Seen
<1> QED
  BY <1>4 DEF Promise!PromiseNext

\* Everybody else's steps are invisible to the promise.
LEMMA OthersMap ==
    ASSUME TypeOK,
           \/ \E p \in Publishes : PublishStep(p)
           \/ \E r \in Rpcs : HandlerStep(r)
           \/ ListenStep
           \/ LinkDies
           \/ Finished
           \/ UNCHANGED vars
    PROVE  UNCHANGED Promise!promiseVars
<1>0. \A t \in Publishes \cup Rpcs : t \in Tasks /\ t \notin Calls
  BY WampAssumption DEF Tasks
<1>1. \A c \in Calls : c \in Tasks
  BY DEF Tasks
<1>2. ASSUME NEW t \in Publishes \cup Rpcs, PublishStep(t) \/ HandlerStep(t)
      PROVE  UNCHANGED Promise!promiseVars
  <2>1. answer' = answer
    BY <1>2 DEF PublishStep, PublishStart, PublishSend, PublishFails,
          HandlerStep, HandlerReplies, HandlerEndsSilently, ReplySend,
          ReplySendFails
  <2>2. \A c \in Calls : pc'[c] = pc[c] /\ result'[c] = result[c]
    BY <1>0, <1>1, <1>2 DEF PublishStep, PublishStart, PublishSend,
          PublishFails, HandlerStep, HandlerReplies, HandlerEndsSilently,
          ReplySend, ReplySendFails, Finish, TypeOK
  <2> QED
    BY <2>1, <2>2, AllStay
<1>3. ASSUME NEW r \in Rpcs, InboundUnknown(r) \/ InboundRpc(r)
      PROVE  UNCHANGED Promise!promiseVars
  <2>1. answer' = answer
    BY <1>3 DEF InboundUnknown, InboundRpc
  <2>2. \A c \in Calls : pc'[c] = pc[c] /\ result'[c] = result[c]
    BY <1>0, <1>1, <1>3 DEF InboundUnknown, InboundRpc, Finish, TypeOK
  <2> QED
    BY <2>1, <2>2, AllStay
<1>4. CASE ListenLoop \/ LinkDies \/ Finished \/ UNCHANGED vars
           \/ \E c \in Calls : InboundReply(c)
  <2>1. UNCHANGED <<pc, result, answer>>
    BY <1>4 DEF ListenLoop, ListenStart, Signal, LoopTop, BackoffEnds,
          ConnectOk, ConnectFails, ShutdownSeen, CloseDone, PingTick,
          PongTimeout, OutboundTake, WriteEnds, PingWritten,
         OutboundWritten, RefusalWritten, Pong, StreamEnds, LinkDies, Finished,
          InboundReply, taskVars, vars
  <2> QED
    BY <2>1, AllStay
<1> QED
  BY <1>2, <1>3, <1>4 DEF ListenStep

\* Every step of the client is a step of the promise or a stutter.
LEMMA StepMaps ==
    TypeOK /\ CallInv /\ [DistinctNext]_vars
        => [Promise!PromiseNext]_(Promise!promiseVars)
<1> SUFFICES ASSUME TypeOK, CallInv, [DistinctNext]_vars
             PROVE  [Promise!PromiseNext]_(Promise!promiseVars)
  OBVIOUS
<1>1. CASE UNCHANGED vars
  BY <1>1, OthersMap
<1>2. CASE Next /\ IdsDistinct'
  <2>1. ASSUME NEW c \in Calls, CallStep(c)
        PROVE  [Promise!PromiseNext]_(Promise!promiseVars)
    BY <1>2, <2>1, CallMaps
  <2>2. ASSUME NEW c \in Calls, Answer(c)
        PROVE  [Promise!PromiseNext]_(Promise!promiseVars)
    BY <2>2, AnswerMaps
  <2> QED
    BY <1>2, <2>1, <2>2, OthersMap DEF Next, EnvStep
<1> QED
  BY <1>1, <1>2 DEF DistinctNext

\* No call has begun and none is answered.
LEMMA InitMaps == Init => Promise!PromiseInit
<1> SUFFICES ASSUME Init
             PROVE  Promise!PromiseInit
  OBVIOUS
<1>1. \A c \in Calls : pc[c] = "idle"
  BY DEF Init, Tasks
<1>2. \A c \in Calls : CallStatus(c) = "idle"
  BY <1>1, StatusCases
<1> QED
  BY <1>2 DEF Init, Promise!PromiseInit

\* While no two calls read the same millisecond, call() keeps its promise:
\* it returns once, Ok or Err only as its own callee answered, for every
\* number of calls, publishes and inbound RPCs and every channel capacity.
THEOREM PromiseIsKept == DistinctSpec => KeepsPromise
<1>1. [DistinctNext]_vars => [Next]_vars
  BY DEF DistinctNext
<1>2. DistinctSpec => [](TypeOK /\ CallInv)
  BY <1>1, InitTypes, InitCalls, StepTypes, StepCalls, PTL DEF DistinctSpec
<1> QED
  BY <1>2, InitMaps, StepMaps, PTL
     DEF DistinctSpec, KeepsPromise, Promise!PromiseSpec
=============================================================================
