----------------------------- MODULE RpcCommand -----------------------------
(***************************************************************************)
(* rpc (src/src/rpc.rs): a script goes to the executor service, its log    *)
(* lines and its terminal event come back as a stream of server-sent       *)
(* events, in chunks that end anywhere.                                    *)
(*                                                                         *)
(* External: the executor, which passes on the events that the device's    *)
(* execute handler publishes (JobExecution: any of them may be lost).      *)
(***************************************************************************)
EXTENDS Naturals, Sequences

CONSTANTS
    RpcCalls,      \* invocations of the command
    MaxLogs        \* log lines a script prints at most

ASSUME RpcAssumption == MaxLogs \in Nat

VARIABLES
    asking, rpcEnd,  \* where each invocation is, and how it ended
    script,        \* what became of its script
    sent,          \* events in the stream, one line each
    received,      \* half lines of them that arrived
    cut,           \* lines that arrived in two chunks
    printed,       \* log lines it printed: which, and unharmed
    open           \* streams that the executor has not closed

rpcVars == <<asking, rpcEnd, script, sent, received, cut, printed, open>>

\* "doneBadly": a done event with an exit_code other than 0.
EventTypes == {"log", "done", "doneBadly", "error"}
Terminal == EventTypes \ {"log"}

RpcTypeOK ==
    /\ asking \in [RpcCalls -> {"idle", "requested", "streaming", "ended"}]
    /\ rpcEnd \in [RpcCalls -> {"none", "ok", "error"}]
    /\ script \in [RpcCalls -> {"none", "runs", "succeeded", "failed"}]
    /\ sent \in [RpcCalls -> Seq(EventTypes)]
    /\ received \in [RpcCalls -> Nat]
    /\ cut \in [RpcCalls -> SUBSET Nat]
    /\ printed \in [RpcCalls -> Seq([line : Nat, unharmed : BOOLEAN])]
    /\ open \subseteq RpcCalls

RpcInit ==
    /\ asking = [r \in RpcCalls |-> "idle"]
    /\ rpcEnd = [r \in RpcCalls |-> "none"]
    /\ script = [r \in RpcCalls |-> "none"]
    /\ sent = [r \in RpcCalls |-> <<>>]
    /\ received = [r \in RpcCalls |-> 0]
    /\ cut = [r \in RpcCalls |-> {}]
    /\ printed = [r \in RpcCalls |-> <<>>]
    /\ open = {}

Exits(r, how) ==
    /\ asking' = [asking EXCEPT ![r] = "ended"]
    /\ rpcEnd' = [rpcEnd EXCEPT ![r] = how]

\* .envrc, script and cleanup script are read first.
AskExecutor(r) ==
    /\ asking[r] = "idle"
    /\ \/ asking' = [asking EXCEPT ![r] = "requested"] /\ UNCHANGED rpcEnd
       \/ Exits(r, "error")
    /\ UNCHANGED <<script, sent, received, cut, printed, open>>

\* No timeout is set: the answer may take for ever.
ExecutorAnswers(r) ==
    /\ asking[r] = "requested"
    /\ \/ /\ asking' = [asking EXCEPT ![r] = "streaming"] /\ UNCHANGED rpcEnd
          /\ script' = [script EXCEPT ![r] = "runs"]
          /\ open' = open \cup {r}
       \/ Exits(r, "error") /\ UNCHANGED <<script, open>>
    /\ UNCHANGED <<sent, received, cut, printed>>

-----------------------------------------------------------------------------
Put(r, event) == sent' = [sent EXCEPT ![r] = Append(@, event)]

ScriptPrints(r) ==
    /\ script[r] = "runs" /\ r \in open
    /\ Len(sent[r]) < MaxLogs
    /\ Put(r, "log")
    /\ UNCHANGED <<asking, rpcEnd, script, received, cut, printed, open>>

\* What the executor says of a script that ended.
Tells(how) == IF how = "succeeded" THEN {"done"} ELSE {"doneBadly", "error"}

\* The executor passes the end on; the event may be lost.
RpcScriptEnds(r) ==
    /\ script[r] = "runs"
    /\ \E how \in {"succeeded", "failed"} :
          /\ script' = [script EXCEPT ![r] = how]
          /\ \/ r \in open /\ \E event \in Tells(how) : Put(r, event)
             \/ UNCHANGED sent
    /\ UNCHANGED <<asking, rpcEnd, received, cut, printed, open>>

StreamCloses(r) ==
    /\ r \in open
    /\ open' = open \ {r}
    /\ UNCHANGED <<asking, rpcEnd, script, sent, received, cut, printed>>

-----------------------------------------------------------------------------
Breaks(n) == IF n % 2 = 1 THEN {(n + 1) \div 2} ELSE {}

\* from_utf8_lossy() of each chunk: a character in two chunks is replaced.
Prints(r, first, last) ==
    \E harmed \in SUBSET cut[r] :
        printed' = [printed EXCEPT ![r] = @ \o
            [i \in 1 .. last - first |->
                [line |-> first + i, unharmed |-> first + i \notin harmed]]]

\* One chunk, up to half line n.  The lines first + 1 .. whole are taken out of
\* the buffer one by one: printed, up to one of those that end the command,
\* which succeeds on a done event with exit_code 0 only.
Takes(r, n, first, whole, ends) ==
    /\ received' = [received EXCEPT ![r] = n]
    /\ cut' = [cut EXCEPT ![r] = @ \cup Breaks(n)]
    /\ \E last \in first .. whole :
          /\ \A e \in first + 1 .. last : e \notin ends
          /\ Prints(r, first, last)
          /\ \/ last = whole /\ UNCHANGED <<asking, rpcEnd>>
             \/ /\ last < whole /\ last + 1 \in ends
                /\ Exits(r, IF sent[r][last + 1] = "done" THEN "ok" ELSE "error")
    /\ UNCHANGED <<script, sent, open>>

EventsIn(r, events) == {e \in DOMAIN sent[r] : sent[r][e] \in events}

\* Mutant of Chunked: what is left of a chunk is not kept.
ChunkedForgetful(r) ==
    /\ asking[r] = "streaming"
    /\ \E n \in received[r] + 1 .. 2 * Len(sent[r]) :
          Takes(r, n, (received[r] + 1) \div 2, n \div 2, EventsIn(r, Terminal))

\* Mutant of Chunked: an error event is only printed.
ChunkedErrorPrinted(r) ==
    /\ asking[r] = "streaming"
    /\ \E n \in received[r] + 1 .. 2 * Len(sent[r]) :
          Takes(r, n, received[r] \div 2, n \div 2, EventsIn(r, {"done", "doneBadly"}))

\* What a chunk leaves unfinished waits in the buffer for the next one.
Chunked(r) ==
    /\ asking[r] = "streaming"
    /\ \E n \in received[r] + 1 .. 2 * Len(sent[r]) :
          Takes(r, n, received[r] \div 2, n \div 2, EventsIn(r, Terminal))

\* An error of the connection, or its end: an unfinished line is forgotten.
StreamEnds(r) ==
    /\ asking[r] = "streaming" /\ r \notin open
    /\ Exits(r, "error")
    /\ UNCHANGED <<script, sent, received, cut, printed, open>>

RpcClient(r) == AskExecutor(r) \/ Chunked(r) \/ StreamEnds(r)
Executor(r) == ExecutorAnswers(r) \/ ScriptPrints(r) \/ RpcScriptEnds(r) \/ StreamCloses(r)

RpcNext == \E r \in RpcCalls : RpcClient(r) \/ Executor(r)
RpcSpec == RpcInit /\ [][RpcNext]_rpcVars

\* The client runs, scripts end, and the network delivers: what is in the
\* stream arrives, and so does its end.  Without that the client may wait for
\* ever, since it sets no timeout and no keepalive.
RpcFairness ==
    \A r \in RpcCalls : /\ WF_rpcVars(Chunked(r) \/ StreamEnds(r))
                        /\ WF_rpcVars(RpcScriptEnds(r))

-----------------------------------------------------------------------------
\* What is printed is what the executor sent, line by line and in order,
\* whatever chunks it came in, changed only where a chunk ended inside it; and
\* the command succeeds only after the script did and all of it was printed.
RpcIsFaithful ==
    \A r \in RpcCalls :
        /\ \A i \in DOMAIN printed[r] :
              printed[r][i].line = i /\ (printed[r][i].unharmed \/ i \in cut[r])
        /\ rpcEnd[r] = "ok" =>
              script[r] = "succeeded" /\ Len(printed[r]) >= Len(sent[r]) - 1

\* A command that got its stream ends, unless the terminal event was lost and
\* the executor keeps the stream open, as long as the network delivers what the
\* stream holds: nothing in the client gives up otherwise.
RpcEnds ==
    \A r \in RpcCalls :
        (asking[r] = "streaming")
            ~> \/ asking[r] = "ended"
               \/ r \in open /\ script[r] # "runs"
                    /\ \A e \in DOMAIN sent[r] : sent[r][e] = "log"

=============================================================================
