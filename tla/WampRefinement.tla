--------------------------- MODULE WampRefinement ---------------------------
(***************************************************************************)
(* WampClient implements CallPromise as long as no two calls read the same *)
(* millisecond from the clock; when they do, one may return the other's    *)
(* result (WampClient.OwnReply says exactly which calls are safe).         *)
(***************************************************************************)
EXTENDS WampClient

\* No two calls drew the same correlation id.
IdsDistinct ==
    \A c, d \in Calls : c # d /\ corr[c] # NoId => corr[c] # corr[d]

DistinctNext == Next /\ IdsDistinct'
DistinctSpec == Init /\ [][DistinctNext]_vars
DistinctFairSpec ==
    DistinctSpec /\ TaskFairness /\ ListenFairness /\ BrokerReachable

\* What the caller sees: "dropped", "timeout", "not_connected" and "closed"
\* are the Err values call() makes up itself.
CallStatus(c) ==
    CASE pc[c] = "idle" -> "idle"
      [] InCall(c) -> "waiting"
      [] pc[c] = "done" /\ result[c] \in {"ok", "err"} -> result[c]
      [] OTHER -> "failed"

Promise == INSTANCE CallPromise
             WITH status <- [c \in Calls |-> CallStatus(c)],
                  verdict <- answer

\* Under distinct ids every step of the client is a step of the promise or
\* leaves caller and callee as they were: a call returns once, and Ok or Err
\* only as its own callee answered.
KeepsPromise == Promise!PromiseSpec

\* ... and, while the broker stays reachable, every call returns.
KeepsPromiseFairly == Promise!PromiseFairSpec

=============================================================================
