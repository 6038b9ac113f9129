----------------------------- MODULE CallPromise -----------------------------
(***************************************************************************)
(* What call() of src/src/wamp_client.rs promises its caller (l. 391-392,  *)
(* 442-466): a call returns once; it returns Ok or Err(payload) only as    *)
(* its callee answered, and otherwise fails locally (timeout, not          *)
(* connected).  The callee may still answer after the call gave up.        *)
(***************************************************************************)
CONSTANT Calls

VARIABLES
    status,    \* what the caller sees of each call
    verdict    \* what the callee, or the broker for it, answered

promiseVars == <<status, verdict>>

PromiseInit ==
    /\ status = [c \in Calls |-> "idle"]
    /\ verdict = [c \in Calls |-> "none"]

Begin(c) ==
    /\ status[c] = "idle"
    /\ status' = [status EXCEPT ![c] = "waiting"]
    /\ UNCHANGED verdict

Decide(c) ==
    /\ status[c] # "idle"
    /\ verdict[c] = "none"
    /\ \E v \in {"ok", "err"} : verdict' = [verdict EXCEPT ![c] = v]
    /\ UNCHANGED status

ReturnVerdict(c) ==
    /\ status[c] = "waiting"
    /\ verdict[c] # "none"
    /\ status' = [status EXCEPT ![c] = verdict[c]]
    /\ UNCHANGED verdict

GiveUp(c) ==
    /\ status[c] = "waiting"
    /\ status' = [status EXCEPT ![c] = "failed"]
    /\ UNCHANGED verdict

PromiseNext ==
    \E c \in Calls : Begin(c) \/ Decide(c) \/ ReturnVerdict(c) \/ GiveUp(c)

PromiseSpec == PromiseInit /\ [][PromiseNext]_promiseVars

\* A call that began returns.
PromiseFairSpec ==
    /\ PromiseSpec
    /\ \A c \in Calls : WF_promiseVars(ReturnVerdict(c) \/ GiveUp(c))

=============================================================================
