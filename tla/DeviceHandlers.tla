--------------------------- MODULE DeviceHandlers ---------------------------
(***************************************************************************)
(* The handlers of `ginger-infra start` besides execute (src/src/start.rs  *)
(* l. 376-758): install_ssl, the cluster and gateway scripts, self_update. *)
(* Each request is a task of the tokio runtime; a task takes a step only   *)
(* on a worker thread, and install_ssl waits for its lock file in flock(), *)
(* which keeps the worker thread.                                          *)
(*                                                                         *)
(* External: certbot, the scripts, the installer, the metadata service.    *)
(***************************************************************************)
EXTENDS Naturals, FiniteSets

CONSTANTS
    Ssl,        \* install_ssl requests
    Domains,    \* their domains
    Scripts,    \* delete_cluster, create_cluster and gateway requests
    Updates,    \* self_update requests
    Workers,    \* worker threads of the runtime
    Nobody

ASSUME DeviceAssumption ==
    /\ Workers \in Nat \ {0}
    /\ IsFiniteSet(Ssl)
    /\ Nobody \notin Ssl

VARIABLES
    pc, result,    \* where each request is, and what it was answered
    domain,        \* of each install_ssl request
    lock,          \* who holds the flock on /tmp/certbot.lock
    certs,         \* domains with a privkey.pem
    issued,        \* history: certificates issued for each domain
    kind,          \* of each script request
    big,           \* pipes it writes more to than a pipe holds
    exitArmed,     \* a self_update will exit the process in 500 ms
    exited

Requests == Ssl \cup Scripts \cup Updates
sslVars == <<domain, lock, certs, issued>>
scriptVars == <<kind, big>>
exitVars == <<exitArmed, exited>>
deviceVars == <<pc, result, sslVars, scriptVars, exitVars>>

Kinds == {"delete_cluster", "create_cluster", "gateway"}
Pipes == {"stdout", "stderr"}
Steps == {"idle", "opening", "locking", "blocked", "certbot", "certbotOk", "certbotFailed",
          "script", "scriptOk", "scriptFailed", "fetching", "installing",
          "installed", "installFailed", "returned"}

DeviceTypeOK ==
    /\ pc \in [Requests -> Steps]
    /\ result \in [Requests -> {"none", "ok", "already", "error"}]
    /\ domain \in [Ssl -> Domains]
    /\ lock \in Ssl \cup {Nobody}
    /\ certs \subseteq Domains
    /\ issued \in [Domains -> Nat]
    /\ kind \in [Scripts -> Kinds]
    /\ big \in [Scripts -> SUBSET Pipes]
    /\ exitArmed \in BOOLEAN
    /\ exited \in BOOLEAN

DeviceInit ==
    /\ pc = [r \in Requests |-> "idle"]
    /\ result = [r \in Requests |-> "none"]
    /\ domain \in [Ssl -> Domains]
    /\ lock = Nobody
    /\ certs = {}
    /\ issued = [d \in Domains |-> 0]
    /\ kind \in [Scripts -> Kinds]
    /\ big \in [Scripts -> SUBSET Pipes]
    /\ exitArmed = FALSE
    /\ exited = FALSE

-----------------------------------------------------------------------------
\* Threads that wait in flock().
Blocked == {s \in Ssl : pc[s] = "blocked"}
Stuck == Cardinality(Blocked) >= Workers
\* Some thread can run a task.
Alive == ~exited /\ ~Stuck

Goto(r, s) == pc' = [pc EXCEPT ![r] = s]
Return(r, v) == Goto(r, "returned") /\ result' = [result EXCEPT ![r] = v]

(***************************************************************************)
(* install_ssl.                                                            *)
(***************************************************************************)

\* Arguments that do not parse, or a certificate that is there already.
SslBegin(s) ==
    /\ Alive /\ pc[s] = "idle"
    /\ \/ Return(s, "error")
       \/ domain[s] \in certs /\ Return(s, "already")
       \/ domain[s] \notin certs /\ Goto(s, "opening") /\ UNCHANGED result
    /\ UNCHANGED <<sslVars, scriptVars, exitVars>>

OpenLock(s) ==
    /\ Alive /\ pc[s] = "opening"
    /\ \/ Goto(s, "locking") /\ UNCHANGED result
       \/ Return(s, "error")
    /\ UNCHANGED <<sslVars, scriptVars, exitVars>>

\* Mutant of Locked: the certificate is not looked for again.
LockedNoRecheck(s) ==
    \/ Goto(s, "certbot") /\ lock' = s /\ UNCHANGED result
    \/ Return(s, "error") /\ UNCHANGED lock

\* With the lock: a call before may have got the certificate; certbot may not
\* start.  Only a running certbot keeps the lock.
Locked(s) ==
    \/ domain[s] \in certs /\ Return(s, "already") /\ UNCHANGED lock
    \/ domain[s] \notin certs /\ Goto(s, "certbot") /\ lock' = s /\ UNCHANGED result
    \/ domain[s] \notin certs /\ Return(s, "error") /\ UNCHANGED lock

\* flock(LOCK_EX) on the task's thread.
Flock(s) ==
    /\ Alive /\ pc[s] = "locking"
    /\ \/ lock = Nobody /\ Locked(s)
       \/ lock # Nobody /\ Goto(s, "blocked") /\ UNCHANGED <<result, lock>>
    /\ UNCHANGED <<domain, certs, issued, scriptVars, exitVars>>

\* The kernel hands the lock to a thread that waits: no other is needed.
FlockReturns(s) ==
    /\ ~exited /\ pc[s] = "blocked"
    /\ lock = Nobody /\ Locked(s)
    /\ UNCHANGED <<domain, certs, issued, scriptVars, exitVars>>

\* certbot exits, with a certificate or without: its exit status does not tell.
CertbotEnds(s) ==
    /\ pc[s] = "certbot"
    /\ Goto(s, "certbotOk") \/ Goto(s, "certbotFailed")
    /\ \/ UNCHANGED <<certs, issued>>
       \/ /\ certs' = certs \cup {domain[s]}
          /\ issued' = [issued EXCEPT ![domain[s]] = @ + 1]
    /\ UNCHANGED <<result, domain, lock, scriptVars, exitVars>>

\* The answer follows certbot's exit status; output() itself may fail.
SslResult(s) ==
    \/ pc[s] = "certbotOk" /\ Return(s, "ok")
    \/ pc[s] \in {"certbotOk", "certbotFailed"} /\ Return(s, "error")

\* Mutant of SslEnds: no LOCK_UN where certbot failed.
SslEndsKeepsLock(s) ==
    /\ Alive /\ SslResult(s)
    /\ lock' = IF pc[s] = "certbotOk" THEN Nobody ELSE lock
    /\ UNCHANGED <<domain, certs, issued, scriptVars, exitVars>>

SslEnds(s) ==
    /\ Alive /\ SslResult(s)
    /\ lock' = Nobody
    /\ UNCHANGED <<domain, certs, issued, scriptVars, exitVars>>

-----------------------------------------------------------------------------
(***************************************************************************)
(* Scripts with piped output.                                              *)
(***************************************************************************)

\* Mutant of Drained: create_cluster reads stderr only after stdout ended.
DrainedInTurn(k) ==
    IF k = "delete_cluster" THEN {"stderr"}
    ELSE IF k = "create_cluster" THEN {"stdout"} ELSE Pipes

\* The pipes a handler reads while its script runs: delete_cluster never
\* takes the child's stdout.
Drained(k) == IF k = "delete_cluster" THEN {"stderr"} ELSE Pipes

ScriptBegin(h) ==
    /\ Alive /\ pc[h] = "idle"
    /\ \/ Goto(h, "script") /\ UNCHANGED result
       \/ Return(h, "error")
    /\ UNCHANGED <<sslVars, scriptVars, exitVars>>

\* A script that filled a pipe waits until somebody reads it.
Flows(h) == big[h] \subseteq Drained(kind[h])

ScriptExits(h) ==
    /\ pc[h] = "script" /\ Flows(h)
    /\ big[h] # {} => Alive
    /\ Goto(h, "scriptOk") \/ Goto(h, "scriptFailed")
    /\ UNCHANGED <<result, sslVars, scriptVars, exitVars>>

\* Waiting for a script that succeeded may still fail; create_cluster may
\* find no kubeconfig in its output.
ScriptEnds(h) ==
    /\ Alive
    /\ \/ pc[h] = "scriptOk" /\ Return(h, "ok")
       \/ pc[h] \in {"scriptOk", "scriptFailed"} /\ Return(h, "error")
    /\ UNCHANGED <<sslVars, scriptVars, exitVars>>

-----------------------------------------------------------------------------
(***************************************************************************)
(* self_update.                                                            *)
(***************************************************************************)
UpdateBegin(u) ==
    /\ Alive /\ pc[u] = "idle"
    /\ Goto(u, "fetching")
    /\ UNCHANGED <<result, sslVars, scriptVars, exitVars>>

\* The published version: unknown, ours, or another.
Fetched(u) ==
    /\ Alive /\ pc[u] = "fetching"
    /\ \/ Return(u, "error")
       \/ Return(u, "already")
       \/ Goto(u, "installing") /\ UNCHANGED result
    /\ UNCHANGED <<sslVars, scriptVars, exitVars>>

InstallerExits(u) ==
    /\ pc[u] = "installing"
    /\ Goto(u, "installed") \/ Goto(u, "installFailed")
    /\ UNCHANGED <<result, sslVars, scriptVars, exitVars>>

UpdateEnds(u) ==
    /\ Alive
    /\ \/ pc[u] = "installed" /\ Return(u, "ok") /\ exitArmed' = TRUE
       \/ pc[u] = "installFailed" /\ Return(u, "error") /\ UNCHANGED exitArmed
    /\ UNCHANGED <<sslVars, scriptVars, exited>>

\* The timer task calls exit(0), whatever else runs.
Exit ==
    /\ Alive /\ exitArmed
    /\ exited' = TRUE
    /\ UNCHANGED <<pc, result, sslVars, scriptVars, exitArmed>>

-----------------------------------------------------------------------------
SslStep(s) ==
    SslBegin(s) \/ OpenLock(s) \/ Flock(s) \/ FlockReturns(s) \/ SslEnds(s)
ScriptStep(h) == ScriptBegin(h) \/ ScriptEnds(h)
UpdateStep(u) == UpdateBegin(u) \/ Fetched(u) \/ UpdateEnds(u)

HandlerStep ==
    \/ \E s \in Ssl : SslStep(s) \/ CertbotEnds(s)
    \/ \E h \in Scripts : ScriptStep(h) \/ ScriptExits(h)
    \/ \E u \in Updates : UpdateStep(u) \/ InstallerExits(u)
    \/ Exit

DeviceSpec == DeviceInit /\ [][HandlerStep]_deviceVars

-----------------------------------------------------------------------------
(***************************************************************************)
(* Properties.                                                             *)
(***************************************************************************)

\* The lock belongs to the one request whose certbot runs or just exited, so
\* certbot never runs twice at once, and no path leaves the lock behind.
LockInv ==
    \A s \in Ssl : lock = s <=> pc[s] \in {"certbot", "certbotOk", "certbotFailed"}

\* A domain gets one certificate, however many requests for it wait for the
\* lock together (Let's Encrypt limits duplicates).
OneCertificate == \A d \in Domains : issued[d] <= 1

\* The process is jammed, every thread waiting in flock() for a lock whose
\* holder needs a thread, only if more install_ssl requests are under way
\* than there are threads.
InFlight == {s \in Ssl : pc[s] \notin {"idle", "returned"}}
Jammed == Stuck /\ lock # Nobody
JammedByLoadOnly == Jammed => Cardinality(InFlight) > Workers

=============================================================================
