---------------------------- MODULE DeviceProofs ----------------------------
(***************************************************************************)
(* Proofs about Device for any number of requests, domains, worker threads *)
(* and channels, and any number of moves and outages.                      *)
(***************************************************************************)
EXTENDS Device, FiniteSetTheorems, TLAPS

\* A certificate is issued where there is none, which a running certbot
\* relies on: nobody else can have got one since it looked.
CertInv ==
    /\ \A d \in Domains : d \notin certs => issued[d] = 0
    /\ \A s \in Ssl : pc[s] = "certbot" => domain[s] \notin certs

HandlersInv == DeviceTypeOK /\ LockInv /\ OneCertificate /\ CertInv
HeartInv == HeartTypeOK /\ StaleCallsBounded /\ StaleInv

-----------------------------------------------------------------------------
(***************************************************************************)
(* The handlers.                                                           *)
(***************************************************************************)

\* What every other step leaves of the state of install_ssl.
LEMMA NoCertbotKeeps ==
  ASSUME HandlersInv, NEW r \in Requests,
         NEW p \in Steps \ {"certbot", "certbotOk", "certbotFailed"},
         pc[r] \notin {"certbot", "certbotOk", "certbotFailed"},
         pc' = [pc EXCEPT ![r] = p],
         result' \in [Requests -> {"none", "ok", "already", "error"}],
         UNCHANGED <<sslVars, scriptVars>>,
         exitArmed' \in BOOLEAN, exited' \in BOOLEAN
  PROVE  HandlersInv'
<1> USE DEF sslVars, scriptVars
<1>1. DeviceTypeOK'
  BY DEF HandlersInv, DeviceTypeOK
<1>2. LockInv'
  BY DEF HandlersInv, DeviceTypeOK, LockInv, Requests
<1>3. OneCertificate' /\ CertInv'
  BY DEF HandlersInv, DeviceTypeOK, OneCertificate, CertInv, Requests
<1> QED BY <1>1, <1>2, <1>3 DEF HandlersInv

\* A request that got the flock goes on, with the lock only to certbot.
LEMMA LockedKeeps ==
  ASSUME HandlersInv, NEW s \in Ssl, pc[s] \in {"locking", "blocked"},
         lock = Nobody, Locked(s),
         UNCHANGED <<domain, certs, issued, scriptVars, exitVars>>
  PROVE  HandlersInv'
<1> USE DeviceAssumption DEF scriptVars, exitVars, Goto, Return
<1>1. DeviceTypeOK'
  BY DEF HandlersInv, DeviceTypeOK, Locked, Steps, Requests
<1>2. LockInv'
  BY DEF HandlersInv, DeviceTypeOK, LockInv, Locked, Requests
<1>3. OneCertificate' /\ CertInv'
  BY DEF HandlersInv, DeviceTypeOK, OneCertificate, CertInv, Locked, Requests
<1> QED BY <1>1, <1>2, <1>3 DEF HandlersInv

LEMMA SslKeeps ==
  ASSUME HandlersInv, NEW s \in Ssl, SslStep(s) \/ CertbotEnds(s)
  PROVE  HandlersInv'
<1> USE DEF Goto, Return, scriptVars, exitVars
<1>0. s \in Requests /\ s # Nobody
  BY DeviceAssumption DEF Requests
<1>1. CASE SslBegin(s) \/ OpenLock(s)
  BY <1>0, <1>1, NoCertbotKeeps DEF SslBegin, OpenLock, HandlersInv, DeviceTypeOK, Steps
<1>2. CASE Flock(s)
  <2>1. CASE lock = Nobody /\ Locked(s)
    BY <1>2, <2>1, LockedKeeps DEF Flock
  <2>2. CASE lock # Nobody /\ Goto(s, "blocked") /\ UNCHANGED <<result, lock>>
    BY <1>0, <1>2, <2>2, NoCertbotKeeps
       DEF Flock, HandlersInv, DeviceTypeOK, Steps, sslVars
  <2> QED BY <1>2, <2>1, <2>2 DEF Flock
<1>3. CASE FlockReturns(s)
  BY <1>3, LockedKeeps DEF FlockReturns
<1>4. CASE CertbotEnds(s)
  <2>1. lock = s
    BY <1>4 DEF CertbotEnds, HandlersInv, LockInv
  <2>2. DeviceTypeOK'
    BY <1>4 DEF CertbotEnds, HandlersInv, DeviceTypeOK, Steps, Requests
  <2>3. LockInv'
    BY <1>0, <1>4 DEF CertbotEnds, HandlersInv, DeviceTypeOK, LockInv, Requests
  <2>4. \A t \in Ssl : pc'[t] # "certbot"
    BY <1>0, <1>4, <2>1 DEF CertbotEnds, HandlersInv, DeviceTypeOK, LockInv, Requests
  <2>5. OneCertificate' /\ CertInv'
    BY <1>4, <2>4
       DEF CertbotEnds, HandlersInv, DeviceTypeOK, OneCertificate, CertInv
  <2> QED BY <2>2, <2>3, <2>5 DEF HandlersInv
<1>5. CASE SslEnds(s)
  <2>1. lock = s
    BY <1>5 DEF SslEnds, SslResult, HandlersInv, LockInv
  <2>2. DeviceTypeOK'
    BY <1>5 DEF SslEnds, SslResult, HandlersInv, DeviceTypeOK, Steps, Requests
  <2>3. LockInv'
    BY <1>0, <1>5, <2>1, DeviceAssumption
       DEF SslEnds, SslResult, HandlersInv, DeviceTypeOK, LockInv, Requests
  <2>4. OneCertificate' /\ CertInv'
    <3>1. /\ UNCHANGED <<domain, certs, issued>>
          /\ pc' = [pc EXCEPT ![s] = "returned"]
      BY <1>5 DEF SslEnds, SslResult
    <3>2. pc \in [Requests -> Steps]
      BY DEF HandlersInv, DeviceTypeOK
    <3>3. \A t \in Ssl : pc'[t] = "certbot" => pc[t] = "certbot"
      BY <3>1, <3>2 DEF Requests
    <3> QED BY <3>1, <3>3 DEF HandlersInv, OneCertificate, CertInv
  <2> QED BY <2>2, <2>3, <2>4 DEF HandlersInv
<1> QED BY <1>1, <1>2, <1>3, <1>4, <1>5 DEF SslStep

LEMMA OthersKeep ==
  ASSUME HandlersInv,
         \/ \E h \in Scripts : ScriptStep(h) \/ ScriptExits(h)
         \/ \E u \in Updates : UpdateStep(u) \/ InstallerExits(u)
         \/ Exit
  PROVE  HandlersInv'
<1> USE DEF Goto, Return, sslVars, scriptVars, exitVars, HandlersInv, DeviceTypeOK, Steps
<1>1. ASSUME NEW h \in Scripts, ScriptStep(h) \/ ScriptExits(h)
      PROVE  HandlersInv'
  <2>1. h \in Requests
    BY DEF Requests
  <2> QED BY <1>1, <2>1, NoCertbotKeeps
          DEF ScriptStep, ScriptBegin, ScriptEnds, ScriptExits
<1>2. ASSUME NEW u \in Updates, UpdateStep(u) \/ InstallerExits(u)
      PROVE  HandlersInv'
  <2>1. u \in Requests
    BY DEF Requests
  <2>2. CASE UpdateBegin(u)
    BY <2>1, <2>2, NoCertbotKeeps DEF UpdateBegin
  <2>3. CASE Fetched(u)
    BY <2>1, <2>3, NoCertbotKeeps DEF Fetched
  <2>4. CASE UpdateEnds(u)
    <3>1. exitArmed' \in BOOLEAN /\ exited' \in BOOLEAN
      BY <2>4 DEF UpdateEnds
    <3>2. result' \in [Requests -> {"none", "ok", "already", "error"}]
      BY <2>1, <2>4 DEF UpdateEnds
    <3>3. /\ pc' = [pc EXCEPT ![u] = "returned"]
          /\ pc[u] \notin {"certbot", "certbotOk", "certbotFailed"}
          /\ UNCHANGED <<sslVars, scriptVars>>
      BY <2>4 DEF UpdateEnds
    <3> QED BY <2>1, <3>1, <3>2, <3>3, NoCertbotKeeps
  <2>5. CASE InstallerExits(u)
    BY <2>1, <2>5, NoCertbotKeeps DEF InstallerExits
  <2> QED BY <1>2, <2>2, <2>3, <2>4, <2>5 DEF UpdateStep
<1>3. CASE Exit
  BY <1>3 DEF Exit, LockInv, OneCertificate, CertInv
<1> QED BY <1>1, <1>2, <1>3

LEMMA HandlersFrame ==
  ASSUME HandlersInv, UNCHANGED deviceVars PROVE HandlersInv'
  BY DEF HandlersInv, DeviceTypeOK, LockInv, OneCertificate, CertInv, deviceVars,
     sslVars, scriptVars, exitVars

-----------------------------------------------------------------------------
(***************************************************************************)
(* The heartbeat.                                                          *)
(***************************************************************************)
LEMMA HeartKeeps ==
  ASSUME HeartInv, HeartStep \/ Network
  PROVE  HeartInv'
<1> USE DEF HeartInv, HeartTypeOK, StaleCallsBounded, StaleInv, Limit, outside
<1>1. CASE Refetch \/ FetchOk \/ FetchFails
  BY <1>1, HeartbeatAssumption DEF Refetch, FetchOk, FetchFails
<1>2. CASE Call
  BY <1>2, HeartbeatAssumption DEF Call, Ready, MayCall
<1>3. CASE Skip
  BY <1>3, HeartbeatAssumption DEF Skip
<1>4. CASE CallOk
  <2>1. announced' \in BOOLEAN /\ reaches' \in BOOLEAN
    BY <1>4 DEF CallOk
  <2>2. /\ beat = "calling" /\ beat' = "waiting" /\ failures' = 0 /\ reaches' = FALSE
        /\ channel = presence \/ stale = 0
        /\ UNCHANGED <<presence, link, troubles, channel, stale>>
    BY <1>4 DEF CallOk
  <2> QED BY <2>1, <2>2
<1>5. CASE CallFails
  <2>1. announced' \in BOOLEAN /\ reaches' \in BOOLEAN
    BY <1>5 DEF CallFails
  <2>2. /\ beat = "calling" /\ beat' = "waiting" /\ failures' = failures + 1
        /\ failures < 3 /\ reaches' = FALSE
        /\ UNCHANGED <<presence, link, troubles, channel, stale>>
    BY <1>5 DEF CallFails
  <2> QED BY <2>1, <2>2
<1>6. CASE Move
  <2>1. announced' \in BOOLEAN /\ reaches' \in BOOLEAN
    BY <1>6 DEF Move
  <2>2. reaches' => beat = "calling"
    BY <1>6 DEF Move
  <2>3. /\ troubles < MaxTroubles /\ troubles' = troubles + 1
        /\ presence' \in Channels /\ stale' = 0
        /\ UNCHANGED <<link, beat, channel, failures>>
    BY <1>6 DEF Move
  <2> QED BY <2>1, <2>2, <2>3, HeartbeatAssumption
<1>7. CASE LinkLost \/ LinkNoticed \/ LinkBack
  BY <1>7, HeartbeatAssumption DEF LinkLost, LinkNoticed, LinkBack
<1> QED BY <1>1, <1>2, <1>3, <1>4, <1>5, <1>6, <1>7 DEF HeartStep, Network

LEMMA HeartFrame ==
  ASSUME HeartInv, UNCHANGED heartVars PROVE HeartInv'
  BY DEF HeartInv, HeartTypeOK, StaleCallsBounded, StaleInv, heartVars

-----------------------------------------------------------------------------
LEMMA InitBoth == DeviceInit /\ HeartInit => HandlersInv /\ HeartInv
<1> SUFFICES ASSUME DeviceInit, HeartInit PROVE HandlersInv /\ HeartInv
  OBVIOUS
<1>1. HandlersInv
  <2>1. DeviceTypeOK
    BY DEF DeviceInit, DeviceTypeOK, Steps
  <2>2. LockInv
    BY DeviceAssumption DEF DeviceInit, LockInv, Requests
  <2>3. OneCertificate /\ CertInv
    BY DEF DeviceInit, OneCertificate, CertInv, Requests
  <2> QED BY <2>1, <2>2, <2>3 DEF HandlersInv
<1>2. HeartInv
  <2>1. HeartTypeOK
    <3>1. reaches \in BOOLEAN /\ announced \in BOOLEAN
      BY DEF HeartInit
    <3>2. /\ presence \in Channels /\ link = "up" /\ troubles = 0
          /\ beat = "waiting" /\ channel \in {presence, NoChannel}
          /\ failures = 0 /\ stale = 0
      BY DEF HeartInit
    <3> QED BY <3>1, <3>2, HeartbeatAssumption DEF HeartTypeOK, Limit
  <2>2. StaleCallsBounded /\ StaleInv
    <3>1. stale = 0 /\ failures = 0 /\ beat = "waiting" /\ reaches = FALSE
      BY DEF HeartInit
    <3> QED BY <3>1 DEF StaleCallsBounded, StaleInv, Limit
  <2> QED BY <2>1, <2>2 DEF HeartInv
<1> QED BY <1>1, <1>2

LEMMA StepBoth ==
  HandlersInv /\ HeartInv /\ [Next]_allVars => (HandlersInv /\ HeartInv)'
<1> SUFFICES ASSUME HandlersInv, HeartInv, [Next]_allVars
             PROVE  HandlersInv' /\ HeartInv'
  OBVIOUS
<1>1. CASE Handlers
  BY <1>1, SslKeeps, OthersKeep, HeartFrame DEF Handlers, HandlerStep
<1>2. CASE Heart
  BY <1>2, HeartKeeps, HandlersFrame DEF Heart
<1>3. CASE Outside
  BY <1>3, HeartKeeps, HandlersFrame DEF Outside
<1>4. CASE UNCHANGED allVars
  BY <1>4, HeartFrame, HandlersFrame DEF allVars
<1> QED BY <1>1, <1>2, <1>3, <1>4 DEF Next

LEMMA AlwaysBoth == Spec => [](HandlersInv /\ HeartInv)
<1>1. Init => DeviceInit /\ HeartInit
  BY DEF Init
<1> QED BY <1>1, InitBoth, StepBoth, PTL DEF Spec

\* Who holds the lock is one request more than those who wait for it.
LEMMA JammedByInv == HandlersInv => JammedByLoadOnly
<1> SUFFICES ASSUME HandlersInv, Stuck, lock # Nobody
             PROVE  Cardinality(InFlight) > Workers
  BY DEF JammedByLoadOnly, Jammed
<1>1. /\ lock \in InFlight \ Blocked
      /\ Blocked \subseteq InFlight
      /\ InFlight \subseteq Ssl
  BY DEF HandlersInv, DeviceTypeOK, LockInv, InFlight, Blocked
<1>2. /\ IsFiniteSet(Blocked)
      /\ IsFiniteSet(InFlight)
  BY <1>1, FS_Subset, DeviceAssumption
<1>3. Cardinality(Blocked \cup {lock}) = Cardinality(Blocked) + 1
  BY <1>1, <1>2, FS_AddElement
<1>4. Cardinality(Blocked \cup {lock}) <= Cardinality(InFlight)
  BY <1>1, <1>2, FS_Subset
<1>5. Cardinality(Blocked) \in Nat /\ Cardinality(InFlight) \in Nat
  BY <1>2, FS_CardinalityType
<1>6. Cardinality(Blocked) >= Workers /\ Workers \in Nat
  BY DeviceAssumption DEF Stuck
<1> QED BY <1>3, <1>4, <1>5, <1>6

\* The process keeps its state well formed.
THEOREM TypeCorrect == Spec => []TypeOK
<1>1. HandlersInv /\ HeartInv => TypeOK
  BY DEF HandlersInv, HeartInv, TypeOK
<1> QED BY <1>1, AlwaysBoth, PTL

\* The certbot lock belongs to the one request whose certbot runs or just
\* exited: no path through install_ssl leaves it behind.
THEOREM LockIsReturned == Spec => []LockInv
<1>1. HandlersInv => LockInv
  BY DEF HandlersInv
<1> QED BY <1>1, AlwaysBoth, PTL

\* However many requests queue for the lock, a domain gets one certificate:
\* the second look, with the lock held, is enough.
THEOREM NoDuplicates == Spec => []OneCertificate
<1>1. HandlersInv => OneCertificate
  BY DEF HandlersInv
<1> QED BY <1>1, AlwaysBoth, PTL

\* As many install_ssl requests as there are threads never jam the process:
\* the holder of the lock does not wait for it.
THEOREM NoJamBelowLimit == Spec => []JammedByLoadOnly
BY JammedByInv, AlwaysBoth, PTL

\* However fetches, calls, moves and outages interleave, at most three calls
\* in a row go to where the presence service no longer listens.
THEOREM StaleCallsAreFew == Spec => []StaleCallsBounded
<1>1. HeartInv => StaleCallsBounded
  BY DEF HeartInv
<1> QED BY <1>1, AlwaysBoth, PTL

\* The handlers and the heartbeat run in one process as each does alone: they
\* share the process's life and its link, and neither writes what the other
\* reads.
LEMMA DeviceStepOfEach ==
  ASSUME [Next]_allVars
  PROVE  [HandlerStep]_deviceVars /\ [HeartStep \/ Network]_heartVars
BY DEF Next, Handlers, Heart, Outside, allVars

THEOREM EachAlone == Spec => DeviceSpec /\ HeartSpec
<1>1. Init => DeviceInit /\ HeartInit
  BY DEF Init
<1>2. [Next]_allVars => [HandlerStep]_deviceVars /\ [HeartStep \/ Network]_heartVars
  BY DeviceStepOfEach
<1> QED BY <1>1, <1>2, PTL DEF Spec, DeviceSpec, HeartSpec

=============================================================================
