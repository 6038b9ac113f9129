------------------------------- MODULE Device -------------------------------
(***************************************************************************)
(* The process of `ginger-infra start`: its handlers and its heartbeat are *)
(* tasks of one runtime, and end with it.                                  *)
(***************************************************************************)
EXTENDS DeviceHandlers, Heartbeat

CONSTANT Loads   \* sets of requests that may arrive and their domains, with
                 \* the number of troubles of the network; whether the heartbeat
                 \* has a channel

VARIABLE load

allVars == <<deviceVars, heartVars, load>>

Init ==
    /\ DeviceInit
    /\ HeartInit
    /\ load \in Loads
    /\ domain = load.domain
    /\ channel # NoChannel <=> load.heart
    \* what does not arrive makes no difference
    /\ \A h \in Scripts \ load.requests : kind[h] = "gateway" /\ big[h] = {}
    /\ ~load.heart => presence = CHOOSE c \in Channels : TRUE

Arrivals == {r \in Requests : pc[r] = "idle" /\ pc'[r] # "idle"}

Handlers ==
    /\ HandlerStep
    /\ Arrivals \subseteq load.requests
    /\ UNCHANGED <<heartVars, load>>

Heart == Alive /\ HeartStep /\ UNCHANGED <<deviceVars, load>>

Outside ==
    /\ Network
    /\ troubles' <= load.troubles
    /\ UNCHANGED <<deviceVars, load>>

Next == Handlers \/ Heart \/ Outside
Spec == Init /\ [][Next]_allVars

\* The runtime polls every task, certbot, scripts and the installer end, the
\* link comes back, and a fetch or a call made again and again gets through.
Fairness ==
    /\ \A s \in Ssl :
          /\ WF_deviceVars(OpenLock(s) \/ Flock(s) \/ SslEnds(s))
          /\ WF_deviceVars(FlockReturns(s))
          /\ WF_deviceVars(CertbotEnds(s))
    /\ \A h \in Scripts : WF_deviceVars(ScriptExits(h)) /\ WF_deviceVars(ScriptEnds(h))
    /\ \A u \in Updates :
          WF_deviceVars(Fetched(u) \/ InstallerExits(u) \/ UpdateEnds(u))
    /\ WF_deviceVars(Exit)
    /\ WF_heartVars(Alive /\ (Refetch \/ Call \/ Skip))
    /\ WF_heartVars(Alive /\ (FetchOk \/ FetchFails))
    /\ WF_heartVars(Alive /\ (CallOk \/ CallFails))
    /\ SF_heartVars(Alive /\ FetchOk)
    /\ SF_heartVars(Alive /\ CallOk)
    /\ WF_heartVars(LinkNoticed \/ LinkBack)

FairSpec == Spec /\ Fairness

-----------------------------------------------------------------------------
(***************************************************************************)
(* Properties.                                                             *)
(***************************************************************************)
TypeOK == DeviceTypeOK /\ HeartTypeOK

\* A request that was begun is answered, unless the process exits for an
\* update, is jammed, or its script is stuck on output nobody reads.
HandlersReturn ==
    \A r \in Requests :
        (pc[r] # "idle")
            ~> \/ pc[r] = "returned" \/ exited \/ Jammed
               \/ r \in Scripts /\ kind[r] = "delete_cluster" /\ "stdout" \in big[r]

\* A device that had a channel at its start is announced wherever the
\* presence service moves and however long the link is gone, unless the
\* process exits or is jammed.
AnnouncedAgain == (channel # NoChannel) ~> (announced \/ exited \/ Jammed)

=============================================================================
