----------------------------- MODULE Heartbeat -----------------------------
(***************************************************************************)
(* The heartbeat task of `ginger-infra start` (src/src/start.rs l. 761-    *)
(* 888): every 5 s the device announces itself through one call() to the   *)
(* presence channel; after three failed calls in a row it fetches that     *)
(* channel anew.  What the calls promise is CallPromise.                   *)
(*                                                                         *)
(* External: the presence service, whose channel may move; the link of the *)
(* WAMP client, which may be dead for a while before is_connected says so. *)
(***************************************************************************)
EXTENDS Naturals

CONSTANTS
    Channels,      \* channels of the presence service
    NoChannel,     \* the empty string an initial fetch that fails leaves
    MaxTroubles    \* how often the channel moves or the link dies: a bound

ASSUME HeartbeatAssumption ==
    /\ NoChannel \notin Channels
    /\ MaxTroubles \in Nat

VARIABLES
    presence,      \* where the presence service listens
    link,          \* "up", "dead" (and nobody knows), "down"
    troubles,      \* how often either changed for the worse
    beat,          \* where the task is
    channel,       \* current_device_channel
    failures,      \* consecutive_failures
    reaches,       \* the call under way was, at some time, to where presence listens
    announced,     \* history: a call got through since presence moved last
    stale          \* history: calls made to another channel since then, up to
                   \* the first too many

heartVars == <<presence, link, troubles, beat, channel, failures, reaches,
               announced, stale>>

Limit == 3

HeartTypeOK ==
    /\ presence \in Channels
    /\ link \in {"up", "dead", "down"}
    /\ troubles \in 0..MaxTroubles
    /\ beat \in {"waiting", "fetching", "fetched", "calling"}
    /\ channel \in Channels \cup {NoChannel}
    /\ failures \in 0..Limit
    /\ reaches \in BOOLEAN
    /\ announced \in BOOLEAN
    /\ stale \in 0..(Limit + 1)

\* The first fetch is made before the task is spawned.
HeartInit ==
    /\ presence \in Channels
    /\ link = "up"
    /\ troubles = 0
    /\ beat = "waiting"
    /\ channel \in {presence, NoChannel}
    /\ failures = 0
    /\ reaches = FALSE
    /\ announced = FALSE
    /\ stale = 0

-----------------------------------------------------------------------------
outside == <<presence, link, troubles>>

\* A tick after three failures fetches first ...
Refetch ==
    /\ beat = "waiting"
    /\ failures >= Limit
    /\ beat' = "fetching"
    /\ UNCHANGED <<outside, channel, failures, reaches, announced, stale>>

\* Mutant of FetchOk: the channel is compared, and only the log differs.
FetchOkKeeps ==
    /\ beat = "fetching"
    /\ beat' = "fetched"
    /\ failures' = 0
    /\ UNCHANGED <<outside, channel, reaches, announced, stale>>

FetchOk ==
    /\ beat = "fetching"
    /\ beat' = "fetched"
    /\ channel' = presence
    /\ failures' = 0
    /\ UNCHANGED <<outside, reaches, announced, stale>>

\* Mutant of FetchFails: the tick goes on to its call.
FetchFailsGoesOn ==
    /\ beat = "fetching"
    /\ beat' = "fetched"
    /\ UNCHANGED <<outside, channel, failures, reaches, announced, stale>>

\* ... and if that fails, waits for the next one.
FetchFails ==
    /\ beat = "fetching"
    /\ beat' = "waiting"
    /\ UNCHANGED <<outside, channel, failures, reaches, announced, stale>>

MayCall == link # "down" /\ channel # NoChannel
Ready == beat = "fetched" \/ (beat = "waiting" /\ failures < Limit)

\* call("handle_heartbeat", current_device_channel, ...).
Call ==
    /\ Ready /\ MayCall
    /\ beat' = "calling"
    /\ reaches' = (channel = presence)
    /\ stale' = IF channel = presence THEN stale ELSE IF stale > Limit THEN stale ELSE stale + 1
    /\ UNCHANGED <<outside, channel, failures, announced>>

\* Not connected, or no channel: this tick does nothing.
Skip ==
    /\ beat = "fetched" /\ ~MayCall
    /\ beat' = "waiting"
    /\ UNCHANGED <<outside, channel, failures, reaches, announced, stale>>

CallOk ==
    /\ beat = "calling"
    /\ reaches /\ link = "up"
    /\ beat' = "waiting"
    /\ failures' = 0
    /\ announced' = (announced \/ channel = presence)
    /\ reaches' = FALSE
    /\ UNCHANGED <<outside, channel, stale>>

\* Mutant of CallFails: a failure is not counted.
CallFailsUncounted ==
    /\ beat = "calling"
    /\ beat' = "waiting"
    /\ reaches' = FALSE
    /\ UNCHANGED <<outside, channel, failures, announced, stale>>

\* An error, a timeout, or no connection.
CallFails ==
    /\ beat = "calling"
    /\ beat' = "waiting"
    /\ failures' = failures + 1
    /\ reaches' = FALSE
    /\ UNCHANGED <<outside, channel, announced, stale>>

-----------------------------------------------------------------------------
\* The presence service moves to another channel.
Move ==
    /\ troubles < MaxTroubles
    /\ troubles' = troubles + 1
    /\ presence' \in Channels \ {presence}
    /\ reaches' = (reaches \/ (beat = "calling" /\ channel = presence'))
    /\ announced' = FALSE
    /\ stale' = 0
    /\ UNCHANGED <<link, beat, channel, failures>>

\* The link dies; the client notices; the client is connected again.
LinkLost ==
    /\ link = "up"
    /\ troubles < MaxTroubles
    /\ troubles' = troubles + 1
    /\ link' = "dead"
    /\ UNCHANGED <<presence, beat, channel, failures, reaches, announced, stale>>

LinkNoticed ==
    /\ link = "dead"
    /\ link' = "down"
    /\ UNCHANGED <<presence, troubles, beat, channel, failures, reaches, announced, stale>>

LinkBack ==
    /\ link = "down"
    /\ link' = "up"
    /\ UNCHANGED <<presence, troubles, beat, channel, failures, reaches, announced, stale>>

HeartStep == Refetch \/ FetchOk \/ FetchFails \/ Call \/ Skip \/ CallOk \/ CallFails
Network == Move \/ LinkLost \/ LinkNoticed \/ LinkBack

HeartSpec == HeartInit /\ [][HeartStep \/ Network]_heartVars

-----------------------------------------------------------------------------
(***************************************************************************)
(* Properties.                                                             *)
(***************************************************************************)

\* After the presence service moved, at most three calls go to where it no
\* longer listens, however fetches, calls and outages interleave: the device
\* asks for the channel again before it makes a fourth.
StaleCallsBounded == stale <= Limit

\* Why: until it fetched the new channel, each such call that ended is one of
\* the failures counted since the last success, and only failures < Limit
\* lets the task make another.  A call that still gets through was overtaken
\* by the move.
StaleInv ==
    /\ channel # presence =>
           stale <= failures + (IF beat = "calling" THEN 1 ELSE 0)
    /\ beat = "calling" => failures < Limit
    /\ beat = "fetched" => failures = 0
    /\ beat = "fetching" => failures = Limit
    /\ reaches => beat = "calling" /\ (channel = presence \/ stale = 0)

=============================================================================
