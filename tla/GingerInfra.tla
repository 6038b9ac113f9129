---------------------------- MODULE GingerInfra ----------------------------
(***************************************************************************)
(* What a user of the ginger-infra program starts (src/src/main.rs): the   *)
(* device client (`start`) and the other subcommands.  Each is a process.  *)
(* Those of different components here share no state, so a behaviour has   *)
(* the processes of one component, with everything they do share.          *)
(***************************************************************************)
EXTENDS Device, Workspace, Fixtures, Upload, RpcCommand, Installers

CONSTANT
    Benches     \* the cases of platform/: which commands run, whether at the
                \* same time, whether they may be killed, what charts there
                \* are and may be edited to, for which files output is huge

VARIABLES component, bench

Components == {"start", "platform", "load-fixtures", "upload", "rpc", "install"}

commandVars == <<wsVars, fixVars, uploadVars, rpcVars, installVars>>
programVars == <<component, bench, allVars, commandVars>>

\* What does not run makes no difference: one initial state of it will do.
One(S) == CHOOSE x \in S : TRUE
DeviceIdles ==
    /\ load = One({l \in Loads : ~l.heart}) /\ domain = load.domain
    /\ kind = One([Scripts -> Kinds]) /\ big = One([Scripts -> SUBSET Pipes])
    /\ presence = One(Channels) /\ channel = NoChannel
    /\ DeviceInit /\ HeartInit

ProgramInit ==
    /\ component \in Components
    /\ IF component = "start" THEN Init ELSE DeviceIdles
    /\ IF component = "platform" THEN bench \in Benches ELSE bench = One(Benches)
    /\ cmd = bench.cmd /\ charts = bench.charts /\ huge = bench.huge
    /\ WorkspaceInit
    /\ IF component = "load-fixtures" THEN TRUE ELSE latest = One(Loaders) /\ chatty = {}
    /\ FixturesInit
    /\ UploadInit /\ RpcInit
    /\ IF component = "install" THEN TRUE ELSE newest = One(Installs)
    /\ InstallersInit

AtWork(c) == at[c] \notin {"idle", "ended", "killed"}

\* The commands of a bench without overlap take turns.
PlatformStep ==
    \/ \E c \in Commands :
          /\ bench.overlap \/ \A d \in Commands \ {c} : ~AtWork(d)
          /\ CommandStep(c)
    \/ bench.kills /\ \E c \in Commands : Kill(c)
    \/ charts' \in bench.edits /\ EditCharts

ProgramNext ==
    \/ /\ component = "start" /\ Next
       /\ UNCHANGED <<component, bench, commandVars>>
    \/ /\ component = "platform" /\ PlatformStep
       /\ UNCHANGED <<component, bench, allVars, fixVars, uploadVars, rpcVars, installVars>>
    \/ /\ component = "load-fixtures" /\ FixturesNext
       /\ UNCHANGED <<component, bench, allVars, wsVars, uploadVars, rpcVars, installVars>>
    \/ /\ component = "upload" /\ UploadNext
       /\ UNCHANGED <<component, bench, allVars, wsVars, fixVars, rpcVars, installVars>>
    \/ /\ component = "rpc" /\ RpcNext
       /\ UNCHANGED <<component, bench, allVars, wsVars, fixVars, uploadVars, installVars>>
    \/ /\ component = "install" /\ InstallersNext
       /\ UNCHANGED <<component, bench, allVars, wsVars, fixVars, uploadVars, rpcVars>>

ProgramSpec == ProgramInit /\ [][ProgramNext]_programVars
\* What is not there is not enabled: fairness asks nothing of it.
ProgramFairSpec ==
    ProgramSpec /\ Fairness /\ WorkspaceFairness /\ FixturesFairness /\ RpcFairness

-----------------------------------------------------------------------------
ProgramTypeOK ==
    /\ TypeOK /\ WorkspaceTypeOK /\ FixturesTypeOK /\ UploadTypeOK /\ RpcTypeOK
    /\ InstallersTypeOK

\* Whatever fails, is killed or overlaps, a command that was started ends,
\* unless it waits for a child that waits for it, or for a stream that the
\* executor keeps open after the terminal event was lost.
CommandsReturn == CommandsEnd /\ LoadersEnd /\ RpcEnds

=============================================================================
