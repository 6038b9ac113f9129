------------------------------ MODULE Workspace ------------------------------
(***************************************************************************)
(* The commands that render the platform/ directory and take the result to *)
(* the clusters: plan (src/src/plan.rs), dry-run (run_dry_run.rs), rollout *)
(* (rollout.rs), install-helm-charts (install_helm_charts.rs) and          *)
(* verbose-replace (verbose_replace.rs).  Each is a sequential process;    *)
(* all of them started in one working directory share build/, helm-build/  *)
(* and values.memory.json, without a lock.  A command may be killed.       *)
(*                                                                         *)
(* External: kubectl and helm, the shell commands values name, the user    *)
(* who edits platform/.                                                    *)
(***************************************************************************)
EXTENDS Naturals, Sequences, FiniteSets

CONSTANTS
    Commands,      \* invocations of the program
    Dirs,          \* the directories of platform/ and platform/ itself
    Up,            \* [Dirs -> Seq(Dirs)]: each one, its parent, ..., platform/
    Clusters,      \* those directly under platform/, each for one cluster
    Inherited,     \* where kubectl goes if no .envrc says: the caller's KUBECONFIG
    Platform,      \* the files of platform/, in the order of their paths
    Absent

Entries == DOMAIN Platform
Yamls == {e \in Entries : ~Platform[e].envrc}

ASSUME WorkspaceAssumption ==
    /\ Platform \in Seq([dir : Dirs, envrc : BOOLEAN])
    /\ Up \in [Dirs -> Seq(Dirs)]
    /\ Clusters \subseteq Dirs
    /\ Inherited \notin Dirs
    /\ IsFiniteSet(Commands)
    /\ Absent \notin Commands

VARIABLES
    cmd,           \* which command each invocation is
    at, outcome,   \* how far it is, and how it ended
    memory,        \* values.memory.json: cut short, or whole, without or with
                   \* the one onceshell() value
    known,         \* commands that have the value
    executions,    \* history: how often the onceshell() command was started
    build,         \* who wrote each file of build/ (Absent: it is not there)
    todo,          \* entries a command has yet to render, or to apply
    got,           \* who wrote the content it read last
    applied,       \* [file, by, cluster] it applied
    failed,        \* files it reports as failed
    charts,        \* clusters with a resources.toml in platform/
    planned,       \* those an install found there
    left,          \* those it has yet to render, or to install from
    helmBuild,     \* who wrote helm-build/<cluster>/resources.toml
    installed,     \* [cluster, by] it installed from
    disturbed,     \* history: commands that used build/ or helm-build/ while
                   \* another removed or wrote it
    mishaps,       \* history: commands that began to resolve values while
                   \* another did, or that were killed or failed while they
                   \* ran the onceshell() command or wrote its value
    huge           \* files for which kubectl prints more than a pipe holds
                   \* before it has read its input

memVars == <<memory, known, executions, mishaps>>
buildVars == <<build, todo, got, applied, failed>>
helmVars == <<planned, left, helmBuild, installed>>
wsVars == <<cmd, at, outcome, memVars, buildVars, helmVars, disturbed, charts, huge>>

CommandKinds == {"plan", "dry-run", "rollout", "install-helm-charts", "verbose-replace"}
Owner == Commands \cup {Absent}
\* Where a command has the onceshell() value, or the file, in its hands alone.
Losing == {"shelling", "keeping", "cut", "finalCut"}
Resolving == Losing \cup {"resolving", "rest", "saving"}
UsesBuild == {"rendering", "collecting", "reading", "applying", "diffing"}
UsesHelm == {"helmRendering", "helmCollecting", "installing"}
Places == {"idle", "loading", "wiping", "helmWiping", "replacing", "ended", "killed"}
             \cup Resolving \cup UsesBuild \cup UsesHelm

WorkspaceTypeOK ==
    /\ cmd \in [Commands -> CommandKinds]
    /\ at \in [Commands -> Places]
    /\ outcome \in [Commands -> {"none", "ok", "error"}]
    /\ memory \in {"cut", "empty", "kept"}
    /\ known \subseteq Commands
    /\ executions \in Nat
    /\ build \in [Entries -> Owner]
    /\ todo \in [Commands -> SUBSET Entries]
    /\ got \in [Commands -> Owner]
    /\ applied \in [Commands ->
                      SUBSET [file : Yamls, by : Commands, cluster : Dirs \cup {Inherited}]]
    /\ failed \in [Commands -> SUBSET Yamls]
    /\ charts \subseteq Clusters
    /\ planned \in [Commands -> SUBSET Clusters]
    /\ left \in [Commands -> SUBSET Clusters]
    /\ helmBuild \in [Clusters -> Owner]
    /\ installed \in [Commands -> SUBSET [cluster : Clusters, by : Commands]]
    /\ disturbed \subseteq Commands
    /\ mishaps \in Nat
    /\ huge \subseteq Yamls

WorkspaceInit ==
    /\ cmd \in [Commands -> CommandKinds]
    /\ at = [c \in Commands |-> "idle"]
    /\ outcome = [c \in Commands |-> "none"]
    /\ memory = "empty"
    /\ known = {}
    /\ executions = 0
    /\ build = [e \in Entries |-> Absent]
    /\ todo = [c \in Commands |-> {}]
    /\ got = [c \in Commands |-> Absent]
    /\ applied = [c \in Commands |-> {}]
    /\ failed = [c \in Commands |-> {}]
    /\ charts \in SUBSET Clusters
    /\ planned = [c \in Commands |-> {}]
    /\ left = [c \in Commands |-> {}]
    /\ helmBuild = [k \in Clusters |-> Absent]
    /\ installed = [c \in Commands |-> {}]
    /\ disturbed = {}
    /\ mishaps = 0
    /\ huge \in SUBSET Yamls

-----------------------------------------------------------------------------
To(c, place) == at' = [at EXCEPT ![c] = place] /\ UNCHANGED outcome
End(c, how) ==
    /\ at' = [at EXCEPT ![c] = "ended"]
    /\ outcome' = [outcome EXCEPT ![c] = how]
Fail(c) == End(c, "error")

Others(c, places) == {d \in Commands \ {c} : at[d] \in places}

\* Files are taken in the order of their paths.
FirstOf(S) == {e \in S : \A f \in S : e <= f}
Took(c, e) == todo' = [todo EXCEPT ![c] = @ \ {e}]
sources == <<cmd, charts, huge>>

(***************************************************************************)
(* load_and_resolve_values: onceshell() is run once and remembered.        *)
(***************************************************************************)

\* Checks that come first: vault.json of a rollout, .gitignore, snapshot.json,
\* platform/.  An install looks for its resources.toml files and, if there are
\* none, renders nothing.
Start(c) ==
    /\ at[c] = "idle"
    /\ IF cmd[c] = "install-helm-charts"
       THEN /\ planned' = [planned EXCEPT ![c] = charts]
            /\ \/ charts = {} /\ To(c, "helmCollecting")
               \/ charts # {} /\ To(c, "loading")
               \/ Fail(c)
       ELSE (To(c, "loading") \/ Fail(c)) /\ UNCHANGED planned
    /\ UNCHANGED <<memVars, buildVars, left, helmBuild, installed, disturbed, sources>>

\* values.json is checked; a memory file that does not parse counts as empty.
LoadMemory(c) ==
    /\ at[c] = "loading"
    /\ \/ /\ To(c, "resolving")
          /\ known' = IF memory = "kept" THEN known \cup {c} ELSE known
          /\ mishaps' = IF Others(c, Resolving) # {} THEN mishaps + 1 ELSE mishaps
       \/ Fail(c) /\ UNCHANGED <<known, mishaps>>
    /\ UNCHANGED <<memory, executions, buildVars, helmVars, disturbed, sources>>

OnceCached(c) ==
    /\ at[c] = "resolving" /\ c \in known
    /\ To(c, "rest")
    /\ UNCHANGED <<memVars, buildVars, helmVars, disturbed, sources>>

\* run_shell() starts the command, or cannot.
OnceBegins(c) ==
    /\ at[c] = "resolving" /\ c \notin known
    /\ \/ To(c, "shelling") /\ executions' = executions + 1
       \/ Fail(c) /\ UNCHANGED executions
    /\ UNCHANGED <<memory, known, mishaps, buildVars, helmVars, disturbed, sources>>

\* Mutant of OnceEnds: only the save at the end keeps the value.
OnceEndsUnkept(c) ==
    /\ at[c] = "shelling"
    /\ \/ To(c, "rest") /\ known' = known \cup {c} /\ UNCHANGED mishaps
       \/ Fail(c) /\ mishaps' = mishaps + 1 /\ UNCHANGED known
    /\ UNCHANGED <<memory, executions, buildVars, helmVars, disturbed, sources>>

\* It exits: a value is kept at once; without success the command ends.
OnceEnds(c) ==
    /\ at[c] = "shelling"
    /\ \/ To(c, "keeping") /\ known' = known \cup {c} /\ UNCHANGED mishaps
       \/ Fail(c) /\ mishaps' = mishaps + 1 /\ UNCHANGED known
    /\ UNCHANGED <<memory, executions, buildVars, helmVars, disturbed, sources>>

\* fs::write(values.memory.json) cuts the file ...
CutMemory(c) ==
    /\ \/ at[c] = "keeping" /\ To(c, "cut")
       \/ at[c] = "saving" /\ To(c, "finalCut")
    /\ memory' = "cut"
    /\ UNCHANGED <<known, executions, mishaps, buildVars, helmVars, disturbed, sources>>

\* ... then writes it.
WriteMemory(c) ==
    /\ \/ at[c] = "cut" /\ To(c, "rest")
       \/ at[c] = "finalCut" /\ cmd[c] = "verbose-replace" /\ To(c, "replacing")
       \/ at[c] = "finalCut" /\ cmd[c] = "install-helm-charts" /\ To(c, "helmWiping")
       \/ /\ at[c] = "finalCut" /\ cmd[c] \in {"plan", "dry-run", "rollout"}
          /\ To(c, "wiping")
    /\ memory' = "kept"
    /\ UNCHANGED <<known, executions, mishaps, buildVars, helmVars, disturbed, sources>>

\* What a command that ends now leaves undone.
Loses(c) == mishaps' = IF at[c] \in Losing THEN mishaps + 1 ELSE mishaps

SaveFails(c) ==
    /\ at[c] \in {"keeping", "cut", "saving", "finalCut"}
    /\ Fail(c)
    /\ Loses(c)
    /\ UNCHANGED <<memory, known, executions, buildVars, helmVars, disturbed, sources>>

\* The other values: a file() that cannot be read or a variable that is not
\* defined ends the command.
ResolveRest(c) ==
    /\ at[c] = "rest"
    /\ To(c, "saving") \/ Fail(c)
    /\ UNCHANGED <<memVars, buildVars, helmVars, disturbed, sources>>

\* verbose-replace renders one file, vault values and all, and writes that.
Replace(c) ==
    /\ at[c] = "replacing"
    /\ End(c, "ok") \/ Fail(c)
    /\ UNCHANGED <<memVars, buildVars, helmVars, disturbed, sources>>

-----------------------------------------------------------------------------
(***************************************************************************)
(* render_to_build, with the shell() values of each file's .envrc.         *)
(***************************************************************************)
\* Two commands use a directory at once: each may find what the other wrote.
Disturbs(c, places, rendering) ==
    disturbed' = disturbed \cup Others(c, places)
                     \cup (IF Others(c, {rendering}) # {} THEN {c} ELSE {})

Wipe(c) ==
    /\ at[c] = "wiping"
    /\ To(c, "rendering")
    /\ build' = [e \in Entries |-> Absent]
    /\ todo' = [todo EXCEPT ![c] = Entries]
    /\ Disturbs(c, UsesBuild, "rendering")
    /\ UNCHANGED <<memVars, got, applied, failed, helmVars, sources>>

\* platform/ has no files, or remove_dir_all() failed half way.
WipeFails(c) ==
    /\ at[c] = "wiping"
    /\ Fail(c)
    /\ \E kept \in SUBSET Entries :
          build' = [e \in Entries |-> IF e \in kept THEN build[e] ELSE Absent]
    /\ Disturbs(c, UsesBuild, "rendering")
    /\ UNCHANGED <<memVars, todo, got, applied, failed, helmVars, sources>>

\* Mutant of Render: .envrc files are not copied.
RenderYamlOnly(c) ==
    /\ at[c] = "rendering"
    /\ \E e \in FirstOf(todo[c]) :
          /\ build' = IF e \in Yamls THEN [build EXCEPT ![e] = c] ELSE build
          /\ Took(c, e)
    /\ UNCHANGED <<at, outcome, memVars, got, applied, failed, helmVars, disturbed, sources>>

Render(c) ==
    /\ at[c] = "rendering"
    /\ \E e \in FirstOf(todo[c]) : build' = [build EXCEPT ![e] = c] /\ Took(c, e)
    /\ UNCHANGED <<at, outcome, memVars, got, applied, failed, helmVars, disturbed, sources>>

\* A reference that is not defined, a shell() that fails, a directory that
\* another command removed: what was rendered stays.
RenderFails(c) ==
    /\ at[c] = "rendering" /\ todo[c] # {}
    /\ Fail(c)
    /\ todo' = [todo EXCEPT ![c] = {}]
    /\ UNCHANGED <<memVars, build, got, applied, failed, helmVars, disturbed, sources>>

Rendered(c) ==
    /\ at[c] = "rendering" /\ todo[c] = {}
    /\ IF cmd[c] = "plan" THEN End(c, "ok") ELSE To(c, "collecting")
    /\ UNCHANGED <<memVars, buildVars, helmVars, disturbed, sources>>

-----------------------------------------------------------------------------
(***************************************************************************)
(* rollout and dry-run: the .yaml files build/ has now, in order.          *)
(***************************************************************************)
Collect(c) ==
    /\ at[c] = "collecting"
    /\ LET found == {e \in Yamls : build[e] # Absent}
       IN  IF found = {}
           THEN Fail(c) /\ UNCHANGED todo
           ELSE /\ To(c, IF cmd[c] = "rollout" THEN "reading" ELSE "diffing")
                /\ todo' = [todo EXCEPT ![c] = found]
    /\ UNCHANGED <<memVars, build, got, applied, failed, helmVars, disturbed, sources>>

\* find_envrc_bounded: the nearest .envrc on the way up from a file, in build/
\* itself at the last, says where the file goes.
Target(e, present) ==
    LET up == Up[Platform[e].dir]
        has == {n \in DOMAIN up :
                  \E i \in present : Platform[i].envrc /\ Platform[i].dir = up[n]}
    IN  IF has = {} THEN Inherited
        ELSE up[CHOOSE n \in has : \A m \in has : n <= m]
Own(e) == Target(e, Entries)
Present == {e \in Entries : build[e] # Absent}

\* The file or its .envrc cannot be read, vault.json lacks a key, or kubectl
\* fails: it is reported, and the next one is taken.
FileFails(c) ==
    /\ at[c] \in {"reading", "applying"}
    /\ \E e \in FirstOf(todo[c]) :
          failed' = [failed EXCEPT ![c] = @ \cup {e}] /\ Took(c, e)
    /\ To(c, "reading")
    /\ UNCHANGED <<memVars, build, got, applied, helmVars, disturbed, sources>>

ReadFile(c) ==
    /\ at[c] = "reading"
    /\ \E e \in FirstOf(todo[c]) :
          build[e] # Absent /\ got' = [got EXCEPT ![c] = build[e]]
    /\ To(c, "applying")
    /\ UNCHANGED <<memVars, build, todo, applied, failed, helmVars, disturbed, sources>>

\* The .envrc is looked for only now.  All the input is written to kubectl
\* before anything it prints is read: with enough to print it never ends.
Apply(c) ==
    /\ at[c] = "applying"
    /\ \E e \in FirstOf(todo[c]) \ huge :
          /\ applied' = [applied EXCEPT ![c] = @ \cup
                            {[file |-> e, by |-> got[c], cluster |-> Target(e, Present)]}]
          /\ Took(c, e)
    /\ To(c, "reading")
    /\ UNCHANGED <<memVars, build, got, failed, helmVars, disturbed, sources>>

Summary(c) ==
    /\ at[c] = "reading" /\ todo[c] = {}
    /\ End(c, IF failed[c] = {} THEN "ok" ELSE "error")
    /\ UNCHANGED <<memVars, buildVars, helmVars, disturbed, sources>>

\* kubectl diff of each file in turn; an error is kept for the end.
Diff(c) ==
    /\ at[c] = "diffing"
    /\ \E e \in FirstOf(todo[c]) :
          /\ \/ build[e] # Absent /\ UNCHANGED failed
             \/ failed' = [failed EXCEPT ![c] = @ \cup {e}]
          /\ Took(c, e)
    /\ UNCHANGED <<at, outcome, memVars, build, got, applied, helmVars, disturbed, sources>>

\* An .envrc that cannot be read ends it at once.
DiffEnds(c) ==
    /\ at[c] = "diffing"
    /\ \/ todo[c] = {} /\ End(c, IF failed[c] = {} THEN "ok" ELSE "error")
       \/ todo[c] # {} /\ Fail(c)
    /\ UNCHANGED <<memVars, buildVars, helmVars, disturbed, sources>>

-----------------------------------------------------------------------------
(***************************************************************************)
(* install-helm-charts.                                                    *)
(***************************************************************************)

\* Mutant of HelmWipe: create_dir_all without remove_dir_all.
HelmWipeNot(c) ==
    /\ at[c] = "helmWiping"
    /\ To(c, "helmRendering")
    /\ left' = [left EXCEPT ![c] = planned[c]]
    /\ Disturbs(c, UsesHelm, "helmRendering")
    /\ UNCHANGED <<memVars, buildVars, planned, helmBuild, installed, sources>>

HelmWipe(c) ==
    /\ at[c] = "helmWiping"
    /\ To(c, "helmRendering")
    /\ helmBuild' = [k \in Clusters |-> Absent]
    /\ left' = [left EXCEPT ![c] = planned[c]]
    /\ Disturbs(c, UsesHelm, "helmRendering")
    /\ UNCHANGED <<memVars, buildVars, planned, installed, sources>>

\* snapshot.json does not parse, or remove_dir_all() failed half way.
HelmWipeFails(c) ==
    /\ at[c] = "helmWiping"
    /\ Fail(c)
    /\ \/ UNCHANGED <<helmBuild, disturbed>>
       \/ /\ \E kept \in SUBSET Clusters :
                helmBuild' = [k \in Clusters |-> IF k \in kept THEN helmBuild[k] ELSE Absent]
          /\ Disturbs(c, UsesHelm, "helmRendering")
    /\ UNCHANGED <<memVars, buildVars, planned, left, installed, sources>>

\* resources.toml, then .envrc and values files, of one cluster after the
\* other: what was written before a failure stays.
HelmRender(c) ==
    /\ at[c] = "helmRendering"
    /\ \/ \E k \in left[c] : /\ helmBuild' = [helmBuild EXCEPT ![k] = c]
                             /\ left' = [left EXCEPT ![c] = @ \ {k}]
                             /\ UNCHANGED <<at, outcome>> \/ Fail(c)
       \/ left[c] = {} /\ To(c, "helmCollecting") /\ UNCHANGED <<helmBuild, left>>
       \/ left[c] # {} /\ Fail(c) /\ UNCHANGED <<helmBuild, left>>
    /\ UNCHANGED <<memVars, buildVars, planned, installed, disturbed, sources>>

\* What helm-build/ has now, whoever wrote it.
HelmCollect(c) ==
    /\ at[c] = "helmCollecting"
    /\ LET found == {k \in Clusters : helmBuild[k] # Absent}
       IN  \/ found # {} /\ To(c, "installing") /\ left' = [left EXCEPT ![c] = found]
           \/ found = {} /\ End(c, "ok") /\ UNCHANGED left
           \/ Fail(c) /\ UNCHANGED left
    /\ UNCHANGED <<memVars, buildVars, planned, helmBuild, installed, disturbed, sources>>

TakesChart(c, k) == installed' = [installed EXCEPT ![c] =
                                   @ \cup {[cluster |-> k, by |-> helmBuild[k]]}]

\* A cluster's releases, in order; the first that fails ends the command,
\* those before it stay installed.
HelmInstall(c) ==
    /\ at[c] = "installing"
    /\ \/ \E k \in left[c] :
             /\ helmBuild[k] # Absent
             /\ TakesChart(c, k)
             /\ left' = [left EXCEPT ![c] = @ \ {k}]
             /\ UNCHANGED <<at, outcome>> \/ Fail(c)
       \/ left[c] # {} /\ Fail(c) /\ UNCHANGED <<installed, left>>
       \/ left[c] = {} /\ End(c, "ok") /\ UNCHANGED <<installed, left>>
    /\ UNCHANGED <<memVars, buildVars, planned, helmBuild, disturbed, sources>>

-----------------------------------------------------------------------------
Resolve(c) ==
    \/ Start(c) \/ LoadMemory(c) \/ OnceCached(c) \/ OnceBegins(c) \/ OnceEnds(c)
    \/ CutMemory(c) \/ WriteMemory(c) \/ SaveFails(c) \/ ResolveRest(c) \/ Replace(c)
Plan(c) == Wipe(c) \/ WipeFails(c) \/ Render(c) \/ RenderFails(c) \/ Rendered(c)
Rollout(c) == Collect(c) \/ FileFails(c) \/ ReadFile(c) \/ Apply(c) \/ Summary(c)
DryRun(c) == Diff(c) \/ DiffEnds(c)
Helm(c) ==
    HelmWipe(c) \/ HelmWipeFails(c) \/ HelmRender(c) \/ HelmCollect(c) \/ HelmInstall(c)

CommandStep(c) == Resolve(c) \/ Plan(c) \/ Rollout(c) \/ DryRun(c) \/ Helm(c)

\* Ctrl-C.
Kill(c) ==
    /\ at[c] \notin {"idle", "ended", "killed"}
    /\ To(c, "killed")
    /\ Loses(c)
    /\ UNCHANGED <<memory, known, executions, buildVars, helmVars, disturbed, sources>>

\* The user gives clusters charts, or takes the last ones away.
EditCharts ==
    /\ charts' \in SUBSET Clusters \ {charts}
    /\ UNCHANGED <<cmd, at, outcome, memVars, buildVars, helmVars, disturbed, huge>>

WorkspaceNext == EditCharts \/ \E c \in Commands : CommandStep(c) \/ Kill(c)
WorkspaceSpec == WorkspaceInit /\ [][WorkspaceNext]_wsVars

\* kubectl waits for what it printed to be read, and it for kubectl's input.
Stalls(c) == at[c] = "applying" /\ FirstOf(todo[c]) \subseteq huge

\* A command runs on: kubectl, helm and the shell commands end, but for a
\* kubectl that stalls.
WorkspaceFairness ==
    \A c \in Commands : WF_wsVars(at[c] # "idle" /\ ~Stalls(c) /\ CommandStep(c))

-----------------------------------------------------------------------------
(***************************************************************************)
(* Properties.                                                             *)
(***************************************************************************)

\* A rollout applies each file as it rendered it itself and to the cluster its
\* .envrc says, also when it fails later; and one that reports success applied
\* every .yaml file of platform/.  This holds whatever ran before and whatever
\* was killed, unless another command used build/ at the same time.
RolloutIsWhole ==
    \A c \in Commands \ disturbed :
        /\ \A a \in applied[c] : a.by = c /\ a.cluster = Own(a.file)
        /\ cmd[c] = "rollout" /\ outcome[c] = "ok" =>
               {a.file : a \in applied[c]} = Yamls

\* onceshell() is run once, whatever commands follow each other, also after
\* one that failed on another value.  What goes wrong around it costs at most
\* one more run each: a command that resolves values while another does, one
\* killed or failing while the shell command runs or its value is written.
OnceMeansOnce == executions <= 1 + mishaps

\* An install that found charts in platform/ installs those and no others,
\* whatever an earlier command left in helm-build/, unless another install
\* used helm-build/ at the same time.
InstallsThePlanned ==
    \A c \in Commands \ disturbed : \A i \in installed[c] :
        planned[c] # {} => i.by = c /\ i.cluster \in planned[c]

\* Every command ends, unless it waits for a kubectl that waits for it: the
\* rollout of a file whose output fills the pipe before its input is read.
CommandsEnd ==
    \A c \in Commands :
        (at[c] # "idle")
            ~> \/ at[c] \in {"ended", "killed"}
               \/ Stalls(c)

=============================================================================
