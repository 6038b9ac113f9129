---------------------------- MODULE CommandProofs ----------------------------
(***************************************************************************)
(* Proofs about Workspace and Installers: for every number of commands     *)
(* that share build/, helm-build/ and values.memory.json, every contents   *)
(* of platform/, and every number of installs to the same cluster.         *)
(***************************************************************************)
EXTENDS Workspace, Installers, FiniteSetTheorems, WellFoundedInduction, TLAPS

(***************************************************************************)
(* Induction over numbers, as the existence of a least one.                *)
(***************************************************************************)
\* The order of the numbers.
Below == {p \in Nat \X Nat : p[1] < p[2]}

\* No number has infinitely many below it.
LEMMA NoDescent == IsWellFoundedOn(Below, Nat)
BY NatLessThanWellFounded DEF OpToRel, Below

\* Every set of numbers that is not empty has a least member.
LEMMA LeastNumber ==
    ASSUME NEW T \in SUBSET Nat, T # {}
    PROVE  \E n \in T : \A m \in T : n <= m
<1>1. PICK n \in T : \A m \in T : ~(<<m, n>> \in Below)
  BY NoDescent, WFMin, Zenon
<1>2. \A m \in T : ~(m < n)
  BY <1>1 DEF Below
<1> QED
  BY <1>2

-----------------------------------------------------------------------------
(***************************************************************************)
(* onceshell().                                                            *)
(***************************************************************************)

\* A value is lost only with a command that holds it alone: the executions so
\* far, and those of commands that found no value, are one for each mishap and
\* one more; and that one more is in the memory file, or some command has yet
\* to run it or to write it down.
Prospects == {c \in Commands : at[c] = "resolving" /\ c \notin known}
Answers(c) == at[c] \in Losing \/ c \in Prospects
OnceInv ==
    /\ executions + Cardinality(Prospects) <= 1 + mishaps
    /\ memory = "kept" \/ (\E c \in Commands : Answers(c)) \/ executions <= mishaps

ResolvingTypes ==
    /\ at \in [Commands -> Places]
    /\ memory \in {"cut", "empty", "kept"}
    /\ known \subseteq Commands
    /\ executions \in Nat
    /\ mishaps \in Nat

LEMMA CountOfProspects ==
    /\ IsFiniteSet(Prospects) /\ Cardinality(Prospects) \in Nat
    /\ \A c : c \in Prospects => Cardinality(Prospects \ {c}) = Cardinality(Prospects) - 1
    /\ \A c : c \notin Prospects => Cardinality(Prospects \cup {c}) = Cardinality(Prospects) + 1
<1>1. IsFiniteSet(Prospects)
  BY FS_Subset, WorkspaceAssumption DEF Prospects
<1> QED
  BY <1>1, FS_CardinalityType, FS_AddElement, FS_RemoveElement

\* Where a step of c leaves it, the others stay as they are.
LEMMA ProspectsAfter ==
    ASSUME ResolvingTypes, NEW c \in Commands, NEW p,
           at' = [at EXCEPT ![c] = p],
           \A d \in Commands : d # c => (d \in known' <=> d \in known)
    PROVE  /\ \A d \in Commands : d # c => (Answers(d)' <=> Answers(d))
           /\ p = "resolving" /\ c \notin known' => Prospects' = Prospects \cup {c}
           /\ ~(p = "resolving" /\ c \notin known') => Prospects' = Prospects \ {c}
<1>1. at'[c] = p /\ \A d \in Commands : d # c => at'[d] = at[d]
  BY DEF ResolvingTypes
<1> QED
  BY <1>1 DEF Prospects, Answers

\* A step of a command that has nothing in its hands.
LEMMA HarmlessKeeps ==
    ASSUME ResolvingTypes, OnceInv, NEW c \in Commands, ~Answers(c),
           UNCHANGED memVars,
           \/ at' = at
           \/ \E p \in Places : p # "resolving" /\ at' = [at EXCEPT ![c] = p]
    PROVE  ResolvingTypes' /\ OnceInv'
<1>1. ResolvingTypes'
  BY DEF ResolvingTypes, memVars
<1>2. CASE at' = at
  BY <1>1, <1>2 DEF OnceInv, Answers, Prospects, memVars
<1>3. ASSUME NEW p \in Places, p # "resolving", at' = [at EXCEPT ![c] = p]
      PROVE  OnceInv'
  <2>1. /\ \A d \in Commands : d # c => (Answers(d)' <=> Answers(d))
        /\ Prospects' = Prospects \ {c}
    BY <1>3, ProspectsAfter DEF memVars
  <2>2. Prospects' = Prospects
    BY <2>1 DEF Answers
  <2>3. (\E d \in Commands : Answers(d)) => \E d \in Commands : Answers(d)'
    BY <2>1
  <2> QED
    BY <2>2, <2>3 DEF OnceInv, memVars
<1> QED
  BY <1>1, <1>2, <1>3

\* A command ends that had the value, or its execution, in its hands: either
\* it never ran it, or that is a mishap.
LEMMA LosingKeeps ==
    ASSUME ResolvingTypes, OnceInv, NEW c \in Commands, Answers(c),
           UNCHANGED <<memory, known, executions>>, Loses(c),
           NEW p \in {"ended", "killed"}, at' = [at EXCEPT ![c] = p]
    PROVE  ResolvingTypes' /\ OnceInv'
<1>1. ResolvingTypes'
  <2>1. p \in Places
    BY DEF Places
  <2> QED
    BY <2>1 DEF ResolvingTypes, Loses
<1>2. Prospects' = Prospects \ {c}
  BY ProspectsAfter
<1>3. Cardinality(Prospects) \in Nat
  BY CountOfProspects
<1>4. CASE at[c] \in Losing
  <2>1. mishaps' = mishaps + 1 /\ c \notin Prospects
    BY <1>4 DEF Loses, Losing, Prospects
  <2>2. Prospects' = Prospects
    BY <1>2, <2>1
  <2> QED
    BY <1>1, <1>3, <2>1, <2>2 DEF OnceInv, ResolvingTypes
<1>5. CASE c \in Prospects
  <2>1. mishaps' = mishaps
    BY <1>5 DEF Loses, Losing, Prospects
  <2>2. Cardinality(Prospects') = Cardinality(Prospects) - 1
    BY <1>2, <1>5, CountOfProspects
  <2>3. Cardinality(Prospects') \in Nat
    BY <1>2, CountOfProspects, FS_RemoveElement, FS_CardinalityType
  <2> QED
    BY <1>1, <1>3, <2>1, <2>2, <2>3 DEF OnceInv, ResolvingTypes
<1> QED
  BY <1>4, <1>5 DEF Answers

LEMMA LoadKeeps ==
    ASSUME ResolvingTypes, OnceInv, NEW c \in Commands, LoadMemory(c)
    PROVE  ResolvingTypes' /\ OnceInv'
<1> USE DEF To, Fail, End
<1>1. at[c] = "loading" /\ ~Answers(c)
  BY DEF LoadMemory, Answers, Losing, Prospects
<1>2. CASE Fail(c) /\ UNCHANGED <<known, mishaps>>
  <2>1. UNCHANGED memVars /\ "ended" \in Places
    BY <1>2 DEF LoadMemory, memVars, Places
  <2> QED
    BY <1>1, <1>2, <2>1, HarmlessKeeps
<1>3. ASSUME /\ at' = [at EXCEPT ![c] = "resolving"]
             /\ known' = IF memory = "kept" THEN known \cup {c} ELSE known
             /\ mishaps' = IF Others(c, Resolving) # {} THEN mishaps + 1 ELSE mishaps
      PROVE  ResolvingTypes' /\ OnceInv'
  <2>1. UNCHANGED <<memory, executions>>
    BY DEF LoadMemory
  <2>2. ResolvingTypes'
    <3>1. "resolving" \in Places
      BY DEF Places, Resolving
    <3> QED
      BY <1>3, <2>1, <3>1 DEF ResolvingTypes
  <2>3. /\ \A d \in Commands : d # c => (Answers(d)' <=> Answers(d))
        /\ c \notin known' => Prospects' = Prospects \cup {c}
        /\ ~(c \notin known') => Prospects' = Prospects \ {c}
    <3>1. \A d \in Commands : d # c => (d \in known' <=> d \in known)
      BY <1>3
    <3> QED
      BY <1>3, <3>1, ProspectsAfter
  <2>4. c \notin Prospects /\ Prospects \ {c} = Prospects
    BY <1>1 DEF Answers
  <2>5. Cardinality(Prospects) \in Nat /\ mishaps' \in {mishaps, mishaps + 1}
    BY <1>3, CountOfProspects
  <2>6. CASE c \in known'
    <3>1. Prospects' = Prospects
      BY <2>3, <2>4, <2>6
    <3>2. (\E d \in Commands : Answers(d)) => \E d \in Commands : Answers(d)'
      BY <1>1, <2>3
    <3> QED
      BY <2>1, <2>2, <2>5, <3>1, <3>2 DEF OnceInv, ResolvingTypes
  <2>7. CASE c \notin known'
    <3>1. Prospects' = Prospects \cup {c} /\ memory # "kept"
      BY <1>3, <2>3, <2>7
    <3>2. Cardinality(Prospects') = Cardinality(Prospects) + 1
      BY <2>4, <3>1, CountOfProspects
    <3>3. Answers(c)'
      BY <3>1 DEF Answers
    <3>4. CASE Others(c, Resolving) # {}
      <4>1. mishaps' = mishaps + 1
        BY <1>3, <3>4
      <4> QED
        BY <2>1, <2>2, <2>5, <3>2, <3>3, <4>1 DEF OnceInv, ResolvingTypes
    <3>5. CASE Others(c, Resolving) = {}
      <4>1. \A d \in Commands : ~Answers(d)
        BY <1>1, <3>5 DEF Others, Answers, Prospects, Resolving
      <4>2. executions <= mishaps /\ Prospects = {}
        BY <3>1, <4>1 DEF OnceInv, Answers, Prospects
      <4>3. Cardinality(Prospects') = 1 /\ mishaps' = mishaps
        BY <1>3, <3>2, <3>5, <4>2, FS_EmptySet
      <4> QED
        BY <2>1, <2>2, <3>3, <4>2, <4>3 DEF OnceInv, ResolvingTypes
    <3> QED
      BY <3>4, <3>5
  <2> QED
    BY <2>6, <2>7
<1> QED
  BY <1>2, <1>3 DEF LoadMemory

LEMMA ResolveKeeps ==
    ASSUME ResolvingTypes, OnceInv, NEW c \in Commands, Resolve(c)
    PROVE  ResolvingTypes' /\ OnceInv'
<1> USE DEF To, Fail, End
<1>0. {"ended", "loading", "helmCollecting", "rest", "saving", "shelling", "keeping",
       "cut", "finalCut", "replacing", "helmWiping", "wiping"} \subseteq Places
  BY DEF Places, Resolving, Losing, UsesHelm
<1>1. CASE Start(c) \/ OnceCached(c) \/ ResolveRest(c) \/ Replace(c)
  <2>1. UNCHANGED memVars
    BY <1>1 DEF Start, OnceCached, ResolveRest, Replace
  <2>2. ~Answers(c)
    BY <1>1 DEF Start, OnceCached, ResolveRest, Replace, Answers, Losing, Prospects
  <2>3. \E p \in Places : p # "resolving" /\ at' = [at EXCEPT ![c] = p]
    <3>1. \E p \in {"ended", "loading", "helmCollecting", "rest", "saving"} :
             at' = [at EXCEPT ![c] = p]
      BY <1>1 DEF Start, OnceCached, ResolveRest, Replace
    <3> QED
      BY <1>0, <3>1
  <2> QED
    BY <2>1, <2>2, <2>3, HarmlessKeeps
<1>2. CASE LoadMemory(c)
  BY <1>2, LoadKeeps
<1>3. CASE OnceBegins(c)
  <2>1. /\ c \in Prospects /\ Answers(c) /\ UNCHANGED <<memory, known, mishaps>>
        /\ at[c] \notin Losing
    BY <1>3 DEF OnceBegins, Prospects, Answers, Losing
  <2>2. CASE Fail(c) /\ UNCHANGED executions
    BY <2>1, <2>2, LosingKeeps DEF Loses
  <2>3. CASE at' = [at EXCEPT ![c] = "shelling"] /\ executions' = executions + 1
    <3>1. ResolvingTypes'
      BY <1>0, <2>1, <2>3 DEF ResolvingTypes
    <3>2. Prospects' = Prospects \ {c}
      <4>1. /\ known' = known /\ at'[c] = "shelling"
            /\ \A d \in Commands : d # c => at'[d] = at[d]
        BY <2>1, <2>3 DEF ResolvingTypes
      <4> QED
        BY <4>1 DEF Prospects
    <3>3. /\ Cardinality(Prospects') = Cardinality(Prospects) - 1
          /\ Cardinality(Prospects) \in Nat
      BY <2>1, <3>2, CountOfProspects
    <3>4. Answers(c)'
      BY <2>3 DEF Answers, Losing, ResolvingTypes
    <3> QED
      BY <2>1, <2>3, <3>1, <3>3, <3>4 DEF OnceInv, ResolvingTypes
  <2> QED
    BY <1>3, <2>2, <2>3 DEF OnceBegins
<1>4. CASE OnceEnds(c)
  <2>1. at[c] \in Losing /\ Answers(c) /\ UNCHANGED <<memory, executions>>
    BY <1>4 DEF OnceEnds, Answers, Losing
  <2>2. CASE Fail(c) /\ mishaps' = mishaps + 1 /\ UNCHANGED known
    BY <2>1, <2>2, LosingKeeps DEF Loses
  <2>3. CASE /\ at' = [at EXCEPT ![c] = "keeping"] /\ known' = known \cup {c}
             /\ UNCHANGED mishaps
    <3>1. ResolvingTypes'
      BY <1>0, <2>1, <2>3 DEF ResolvingTypes
    <3>2. Prospects' = Prospects \ {c}
      BY <2>3, ProspectsAfter
    <3>3. Prospects' = Prospects
      BY <3>2, <2>1 DEF Prospects, Losing
    <3>4. Answers(c)'
      BY <2>3 DEF Answers, Losing, ResolvingTypes
    <3> QED
      BY <2>1, <2>3, <3>1, <3>3, <3>4 DEF OnceInv
  <2> QED
    BY <1>4, <2>2, <2>3 DEF OnceEnds
<1>5. CASE CutMemory(c)
  <2>1. PICK p \in {"cut", "finalCut"} : at' = [at EXCEPT ![c] = p]
    BY <1>5 DEF CutMemory
  <2>2. /\ at[c] \in {"keeping", "saving"} /\ memory' = "cut"
        /\ UNCHANGED <<known, executions, mishaps>>
    BY <1>5 DEF CutMemory
  <2>3. ResolvingTypes'
    BY <1>0, <2>1, <2>2 DEF ResolvingTypes
  <2>4. Prospects' = Prospects \ {c}
    BY <2>1, <2>2, ProspectsAfter
  <2>5. Prospects' = Prospects
    BY <2>2, <2>4 DEF Prospects
  <2>6. Answers(c)'
    BY <2>1 DEF Answers, Losing, ResolvingTypes
  <2> QED
    BY <2>2, <2>3, <2>5, <2>6 DEF OnceInv
<1>6. CASE WriteMemory(c)
  <2>1. PICK p \in {"rest", "replacing", "helmWiping", "wiping"} : at' = [at EXCEPT ![c] = p]
    BY <1>6 DEF WriteMemory
  <2>2. /\ at[c] \in {"cut", "finalCut"} /\ memory' = "kept"
        /\ UNCHANGED <<known, executions, mishaps>>
    BY <1>6 DEF WriteMemory
  <2>3. ResolvingTypes'
    BY <1>0, <2>1, <2>2 DEF ResolvingTypes
  <2>4. Prospects' = Prospects \ {c}
    BY <2>1, <2>2, ProspectsAfter
  <2>5. Prospects' = Prospects
    BY <2>2, <2>4 DEF Prospects
  <2> QED
    BY <2>2, <2>3, <2>5 DEF OnceInv
<1>7. CASE SaveFails(c)
  <2>1. /\ UNCHANGED <<memory, known, executions>> /\ Loses(c)
        /\ at' = [at EXCEPT ![c] = "ended"]
        /\ at[c] \in {"keeping", "cut", "saving", "finalCut"}
    BY <1>7 DEF SaveFails
  <2>2. CASE Answers(c)
    BY <2>1, <2>2, LosingKeeps
  <2>3. CASE ~Answers(c)
    <3>1. UNCHANGED memVars
      BY <2>1, <2>3 DEF memVars, Loses, Answers
    <3> QED
      BY <1>0, <2>1, <2>3, <3>1, HarmlessKeeps
  <2> QED
    BY <2>2, <2>3
<1> QED
  BY <1>1, <1>2, <1>3, <1>4, <1>5, <1>6, <1>7 DEF Resolve

LEMMA KillKeeps ==
    ASSUME ResolvingTypes, OnceInv, NEW c \in Commands, Kill(c)
    PROVE  ResolvingTypes' /\ OnceInv'
<1>1. /\ UNCHANGED <<memory, known, executions>> /\ Loses(c)
      /\ at' = [at EXCEPT ![c] = "killed"] /\ "killed" \in Places
  BY DEF Kill, To, Places
<1>2. CASE Answers(c)
  BY <1>1, <1>2, LosingKeeps
<1>3. CASE ~Answers(c)
  <2>1. UNCHANGED memVars
    BY <1>1, <1>3 DEF memVars, Loses, Answers
  <2> QED
    BY <1>1, <1>3, <2>1, HarmlessKeeps
<1> QED
  BY <1>2, <1>3

\* What renders, applies and installs has resolved its values.
LEMMA AfterwardsKeeps ==
    ASSUME ResolvingTypes, OnceInv, NEW c \in Commands,
           Plan(c) \/ Rollout(c) \/ DryRun(c) \/ Helm(c)
    PROVE  ResolvingTypes' /\ OnceInv'
<1> USE DEF To, Fail, End
<1>1. UNCHANGED memVars
  BY DEF Plan, Wipe, WipeFails, Render, RenderFails, Rendered, Rollout,
         Collect, FileFails, ReadFile, Apply, Summary, DryRun, Diff, DiffEnds,
         Helm, HelmWipe, HelmWipeFails, HelmRender, HelmCollect, HelmInstall
<1>2. at[c] \in {"wiping", "helmWiping"} \cup UsesBuild \cup UsesHelm
  BY DEF Plan, Wipe, WipeFails, Render, RenderFails, Rendered, Rollout,
         Collect, FileFails, ReadFile, Apply, Summary, DryRun, Diff, DiffEnds,
         Helm, HelmWipe, HelmWipeFails, HelmRender, HelmCollect, HelmInstall,
         UsesBuild, UsesHelm
<1>3. \/ at' = at
      \/ \E p \in {"ended"} \cup UsesBuild \cup UsesHelm :
            at' = [at EXCEPT ![c] = p]
  <2>1. CASE Plan(c)
    BY <2>1 DEF Plan, Wipe, WipeFails, Render, RenderFails, Rendered, UsesBuild
  <2>2. CASE Rollout(c) \/ DryRun(c)
    BY <2>2 DEF Rollout, Collect, FileFails, ReadFile, Apply, Summary, DryRun,
                Diff, DiffEnds, UsesBuild
  <2>3. CASE Helm(c)
    BY <2>3 DEF Helm, HelmWipe, HelmWipeFails, HelmRender, HelmCollect,
                HelmInstall, UsesHelm
  <2> QED
    BY <2>1, <2>2, <2>3
<1>4. \A p \in {"wiping", "helmWiping", "ended"} \cup UsesBuild \cup UsesHelm :
         p \in Places /\ p \notin Losing /\ p # "resolving"
  BY DEF Places, Losing, UsesBuild, UsesHelm
<1>5. ~Answers(c)
  BY <1>2, <1>4 DEF Answers, Prospects
<1> QED
  BY <1>1, <1>3, <1>4, <1>5, HarmlessKeeps

LEMMA OnceKept ==
    ResolvingTypes /\ OnceInv /\ [WorkspaceNext]_wsVars
        => ResolvingTypes' /\ OnceInv'
<1> SUFFICES ASSUME ResolvingTypes, OnceInv, [WorkspaceNext]_wsVars
             PROVE  ResolvingTypes' /\ OnceInv'
  OBVIOUS
<1>1. CASE EditCharts \/ UNCHANGED wsVars
  <2>1. UNCHANGED <<memVars, at>>
    BY <1>1 DEF EditCharts, wsVars
  <2> QED
    BY <2>1 DEF memVars, ResolvingTypes, OnceInv, Answers, Prospects
<1>2. ASSUME NEW c \in Commands, CommandStep(c) \/ Kill(c)
      PROVE  ResolvingTypes' /\ OnceInv'
  BY <1>2, ResolveKeeps, AfterwardsKeeps, KillKeeps DEF CommandStep
<1> QED
  BY <1>1, <1>2 DEF WorkspaceNext

LEMMA InitOnce == WorkspaceInit => ResolvingTypes /\ OnceInv
<1> SUFFICES ASSUME WorkspaceInit
             PROVE  ResolvingTypes /\ OnceInv
  OBVIOUS
<1>1. /\ \A c \in Commands : at[c] = "idle"
      /\ executions = 0 /\ memory = "empty" /\ mishaps = 0
  BY DEF WorkspaceInit
<1>2. ResolvingTypes
  BY DEF WorkspaceInit, ResolvingTypes, Places
<1>3. Prospects = {}
  BY <1>1 DEF Prospects
<1> QED
  BY <1>1, <1>2, <1>3, FS_EmptySet DEF OnceInv

\* However many commands run, one after the other or at the same time, and
\* wherever they fail or are killed, onceshell() is run once and at most once
\* more for each command that began to resolve values beside another, or that
\* ended while it ran the shell command or wrote its value down.
THEOREM RunOnce == WorkspaceSpec => []OnceMeansOnce
<1>1. ResolvingTypes /\ OnceInv => OnceMeansOnce
  BY CountOfProspects DEF ResolvingTypes, OnceInv, OnceMeansOnce
<1> QED
  BY <1>1, InitOnce, OnceKept, PTL DEF WorkspaceSpec
-----------------------------------------------------------------------------
(***************************************************************************)
(* install-helm-charts.                                                    *)
(***************************************************************************)

\* While an install that is not disturbed uses helm-build/, nobody else
\* writes there, and what is there is its own and planned.
HelmTypes ==
    /\ at \in [Commands -> Places]
    /\ planned \in [Commands -> SUBSET Clusters]
    /\ left \in [Commands -> SUBSET Clusters]
    /\ helmBuild \in [Clusters -> Owner]
    /\ installed \in [Commands -> SUBSET [cluster : Clusters, by : Owner]]
    /\ disturbed \subseteq Commands
    /\ charts \subseteq Clusters
HelmOwn(c) ==
    planned[c] # {} /\ at[c] \in UsesHelm =>
        /\ \A d \in Commands : d # c => at[d] # "helmRendering"
        /\ \A k \in Clusters : helmBuild[k] # Absent
             => helmBuild[k] = c /\ k \in planned[c]
        /\ at[c] = "helmRendering" => left[c] \subseteq planned[c]
Planned(c) ==
    /\ at[c] = "idle" => installed[c] = {}
    /\ planned[c] # {} => \A i \in installed[c] : i.by = c /\ i.cluster \in planned[c]
HelmInv == HelmTypes /\ \A c \in Commands \ disturbed : HelmOwn(c) /\ Planned(c)

\* Steps that leave helm-build/ alone and do not enter it.
LEMMA HelmFrame ==
    ASSUME HelmInv, NEW c \in Commands,
           UNCHANGED <<planned, left, helmBuild, installed>>,
           charts' \subseteq Clusters,
           at' = at \/ \E p \in Places : p # "idle" /\ at' = [at EXCEPT ![c] = p],
           at'[c] \in UsesHelm => at[c] \in UsesHelm \/ planned[c] = {},
           at'[c] = "helmRendering" => at[c] = "helmRendering",
           disturbed \subseteq disturbed', disturbed' \subseteq Commands
    PROVE  HelmInv'
<1>1. HelmTypes'
  BY DEF HelmInv, HelmTypes
<1>2. \A d \in Commands : /\ d # c => at'[d] = at[d]
                          /\ at'[d] = "idle" => at[d] = "idle"
                          /\ at'[d] = "helmRendering" => at[d] = "helmRendering"
  BY DEF HelmInv, HelmTypes
<1>3. ASSUME NEW d \in Commands \ disturbed'
      PROVE  (HelmOwn(d) /\ Planned(d))'
  <2>1. HelmOwn(d) /\ Planned(d)
    BY DEF HelmInv
  <2>2. planned[d] # {} /\ at'[d] \in UsesHelm => at[d] \in UsesHelm
    BY <1>2
  <2>3. HelmOwn(d)'
    BY <1>2, <2>1, <2>2 DEF HelmOwn
  <2>4. Planned(d)'
    BY <1>2, <2>1 DEF Planned
  <2> QED
    BY <2>3, <2>4
<1> QED
  BY <1>1, <1>3 DEF HelmInv

\* An install that finds its charts: it has installed nothing yet.
LEMMA StartKeepsHelm ==
    ASSUME HelmInv, NEW c \in Commands, Start(c)
    PROVE  HelmInv'
<1> USE DEF To, Fail, End
<1>0. HelmTypes
  BY DEF HelmInv
<1>1. CASE cmd[c] # "install-helm-charts"
  <2>1. /\ UNCHANGED <<planned, left, helmBuild, installed, disturbed, charts>>
        /\ at' = [at EXCEPT ![c] = "loading"] \/ at' = [at EXCEPT ![c] = "ended"]
    BY <1>1 DEF Start, sources
  <2>2. at'[c] \in {"loading", "ended"}
    BY <1>0, <2>1 DEF HelmTypes
  <2> QED
    BY <1>0, <2>1, <2>2, HelmFrame DEF HelmTypes, Places, UsesHelm
<1>2. CASE cmd[c] = "install-helm-charts"
  <2>1. /\ UNCHANGED <<left, helmBuild, installed, disturbed, charts>>
        /\ planned' = [planned EXCEPT ![c] = charts]
        /\ at[c] = "idle"
        /\ \/ charts = {} /\ at' = [at EXCEPT ![c] = "helmCollecting"]
           \/ at' = [at EXCEPT ![c] = "loading"]
           \/ at' = [at EXCEPT ![c] = "ended"]
    BY <1>2 DEF Start, sources
  <2>2. /\ planned'[c] = charts
        /\ at'[c] \in {"loading", "ended", "helmCollecting"}
        /\ at'[c] = "helmCollecting" => charts = {}
        /\ \A d \in Commands : d # c => planned'[d] = planned[d] /\ at'[d] = at[d]
    BY <1>0, <2>1 DEF HelmTypes
  <2>3. HelmTypes'
    <3>1. at' \in [Commands -> Places]
      BY <1>0, <2>1 DEF HelmTypes, Places, UsesHelm
    <3> QED
      BY <1>0, <2>1, <3>1 DEF HelmTypes
  <2>4. ASSUME NEW d \in Commands \ disturbed
        PROVE  (HelmOwn(d) /\ Planned(d))'
    <3>1. HelmOwn(d) /\ Planned(d)
      BY DEF HelmInv
    <3>2. CASE d = c
      BY <2>1, <2>2, <3>1, <3>2 DEF HelmOwn, Planned, UsesHelm
    <3>3. CASE d # c
      BY <2>1, <2>2, <3>1, <3>3 DEF HelmOwn, Planned
    <3> QED
      BY <3>2, <3>3
  <2> QED
    BY <2>1, <2>3, <2>4 DEF HelmInv
<1> QED
  BY <1>1, <1>2

\* remove_dir_all(helm-build): whoever uses it is disturbed, and so is this
\* install if another writes it.
LEMMA WipeKeepsHelm ==
    ASSUME HelmInv, NEW c \in Commands, HelmWipe(c)
    PROVE  HelmInv'
<1>0. HelmTypes
  BY DEF HelmInv
<1>1. /\ at[c] = "helmWiping"
      /\ at' = [at EXCEPT ![c] = "helmRendering"]
      /\ helmBuild' = [k \in Clusters |-> Absent]
      /\ left' = [left EXCEPT ![c] = planned[c]]
      /\ UNCHANGED <<planned, installed, charts>>
      /\ disturbed' = disturbed \cup Others(c, UsesHelm)
                 \cup (IF Others(c, {"helmRendering"}) # {} THEN {c} ELSE {})
  BY DEF HelmWipe, To, Fail, End, Disturbs, sources
<1>2. HelmTypes'
  <2>1. at' \in [Commands -> Places]
    BY <1>0, <1>1 DEF HelmTypes, Places, UsesHelm
  <2>2. disturbed' \subseteq Commands
    BY <1>0, <1>1 DEF HelmTypes, Others
  <2>3. helmBuild' \in [Clusters -> Owner]
    BY <1>1 DEF Owner
  <2> QED
    BY <1>0, <1>1, <2>1, <2>2, <2>3 DEF HelmTypes
<1>3. ASSUME NEW d \in Commands \ disturbed'
      PROVE  (HelmOwn(d) /\ Planned(d))'
  <2>1. d \notin disturbed /\ HelmOwn(d) /\ Planned(d)
    BY <1>1 DEF HelmInv
  <2>2. CASE d # c
    <3>1. at[d] \notin UsesHelm /\ at'[d] = at[d]
      BY <1>0, <1>1, <2>2 DEF HelmTypes, Others
    <3> QED
      BY <1>1, <2>1, <3>1 DEF HelmOwn, Planned
  <2>3. CASE d = c
    <3>1. Others(c, {"helmRendering"}) = {}
      BY <1>1, <2>3
    <3>2. \A e \in Commands : e # c => at'[e] # "helmRendering"
      BY <1>0, <1>1, <3>1 DEF HelmTypes, Others
    <3>3. at'[c] # "idle" /\ left'[c] = planned[c]
      BY <1>0, <1>1 DEF HelmTypes
    <3> QED
      BY <1>1, <2>1, <2>3, <3>2, <3>3 DEF HelmOwn, Planned
  <2> QED
    BY <2>2, <2>3
<1> QED
  BY <1>2, <1>3 DEF HelmInv

\* An install that ends before it renders, with helm-build/ as it was or with
\* part of it removed.
LEMMA WipeFailsKeepsHelm ==
    ASSUME HelmInv, NEW c \in Commands, HelmWipeFails(c)
    PROVE  HelmInv'
<1>0. HelmTypes
  BY DEF HelmInv
<1>1. /\ at[c] = "helmWiping" /\ at' = [at EXCEPT ![c] = "ended"]
      /\ UNCHANGED <<planned, left, installed, charts>>
  BY DEF HelmWipeFails, Fail, End, sources
<1>2. /\ at'[c] = "ended" /\ \A d \in Commands : d # c => at'[d] = at[d]
      /\ at' \in [Commands -> Places]
  BY <1>0, <1>1 DEF HelmTypes, Places
<1>3. /\ helmBuild' \in [Clusters -> Owner]
      /\ disturbed \subseteq disturbed' /\ disturbed' \subseteq Commands
      /\ \A k \in Clusters : helmBuild'[k] # Absent => helmBuild'[k] = helmBuild[k]
  <2>1. CASE UNCHANGED <<helmBuild, disturbed>>
    BY <1>0, <2>1 DEF HelmTypes
  <2>2. CASE /\ \E kept \in SUBSET Clusters :
                  helmBuild' = [k \in Clusters |-> IF k \in kept THEN helmBuild[k] ELSE Absent]
             /\ Disturbs(c, UsesHelm, "helmRendering")
    BY <1>0, <2>2 DEF HelmTypes, Owner, Disturbs, Others
  <2> QED
    BY <2>1, <2>2 DEF HelmWipeFails
<1>4. HelmTypes'
  BY <1>0, <1>1, <1>2, <1>3 DEF HelmTypes
<1>5. ASSUME NEW d \in Commands \ disturbed'
      PROVE  (HelmOwn(d) /\ Planned(d))'
  <2>1. HelmOwn(d) /\ Planned(d)
    BY <1>3 DEF HelmInv
  <2>2. at'[d] \in UsesHelm => d # c /\ at[d] \in UsesHelm
    BY <1>2 DEF UsesHelm
  <2>3. HelmOwn(d)'
    BY <1>1, <1>2, <1>3, <2>1, <2>2 DEF HelmOwn
  <2>4. Planned(d)'
    BY <1>1, <1>2, <2>1 DEF Planned
  <2> QED
    BY <2>3, <2>4
<1> QED
  BY <1>4, <1>5 DEF HelmInv

\* Rendering, collecting and installing, from a helm-build/ that is its own.
LEMMA InstallKeepsHelm ==
    ASSUME HelmInv, NEW c \in Commands,
           HelmRender(c) \/ HelmCollect(c) \/ HelmInstall(c)
    PROVE  HelmInv'
<1> USE DEF To, Fail, End
<1>0. HelmTypes
  BY DEF HelmInv
<1>1. /\ at[c] \in UsesHelm /\ UNCHANGED <<planned, disturbed, charts>>
      /\ \/ at' = at
         \/ \E p \in {"helmCollecting", "installing", "ended"} :
               at' = [at EXCEPT ![c] = p]
  BY DEF HelmRender, HelmCollect, HelmInstall, UsesHelm, sources
<1>2. /\ \A d \in Commands : d # c => at'[d] = at[d]
      /\ at'[c] = "helmRendering" => at[c] = "helmRendering"
      /\ at'[c] # "idle" /\ at[c] # "idle"
  BY <1>0, <1>1 DEF HelmTypes, UsesHelm
<1>3. /\ helmBuild' = helmBuild
      \/ /\ at[c] = "helmRendering"
         /\ \E k \in left[c] : helmBuild' = [helmBuild EXCEPT ![k] = c]
  BY DEF HelmRender, HelmCollect, HelmInstall
<1>4. /\ left' \in [Commands -> SUBSET Clusters]
      /\ at'[c] = "helmRendering" => left'[c] \subseteq left[c]
      /\ \A d \in Commands : d # c => left'[d] = left[d]
  <2>1. CASE HelmRender(c) \/ HelmInstall(c)
    BY <1>0, <2>1 DEF HelmRender, HelmInstall, HelmTypes
  <2>2. CASE HelmCollect(c)
    BY <1>0, <1>2, <2>2 DEF HelmCollect, HelmTypes
  <2> QED
    BY <2>1, <2>2
<1>5. \/ installed' = installed
      \/ \E k \in Clusters : /\ at[c] = "installing" /\ helmBuild[k] # Absent
                             /\ TakesChart(c, k)
  BY <1>0 DEF HelmRender, HelmCollect, HelmInstall, HelmTypes
<1>6. HelmTypes'
  <2>1. at' \in [Commands -> Places]
    BY <1>0, <1>1 DEF HelmTypes, Places, UsesHelm
  <2>2. helmBuild' \in [Clusters -> Owner]
    BY <1>0, <1>3 DEF HelmTypes, Owner
  <2>3. installed' \in [Commands -> SUBSET [cluster : Clusters, by : Owner]]
    BY <1>0, <1>5 DEF HelmTypes, TakesChart
  <2> QED
    BY <1>0, <1>1, <1>4, <2>1, <2>2, <2>3 DEF HelmTypes
<1>7. ASSUME NEW d \in Commands \ disturbed'
      PROVE  (HelmOwn(d) /\ Planned(d))'
  <2>1. d \notin disturbed /\ HelmOwn(d) /\ Planned(d)
    BY <1>1 DEF HelmInv
  <2>2. CASE d # c
    <3>1. installed'[d] = installed[d]
      BY <1>0, <1>5, <2>2 DEF HelmTypes, TakesChart
    <3>2. planned[d] # {} /\ at[d] \in UsesHelm => helmBuild' = helmBuild
      BY <1>3, <2>1, <2>2 DEF HelmOwn
    <3>3. HelmOwn(d)'
      BY <1>1, <1>2, <1>4, <2>1, <2>2, <3>2 DEF HelmOwn
    <3> QED
      BY <1>1, <1>2, <2>1, <2>2, <3>1, <3>3 DEF Planned
  <2>3. CASE d = c
    <3>1. CASE planned[c] = {}
      BY <1>1, <1>2, <2>3, <3>1 DEF HelmOwn, Planned
    <3>2. CASE planned[c] # {}
      <4>1. /\ \A e \in Commands : e # c => at[e] # "helmRendering"
            /\ \A k \in Clusters : helmBuild[k] # Absent
                 => helmBuild[k] = c /\ k \in planned[c]
            /\ at[c] = "helmRendering" => left[c] \subseteq planned[c]
        BY <1>1, <2>1, <2>3, <3>2 DEF HelmOwn
      <4>2. \A k \in Clusters : helmBuild'[k] # Absent
                 => helmBuild'[k] = c /\ k \in planned[c]
        BY <1>0, <1>3, <4>1 DEF HelmTypes
      <4>3. HelmOwn(c)'
        BY <1>1, <1>2, <1>4, <4>1, <4>2 DEF HelmOwn
      <4>4. \A i \in installed[c] : i.by = c /\ i.cluster \in planned[c]
        BY <2>1, <2>3, <3>2 DEF Planned
      <4>5. \A i \in installed'[c] : i.by = c /\ i.cluster \in planned[c]
        BY <1>0, <1>5, <4>1, <4>4 DEF HelmTypes, TakesChart
      <4> QED
        BY <1>1, <1>2, <2>3, <4>3, <4>5 DEF Planned
    <3> QED
      BY <3>1, <3>2
  <2> QED
    BY <2>2, <2>3
<1> QED
  BY <1>6, <1>7 DEF HelmInv

\* Everything else leaves helm-build/ alone.
LEMMA OthersKeepHelm ==
    ASSUME HelmInv, NEW c \in Commands,
           \/ LoadMemory(c) \/ OnceCached(c) \/ OnceBegins(c) \/ OnceEnds(c)
           \/ CutMemory(c)
           \/ WriteMemory(c) \/ SaveFails(c) \/ ResolveRest(c) \/ Replace(c)
           \/ Plan(c) \/ Rollout(c) \/ DryRun(c) \/ Kill(c)
    PROVE  HelmInv'
<1> USE DEF To, Fail, End
<1>0. HelmTypes
  BY DEF HelmInv
<1>1. /\ UNCHANGED <<planned, left, helmBuild, installed, charts>>
      /\ disturbed \subseteq disturbed' /\ disturbed' \subseteq Commands
  BY <1>0 DEF LoadMemory, OnceCached, OnceBegins, OnceEnds, CutMemory, WriteMemory,
     SaveFails, ResolveRest, Replace, Plan, Wipe, WipeFails, Render,
     RenderFails, Rendered, Rollout, Collect, FileFails, ReadFile, Apply,
     Summary, DryRun, Diff, DiffEnds, Kill, Disturbs, Others, HelmTypes,
     helmVars, sources
<1>2. \/ at' = at
      \/ \E p \in Places \ (UsesHelm \cup {"idle"}) : at' = [at EXCEPT ![c] = p]
  <2>1. CASE \/ LoadMemory(c) \/ OnceCached(c) \/ OnceBegins(c) \/ OnceEnds(c)
           \/ CutMemory(c)
             \/ WriteMemory(c) \/ SaveFails(c) \/ ResolveRest(c) \/ Replace(c)
             \/ Kill(c)
    BY <2>1 DEF LoadMemory, OnceCached, OnceBegins, OnceEnds, CutMemory, WriteMemory,
       SaveFails, ResolveRest, Replace, Kill, Places, Resolving, Losing,
       UsesBuild, UsesHelm
  <2>2. CASE Plan(c) \/ Rollout(c) \/ DryRun(c)
    BY <2>2 DEF Plan, Wipe, WipeFails, Render, RenderFails, Rendered, Rollout,
       Collect, FileFails, ReadFile, Apply, Summary, DryRun, Diff, DiffEnds,
       Places, UsesBuild, UsesHelm
  <2> QED
    BY <2>1, <2>2
<1>3. CASE at' = at
  BY <1>0, <1>1, <1>3, HelmFrame DEF HelmTypes
<1>4. ASSUME NEW p \in Places \ (UsesHelm \cup {"idle"}),
             at' = [at EXCEPT ![c] = p]
      PROVE  HelmInv'
  <2>1. at'[c] = p /\ p # "helmRendering"
    BY <1>0, <1>4 DEF HelmTypes, UsesHelm
  <2> QED
    BY <1>0, <1>1, <1>4, <2>1, HelmFrame DEF HelmTypes
<1> QED
  BY <1>2, <1>3, <1>4

LEMMA HelmKept == HelmInv /\ [WorkspaceNext]_wsVars => HelmInv'
<1> SUFFICES ASSUME HelmInv, [WorkspaceNext]_wsVars
             PROVE  HelmInv'
  OBVIOUS
<1>1. CASE EditCharts \/ UNCHANGED wsVars
  <2>1. /\ UNCHANGED <<at, planned, left, helmBuild, installed, disturbed>>
        /\ charts' = charts \/ charts' \subseteq Clusters
    BY <1>1 DEF EditCharts, wsVars, helmVars
  <2> QED
    BY <2>1 DEF HelmInv, HelmTypes, HelmOwn, Planned
<1>2. ASSUME NEW c \in Commands, CommandStep(c) \/ Kill(c)
      PROVE  HelmInv'
  BY <1>2, StartKeepsHelm, WipeKeepsHelm, WipeFailsKeepsHelm, InstallKeepsHelm, OthersKeepHelm
     DEF CommandStep, Resolve, Helm
<1> QED
  BY <1>1, <1>2 DEF WorkspaceNext

LEMMA InitHelm == WorkspaceInit => HelmInv
<1> SUFFICES ASSUME WorkspaceInit
             PROVE  HelmInv
  OBVIOUS
<1>1. HelmTypes
  BY DEF WorkspaceInit, HelmTypes, Places, Owner
<1>2. \A c \in Commands : HelmOwn(c) /\ Planned(c)
  BY DEF WorkspaceInit, HelmOwn, Planned
<1> QED
  BY <1>1, <1>2 DEF HelmInv

\* An install that found charts in platform/ installs those and no others,
\* whatever an earlier command left in helm-build/ and wherever it is killed,
\* unless another install used helm-build/ at the same time.
THEOREM PlannedOnly == WorkspaceSpec => []InstallsThePlanned
<1>1. HelmInv => InstallsThePlanned
  BY DEF HelmInv, Planned, InstallsThePlanned
<1> QED
  BY <1>1, InitHelm, HelmKept, PTL DEF WorkspaceSpec
-----------------------------------------------------------------------------
(***************************************************************************)
(* install-restic-controller.                                              *)
(***************************************************************************)

\* While the install that started last runs alone, what it has come past is
\* as it wants it; and it is the only one that is under way.
WroteBinding(i) == cluster.binding = Wants[i].ns
WroteRole(i) == cluster.role[Wants[i].ns] = Wants[i].secret
WroteDeployment(i) == cluster.deployment[Wants[i].ns] = Wants[i].secret
Owns(i) ==
    /\ doing[i] # NotBegun => Under \subseteq {i}
    /\ doing[i] \in 5..Applied => WroteBinding(i)
    /\ doing[i] \in 6..Applied => WroteRole(i)
    /\ doing[i] = Applied => WroteDeployment(i)
    /\ installEnd[i] = "ok" => WroteBinding(i) /\ WroteRole(i) /\ WroteDeployment(i)
InstallInv ==
    /\ InstallersTypeOK
    /\ \A i \in Installs : installEnd[i] = "ok" => doing[i] = Over
    /\ \A i \in Installs \ together : newest = i => Owns(i)

\* What an install has come past and no install takes away again.
HasFixed(i) ==
    /\ doing[i] \in 2..Applied \/ installEnd[i] = "ok" => cluster.crd = TRUE
    /\ doing[i] \in 3..Applied \/ installEnd[i] = "ok" => Wants[i].ns \in cluster.account
    /\ doing[i] \in 4..Applied \/ installEnd[i] = "ok" => cluster.clusterRole = TRUE
    /\ doing[i] \in 7..Applied \/ installEnd[i] = "ok" => Wants[i].ns \in cluster.roleBinding
FixedInv == \A i \in Installs : HasFixed(i)

LEMMA OrderOfObjects ==
    /\ Applied = 8 /\ Over = 9 /\ DOMAIN Order = 1..7
    /\ Order[1] = "crd" /\ Order[2] = "account" /\ Order[3] = "clusterRole"
    /\ Order[4] = "binding" /\ Order[5] = "role" /\ Order[6] = "roleBinding"
    /\ Order[7] = "deployment"
<1>1. Len(Order) = 7 /\ DOMAIN Order = 1..7
  BY DEF Order
<1> QED
  BY <1>1 DEF Applied, Over, Order

\* What applying the object adds, and that none of these is taken away.
AddsFixed(i) ==
    /\ doing[i] = 1 \/ cluster.crd = TRUE => cluster'.crd = TRUE
    /\ doing[i] = 2 => Wants[i].ns \in cluster'.account
    /\ doing[i] = 3 \/ cluster.clusterRole = TRUE => cluster'.clusterRole = TRUE
    /\ doing[i] = 6 => Wants[i].ns \in cluster'.roleBinding
    /\ cluster.account \subseteq cluster'.account
    /\ cluster.roleBinding \subseteq cluster'.roleBinding

\* What each object changes when it is applied.
LEMMA AppliedObject ==
    ASSUME InstallersTypeOK, NEW i \in Installs, doing[i] \in 1..7,
           cluster' = After(i)[Order[doing[i]]]
    PROVE  /\ cluster' \in Objects
           /\ IF doing[i] = 4 THEN cluster'.binding = Wants[i].ns
              ELSE cluster'.binding = cluster.binding
           /\ IF doing[i] = 5
              THEN cluster'.role = [cluster.role EXCEPT ![Wants[i].ns] = Wants[i].secret]
              ELSE cluster'.role = cluster.role
           /\ IF doing[i] = 7
              THEN cluster'.deployment =
                       [cluster.deployment EXCEPT ![Wants[i].ns] = Wants[i].secret]
              ELSE cluster'.deployment = cluster.deployment
           /\ AddsFixed(i)
<1> DEFINE ns == Wants[i].ns
           secret == Wants[i].secret
<1>1. cluster \in Objects /\ ns \in Namespaces /\ secret \in Secrets
  BY InstallersAssumption DEF InstallersTypeOK
<1>2. CASE doing[i] = 1
  <2>1. cluster' = [cluster EXCEPT !.crd = TRUE]
    BY <1>2, OrderOfObjects DEF After
  <2>2. \A b \in BOOLEAN : [cluster EXCEPT !.crd = b] \in Objects
    BY <1>1 DEF Objects
  <2>3. cluster' \in Objects
    BY <2>1, <2>2
  <2>4. /\ cluster'.binding = cluster.binding
        /\ cluster'.role = cluster.role
        /\ cluster'.deployment = cluster.deployment
        /\ cluster'.crd = TRUE /\ cluster'.clusterRole = cluster.clusterRole
        /\ cluster'.account = cluster.account
        /\ cluster'.roleBinding = cluster.roleBinding
    BY <1>1, <2>1 DEF Objects
  <2> QED
    BY <1>2, <2>3, <2>4 DEF AddsFixed
<1>3. CASE doing[i] = 2
  <2>1. cluster' = [cluster EXCEPT !.account = @ \cup {ns}]
    BY <1>3, OrderOfObjects DEF After
  <2> QED
    BY <1>1, <1>3, <2>1 DEF Objects, AddsFixed
<1>4. CASE doing[i] = 3
  <2>1. cluster' = [cluster EXCEPT !.clusterRole = TRUE]
    BY <1>4, OrderOfObjects DEF After
  <2>2. \A b \in BOOLEAN : [cluster EXCEPT !.clusterRole = b] \in Objects
    BY <1>1 DEF Objects
  <2>3. cluster' \in Objects
    BY <2>1, <2>2
  <2>4. /\ cluster'.binding = cluster.binding
        /\ cluster'.role = cluster.role
        /\ cluster'.deployment = cluster.deployment
        /\ cluster'.clusterRole = TRUE /\ cluster'.crd = cluster.crd
        /\ cluster'.account = cluster.account
        /\ cluster'.roleBinding = cluster.roleBinding
    BY <1>1, <2>1 DEF Objects
  <2> QED
    BY <1>4, <2>3, <2>4 DEF AddsFixed
<1>5. CASE doing[i] = 4
  <2>1. cluster' = [cluster EXCEPT !.binding = ns]
    BY <1>5, OrderOfObjects DEF After
  <2> QED
    BY <1>1, <1>5, <2>1 DEF Objects, AddsFixed
<1>6. CASE doing[i] = 5
  <2>1. cluster' = [cluster EXCEPT !.role[ns] = secret]
    BY <1>6, OrderOfObjects DEF After
  <2> QED
    BY <1>1, <1>6, <2>1 DEF Objects, AddsFixed
<1>7. CASE doing[i] = 6
  <2>1. cluster' = [cluster EXCEPT !.roleBinding = @ \cup {ns}]
    BY <1>7, OrderOfObjects DEF After
  <2> QED
    BY <1>1, <1>7, <2>1 DEF Objects, AddsFixed
<1>8. CASE doing[i] = 7
  <2>1. cluster' = [cluster EXCEPT !.deployment[ns] = secret]
    BY <1>8, OrderOfObjects DEF After
  <2> QED
    BY <1>1, <1>8, <2>1 DEF Objects, AddsFixed
<1> QED
  BY <1>2, <1>3, <1>4, <1>5, <1>6, <1>7, <1>8

LEMMA InstallKeeps ==
    ASSUME InstallInv, NEW i \in Installs, InstallStep(i)
    PROVE  InstallInv'
<1> USE OrderOfObjects
<1>0. /\ doing \in [Installs -> 0..9] /\ cluster \in Objects
      /\ installEnd \in [Installs -> {"none", "ok", "error"}]
      /\ newest \in Installs /\ together \subseteq Installs
      /\ InstallersTypeOK
  BY DEF InstallInv, InstallersTypeOK, NotBegun
<1>1. CASE CheckSecret(i)
  <2>1. InstallersTypeOK'
    BY <1>0, <1>1 DEF CheckSecret, Stops, InstallersTypeOK, NotBegun, Under
  <2>2. \A j \in Installs : installEnd'[j] = "ok" => doing'[j] = Over
    BY <1>0, <1>1 DEF CheckSecret, Stops, InstallInv, NotBegun
  <2>3. ASSUME i \notin together' PROVE Owns(i)'
    <3>1. Under = {}
      BY <1>1, <2>3 DEF CheckSecret
    <3>2. Under' \subseteq {i}
      BY <1>0, <1>1, <3>1 DEF CheckSecret, Stops, Under
    <3>3. doing'[i] \in {1, 9} /\ installEnd'[i] # "ok"
      BY <1>0, <1>1 DEF CheckSecret, Stops, InstallInv, NotBegun
    <3> QED
      BY <3>2, <3>3 DEF Owns
  <2> QED
    BY <1>1, <2>1, <2>2, <2>3 DEF CheckSecret, InstallInv
<1>2. CASE ApplyObject(i) \/ InstallEnds(i)
  <2>1. /\ UNCHANGED <<newest, together>> /\ i \in Under
        /\ doing[i] \in 1..8 /\ installEnd[i] # "ok"
    BY <1>0, <1>2 DEF ApplyObject, InstallEnds, Under, InstallInv
  <2>2. \/ cluster' = cluster
        \/ doing[i] \in 1..7 /\ cluster' = After(i)[Order[doing[i]]]
    BY <1>2 DEF ApplyObject, InstallEnds
  <2>3. cluster' \in Objects
    BY <1>0, <2>2, AppliedObject
  <2>4. \/ /\ doing[i] \in 1..7 /\ cluster' = After(i)[Order[doing[i]]]
           /\ doing' = [doing EXCEPT ![i] = @ + 1] /\ UNCHANGED installEnd
        \/ /\ doing' = [doing EXCEPT ![i] = 9]
           /\ installEnd' = [installEnd EXCEPT ![i] = "error"]
        \/ /\ doing[i] = 8 /\ doing' = [doing EXCEPT ![i] = 9]
           /\ installEnd' = [installEnd EXCEPT ![i] = "ok"]
           /\ cluster' = cluster
    BY <1>2 DEF ApplyObject, InstallEnds, Stops
  <2>5. InstallersTypeOK'
    BY <1>0, <2>1, <2>3, <2>4 DEF InstallersTypeOK, NotBegun
  <2>6. \A j \in Installs : installEnd'[j] = "ok" => doing'[j] = 9
    BY <1>0, <2>1, <2>4 DEF InstallInv
  <2>7. ASSUME newest = i, i \notin together PROVE Owns(i)'
    <3>1. Owns(i)
      BY <2>7 DEF InstallInv
    <3>2. Under' \subseteq {i}
      BY <1>0, <2>1, <2>4, <3>1 DEF Owns, Under, NotBegun
    <3>3. CASE doing[i] \in 1..7 /\ cluster' = After(i)[Order[doing[i]]]
      <4>1. /\ doing[i] = 4 => WroteBinding(i)'
            /\ doing[i] = 5 => WroteRole(i)'
            /\ doing[i] = 7 => WroteDeployment(i)'
            /\ WroteBinding(i) => WroteBinding(i)'
            /\ WroteRole(i) => WroteRole(i)'
            /\ WroteDeployment(i) => WroteDeployment(i)'
        <5> DEFINE ns == Wants[i].ns
                   secret == Wants[i].secret
        <5>1. /\ ns \in Namespaces
              /\ cluster.role \in [Namespaces -> Secrets \cup {Nothing}]
              /\ cluster.deployment \in [Namespaces -> Secrets \cup {Nothing}]
          BY <1>0, InstallersAssumption DEF Objects
        <5>2. /\ IF doing[i] = 4 THEN cluster'.binding = ns
                 ELSE cluster'.binding = cluster.binding
              /\ IF doing[i] = 5 THEN cluster'.role = [cluster.role EXCEPT ![ns] = secret]
                 ELSE cluster'.role = cluster.role
              /\ IF doing[i] = 7
                 THEN cluster'.deployment = [cluster.deployment EXCEPT ![ns] = secret]
                 ELSE cluster'.deployment = cluster.deployment
          BY <1>0, <3>3, AppliedObject
        <5> QED
          BY <5>1, <5>2 DEF WroteBinding, WroteRole, WroteDeployment
      <4>2. \/ doing'[i] = doing[i] + 1 /\ installEnd'[i] # "ok"
            \/ doing'[i] = 9 /\ installEnd'[i] # "ok"
        BY <1>0, <2>1, <2>4, <3>3
      <4> QED
        BY <3>1, <3>2, <3>3, <4>1, <4>2 DEF Owns
    <3>4. CASE cluster' = cluster
      <4>1. /\ WroteBinding(i)' = WroteBinding(i)
            /\ WroteRole(i)' = WroteRole(i)
            /\ WroteDeployment(i)' = WroteDeployment(i)
        BY <3>4 DEF WroteBinding, WroteRole, WroteDeployment
      <4>2. CASE doing'[i] = 9
        <5>1. installEnd'[i] = "ok" => doing[i] = 8
          BY <1>0, <2>1, <2>4
        <5> QED
          BY <3>1, <3>2, <4>1, <4>2, <5>1 DEF Owns
      <4>3. CASE doing'[i] # 9
        BY <1>0, <2>4, <3>3, <4>3
      <4> QED
        BY <4>2, <4>3
    <3> QED
      BY <2>2, <3>3, <3>4
  <2>8. ASSUME NEW j \in Installs \ together, newest = j, j # i PROVE Owns(j)'
    <3>1. Owns(j)
      BY <2>8 DEF InstallInv
    <3>2. doing[j] = 0
      BY <2>1, <2>8, <3>1 DEF Owns, NotBegun
    <3>3. doing'[j] = 0 /\ installEnd'[j] # "ok"
      BY <1>0, <2>4, <2>8, <3>2 DEF InstallInv
    <3> QED
      BY <3>3 DEF Owns, NotBegun
  <2> QED
    BY <2>1, <2>5, <2>6, <2>7, <2>8 DEF InstallInv
<1> QED
  BY <1>1, <1>2 DEF InstallStep

LEMMA InstallKept == InstallInv /\ [InstallersNext]_installVars => InstallInv'
<1> SUFFICES ASSUME InstallInv, [InstallersNext]_installVars
             PROVE  InstallInv'
  OBVIOUS
<1>1. CASE UNCHANGED installVars
  BY <1>1 DEF installVars, InstallInv, InstallersTypeOK, Owns, Under,
              WroteBinding, WroteRole, WroteDeployment
<1> QED
  BY <1>1, InstallKeeps DEF InstallersNext

LEMMA FixedKept ==
    ASSUME InstallersTypeOK, FixedInv, InstallInv, [InstallersNext]_installVars
    PROVE  FixedInv'
<1> USE OrderOfObjects
<1>0. /\ doing \in [Installs -> 0..9]
      /\ installEnd \in [Installs -> {"none", "ok", "error"}]
  BY DEF InstallersTypeOK, NotBegun
<1>1. CASE UNCHANGED installVars
  BY <1>1 DEF installVars, FixedInv, HasFixed
<1>2. ASSUME NEW i \in Installs, CheckSecret(i)
      PROVE  FixedInv'
  BY <1>0, <1>2 DEF CheckSecret, Stops, FixedInv, HasFixed, InstallInv, NotBegun
<1>3. ASSUME NEW i \in Installs, ApplyObject(i)
      PROVE  FixedInv'
  <2>1. /\ doing[i] \in 1..7 /\ installEnd[i] # "ok"
        /\ cluster' = cluster \/ cluster' = After(i)[Order[doing[i]]]
    BY <1>0, <1>3 DEF ApplyObject, InstallInv
  <2>2. /\ cluster.crd = TRUE => cluster'.crd = TRUE
        /\ cluster.clusterRole = TRUE => cluster'.clusterRole = TRUE
        /\ cluster.account \subseteq cluster'.account
        /\ cluster.roleBinding \subseteq cluster'.roleBinding
    BY <2>1, AppliedObject DEF AddsFixed
  <2>3. ASSUME NEW j \in Installs, j # i
        PROVE  HasFixed(j)'
    <3>1. doing'[j] = doing[j] /\ installEnd'[j] = installEnd[j]
      BY <1>0, <1>3, <2>3 DEF ApplyObject, Stops
    <3> QED
      BY <2>2, <3>1 DEF FixedInv, HasFixed
  <2>4. CASE doing' = [doing EXCEPT ![i] = @ + 1] /\ UNCHANGED installEnd
    <3>1. cluster' = After(i)[Order[doing[i]]]
      BY <1>0, <1>3, <2>1, <2>4 DEF ApplyObject, Stops
    <3>2. /\ doing[i] = 1 => cluster'.crd = TRUE
          /\ doing[i] = 2 => Wants[i].ns \in cluster'.account
          /\ doing[i] = 3 => cluster'.clusterRole = TRUE
          /\ doing[i] = 6 => Wants[i].ns \in cluster'.roleBinding
      BY <2>1, <3>1, AppliedObject DEF AddsFixed
    <3>3. doing'[i] = doing[i] + 1 /\ installEnd'[i] # "ok"
      BY <1>0, <2>1, <2>4
    <3>4. HasFixed(i)
      BY DEF FixedInv
    <3>5. HasFixed(i)'
      BY <2>1, <2>2, <3>2, <3>3, <3>4 DEF HasFixed
    <3> QED
      BY <2>3, <3>5 DEF FixedInv
  <2>5. CASE Stops(i, "error")
    <3>1. doing'[i] = 9 /\ installEnd'[i] = "error"
      BY <1>0, <2>5 DEF Stops
    <3>2. HasFixed(i)'
      BY <3>1 DEF HasFixed
    <3> QED
      BY <2>3, <3>2 DEF FixedInv
  <2> QED
    BY <1>3, <2>4, <2>5 DEF ApplyObject
<1>4. ASSUME NEW i \in Installs, InstallEnds(i)
      PROVE  FixedInv'
  <2>1. doing[i] = 8 /\ UNCHANGED cluster
    BY <1>4 DEF InstallEnds
  <2>2. ASSUME NEW j \in Installs
        PROVE  HasFixed(j)'
    <3>1. CASE j = i
      BY <2>1, <3>1 DEF FixedInv, HasFixed
    <3>2. CASE j # i
      <4>1. doing'[j] = doing[j] /\ installEnd'[j] = installEnd[j]
        BY <1>0, <1>4, <3>2 DEF InstallEnds, Stops
      <4> QED
        BY <2>1, <4>1 DEF FixedInv, HasFixed
    <3> QED
      BY <3>1, <3>2
  <2> QED
    BY <2>2 DEF FixedInv
<1> QED
  BY <1>1, <1>2, <1>3, <1>4 DEF InstallersNext, InstallStep

LEMMA InitInstall == InstallersInit => InstallInv
<1> SUFFICES ASSUME InstallersInit
             PROVE  InstallInv
  OBVIOUS
<1>1. \A i \in Installs : doing[i] = 0 /\ installEnd[i] = "none"
  BY DEF InstallersInit, NotBegun
<1>2. cluster \in Objects
  BY DEF InstallersInit, Objects
<1>3. InstallersTypeOK
  BY <1>2, OrderOfObjects DEF InstallersInit, InstallersTypeOK, NotBegun
<1> QED
  BY <1>1, <1>3, OrderOfObjects DEF InstallInv, Owns, NotBegun

\* However many installs there are, to whatever namespaces and secrets, and
\* wherever the earlier ones stopped: the one that started last, if it reports
\* success and ran alone, leaves objects that fit each other and what it was
\* given.
THEOREM InstallFits == InstallersSpec => []InstalledWorks
<1>1. InstallInv /\ FixedInv => InstalledWorks
  BY DEF InstallInv, Owns, WroteBinding, WroteRole, WroteDeployment,
         FixedInv, HasFixed, InstalledWorks
<1>2. InstallersInit => FixedInv
  BY OrderOfObjects DEF InstallersInit, FixedInv, HasFixed, NotBegun
<1>3. InstallInv /\ FixedInv /\ [InstallersNext]_installVars => FixedInv'
  BY FixedKept DEF InstallInv
<1> QED
  BY <1>1, <1>2, <1>3, InitInstall, InstallKept, PTL DEF InstallersSpec
-----------------------------------------------------------------------------
(***************************************************************************)
(* render_to_build and rollout.                                            *)
(***************************************************************************)

\* Where a command may be, and which may have succeeded.
PlaceFits(c) ==
    /\ at[c] = "replacing" => cmd[c] = "verbose-replace"
    /\ at[c] \in UsesHelm \cup {"helmWiping"} => cmd[c] = "install-helm-charts"
    /\ at[c] = "diffing" => cmd[c] # "rollout"
    /\ outcome[c] = "ok" => at[c] = "ended"

\* While a command that is not disturbed uses build/, nobody else renders, and
\* what is rendered is its own; once it applies, each file is still to come,
\* failed or applied.
AppliedFile(c, e) == \E a \in applied[c] : a.file = e
Rolled(c) ==
    /\ at[c] \in UsesBuild => \A d \in Commands : d # c => at[d] # "rendering"
    /\ at[c] = "rendering" => \A e \in Entries : e \in todo[c] \/ build[e] = c
    /\ at[c] \in UsesBuild \ {"rendering"} => \A e \in Entries : build[e] = c
    /\ at[c] = "applying" => got[c] = c
    /\ \A a \in applied[c] :
          a.file \in Yamls /\ a.by = c /\ a.cluster = Own(a.file)
    /\ at[c] \in {"reading", "applying"} =>
          /\ todo[c] \subseteq Yamls
          /\ \A e \in Yamls : e \in todo[c] \/ e \in failed[c] \/ AppliedFile(c, e)
    /\ outcome[c] = "ok" /\ cmd[c] = "rollout" => \A e \in Yamls : AppliedFile(c, e)
Applications == [file : Entries, by : Owner, cluster : Dirs \cup {Inherited}]
RollTypes ==
    /\ cmd \in [Commands -> CommandKinds]
    /\ at \in [Commands -> Places]
    /\ outcome \in [Commands -> {"none", "ok", "error"}]
    /\ build \in [Entries -> Owner]
    /\ todo \in [Commands -> SUBSET Entries]
    /\ got \in [Commands -> Owner]
    /\ applied \in [Commands -> SUBSET Applications]
    /\ failed \in [Commands -> SUBSET Entries]
    /\ disturbed \subseteq Commands
RollInv == RollTypes /\ \A c \in Commands : PlaceFits(c) /\ (c \notin disturbed => Rolled(c))

LEMMA TargetIsDir ==
    ASSUME NEW e \in Entries, NEW S
    PROVE  Target(e, S) \in Dirs \cup {Inherited}
<1> DEFINE File == [dir : Dirs, envrc : BOOLEAN]
           up == Up[Platform[e].dir]
           has == {n \in DOMAIN up :
                     \E i \in S : Platform[i].envrc /\ Platform[i].dir = up[n]}
           least == CHOOSE n \in has : \A m \in has : n <= m
<1>a. Platform \in Seq(File)
  BY WorkspaceAssumption
<1>b. Platform[e] \in File
  <2> HIDE DEF File
  <2> QED
    BY <1>a DEF Entries
<1>1. up \in Seq(Dirs)
  BY <1>b, WorkspaceAssumption
<1>2. has \subseteq DOMAIN up /\ has \in SUBSET Nat
  BY <1>1
<1>3. Target(e, S) = IF has = {} THEN Inherited ELSE up[least]
  BY DEF Target
<1> HIDE DEF up, has
<1>4. has # {} => least \in has
  <2> SUFFICES ASSUME has # {}
               PROVE  least \in has
    OBVIOUS
  <2>1. \E n \in has : \A m \in has : n <= m
    BY <1>2, LeastNumber
  <2> QED
    BY <2>1
<1>5. has # {} => up[least] \in Dirs
  BY <1>1, <1>2, <1>4
<1> QED
  BY <1>3, <1>5

\* A step of another command.
LEMMA Bystander ==
    ASSUME NEW c \in Commands, NEW d \in Commands, d # c,
           cmd' = cmd, at'[d] = at[d], outcome'[d] = outcome[d],
           todo'[d] = todo[d], got'[d] = got[d], applied'[d] = applied[d],
           failed'[d] = failed[d],
           d \notin disturbed' => d \notin disturbed,
           \A b \in Commands : b # c => at'[b] = at[b],
           d \notin disturbed' /\ at[d] \in UsesBuild =>
               build' = build /\ (at'[c] = "rendering" => at[c] = "rendering"),
           PlaceFits(d), d \notin disturbed => Rolled(d)
    PROVE  PlaceFits(d)' /\ (d \notin disturbed' => Rolled(d)')
<1>1. PlaceFits(d)'
  BY DEF PlaceFits
<1>2. ASSUME d \notin disturbed'
      PROVE  Rolled(d)'
  <2>1. Rolled(d)
    BY <1>2
  <2>3. at'[d] \in UsesBuild => \A b \in Commands : b # d => at'[b] # "rendering"
    BY <1>2, <2>1 DEF Rolled
  <2>4. at[d] \in UsesBuild => build' = build
    BY <1>2
  <2>5. \A a \in applied'[d] : a.file \in Yamls /\ a.by = d /\ a.cluster = Own(a.file)
    BY <2>1 DEF Rolled
  <2>6. /\ at'[d] = "rendering" => \A e \in Entries : e \in todo'[d] \/ build'[e] = d
        /\ at'[d] \in UsesBuild \ {"rendering"} => \A e \in Entries : build'[e] = d
        /\ at'[d] = "applying" => got'[d] = d
    BY <2>1, <2>4 DEF Rolled, UsesBuild
  <2>7. at'[d] \in {"reading", "applying"} =>
          /\ todo'[d] \subseteq Yamls
          /\ \A e \in Yamls : e \in todo'[d] \/ e \in failed'[d] \/ AppliedFile(d, e)'
    BY <2>1 DEF Rolled, AppliedFile
  <2>8. outcome'[d] = "ok" /\ cmd'[d] = "rollout" => \A e \in Yamls : AppliedFile(d, e)'
    BY <2>1 DEF Rolled, AppliedFile
  <2> QED
    BY <2>3, <2>5, <2>6, <2>7, <2>8 DEF Rolled
<1> QED
  BY <1>1, <1>2

\* Steps that do not touch build/ and end where it is not used.
LEMMA Elsewhere ==
    ASSUME RollInv, NEW c \in Commands, NEW p \in Places,
           UNCHANGED <<cmd, buildVars>>,
           disturbed \subseteq disturbed', disturbed' \subseteq Commands,
           at'[c] = p, p \notin UsesBuild,
           at' \in [Commands -> Places],
           \A d \in Commands : d # c => at'[d] = at[d] /\ outcome'[d] = outcome[d],
           outcome' \in [Commands -> {"none", "ok", "error"}],
           p = "replacing" => cmd[c] = "verbose-replace",
           p \in UsesHelm \cup {"helmWiping"} => cmd[c] = "install-helm-charts",
           outcome'[c] = "ok" => p = "ended" /\ (outcome[c] = "ok" \/ cmd[c] # "rollout")
    PROVE  RollInv'
<1>1. RollTypes'
  BY DEF RollInv, RollTypes, buildVars
<1>2. PlaceFits(c)'
  BY DEF PlaceFits, UsesBuild
<1>3. c \notin disturbed => Rolled(c)'
  <2> SUFFICES ASSUME c \notin disturbed
               PROVE  Rolled(c)'
    OBVIOUS
  <2>1. Rolled(c)
    BY DEF RollInv
  <2> QED
    BY <2>1 DEF Rolled, AppliedFile, UsesBuild, buildVars
<1>4. ASSUME NEW d \in Commands, d # c
      PROVE  PlaceFits(d)' /\ (d \notin disturbed' => Rolled(d)')
  <2>1. at'[c] # "rendering"
    BY DEF UsesBuild
  <2> QED
    BY <1>4, <2>1, Bystander DEF RollInv, buildVars
<1> QED
  BY <1>1, <1>2, <1>3, <1>4 DEF RollInv

LEMMA ResolveKeepsRoll ==
    ASSUME RollInv, NEW c \in Commands, Resolve(c) \/ Helm(c) \/ Kill(c)
    PROVE  RollInv'
<1> USE DEF To, Fail, End
<1>0. RollTypes /\ PlaceFits(c)
  BY DEF RollInv
<1>1. UNCHANGED <<cmd, buildVars>>
  BY DEF Resolve, Start, LoadMemory, OnceCached, OnceBegins, OnceEnds, CutMemory,
     WriteMemory, SaveFails, ResolveRest, Replace, Helm, HelmWipe, HelmWipeFails, HelmRender,
     HelmCollect, HelmInstall, Kill, sources
<1>2. \E p \in Places :
        /\ at' = [at EXCEPT ![c] = p] /\ p \notin UsesBuild
        /\ p = "replacing" => cmd[c] = "verbose-replace"
        /\ p \in UsesHelm \cup {"helmWiping"} => cmd[c] = "install-helm-charts"
        /\ \/ UNCHANGED outcome /\ at[c] # "ended"
           \/ p = "ended" /\ outcome' = [outcome EXCEPT ![c] = "error"]
           \/ /\ p = "ended" /\ cmd[c] # "rollout"
              /\ outcome' = [outcome EXCEPT ![c] = "ok"]
  <2> USE DEF Places, UsesBuild, UsesHelm, Resolving, Losing
  <2>1. CASE Start(c)
    BY <2>1 DEF Start
  <2>2. CASE \/ LoadMemory(c) \/ OnceCached(c) \/ OnceBegins(c) \/ OnceEnds(c)
           \/ CutMemory(c)
             \/ SaveFails(c) \/ ResolveRest(c) \/ Kill(c)
    BY <2>2 DEF LoadMemory, OnceCached, OnceBegins, OnceEnds, CutMemory, SaveFails,
                ResolveRest, Kill
  <2>3. CASE WriteMemory(c)
    BY <2>3 DEF WriteMemory
  <2>4. CASE Replace(c)
    BY <1>0, <2>4 DEF Replace, PlaceFits
  <2>5. CASE Helm(c)
    <3>1. at[c] \in UsesHelm \cup {"helmWiping"}
      BY <2>5 DEF Helm, HelmWipe, HelmWipeFails, HelmRender, HelmCollect, HelmInstall
    <3>2. cmd[c] = "install-helm-charts"
      BY <1>0, <3>1 DEF PlaceFits
    <3>3. at = [at EXCEPT ![c] = at[c]]
      BY <1>0 DEF RollTypes
    <3> QED
      BY <2>5, <3>1, <3>2, <3>3 DEF Helm, HelmWipe, HelmWipeFails, HelmRender, HelmCollect,
                                    HelmInstall
  <2> QED
    BY <2>1, <2>2, <2>3, <2>4, <2>5 DEF Resolve
<1>3. disturbed \subseteq disturbed' /\ disturbed' \subseteq Commands
  BY <1>0 DEF Resolve, Start, LoadMemory, OnceCached, OnceBegins, OnceEnds, CutMemory,
     WriteMemory, SaveFails, ResolveRest, Replace, Helm, HelmWipe, HelmWipeFails, HelmRender,
     HelmCollect, HelmInstall, Kill, Disturbs, Others, RollTypes
<1>4. PICK p \in Places :
        /\ at' = [at EXCEPT ![c] = p] /\ p \notin UsesBuild
        /\ p = "replacing" => cmd[c] = "verbose-replace"
        /\ p \in UsesHelm \cup {"helmWiping"} => cmd[c] = "install-helm-charts"
        /\ \/ UNCHANGED outcome /\ at[c] # "ended"
           \/ p = "ended" /\ outcome' = [outcome EXCEPT ![c] = "error"]
           \/ /\ p = "ended" /\ cmd[c] # "rollout"
              /\ outcome' = [outcome EXCEPT ![c] = "ok"]
  BY <1>2
<1>5. /\ at'[c] = p /\ at' \in [Commands -> Places]
      /\ \A d \in Commands : d # c => at'[d] = at[d] /\ outcome'[d] = outcome[d]
      /\ outcome' \in [Commands -> {"none", "ok", "error"}]
  BY <1>0, <1>4 DEF RollTypes
<1>6. outcome'[c] = "ok" => p = "ended" /\ (outcome[c] = "ok" \/ cmd[c] # "rollout")
  BY <1>0, <1>4 DEF RollTypes, PlaceFits
<1> QED
  BY <1>1, <1>3, <1>4, <1>5, <1>6, Elsewhere

\* Rendering: whoever uses build/ when it is removed is disturbed, and nobody
\* is while files are written one after the other.
LEMMA PlanKeepsRoll ==
    ASSUME RollInv, NEW c \in Commands, Plan(c)
    PROVE  RollInv'
<1> USE DEF To, Fail, End
<1>0. RollTypes /\ PlaceFits(c) /\ (c \notin disturbed => Rolled(c))
  BY DEF RollInv
<1>1. /\ UNCHANGED <<cmd, got, applied, failed>>
      /\ at[c] \in {"wiping", "rendering"} /\ outcome[c] # "ok"
      /\ disturbed \subseteq disturbed' /\ disturbed' \subseteq Commands
  BY <1>0 DEF Plan, Wipe, WipeFails, Render, RenderFails, Rendered, PlaceFits,
              Disturbs, Others, RollTypes, sources, buildVars
<1>2. \/ UNCHANGED <<at, outcome>> /\ at[c] = "rendering"
      \/ at' = [at EXCEPT ![c] = "rendering"] /\ UNCHANGED outcome /\ Wipe(c)
      \/ at' = [at EXCEPT ![c] = "collecting"] /\ UNCHANGED outcome /\ Rendered(c)
      \/ /\ at' = [at EXCEPT ![c] = "ended"]
         /\ outcome' = [outcome EXCEPT ![c] = "error"]
      \/ /\ at' = [at EXCEPT ![c] = "ended"] /\ cmd[c] = "plan"
         /\ outcome' = [outcome EXCEPT ![c] = "ok"]
  BY DEF Plan, Wipe, WipeFails, Render, RenderFails, Rendered
<1>3. at' \in [Commands -> Places] /\ outcome' \in [Commands -> {"none", "ok", "error"}]
  BY <1>0, <1>2 DEF RollTypes, Places, UsesBuild
<1>4. /\ at'[c] \in {"rendering", "collecting", "ended"}
      /\ at'[c] = "rendering" => at[c] = "rendering" \/ Wipe(c)
      /\ at'[c] = "collecting" => Rendered(c)
      /\ outcome'[c] = "ok" => cmd[c] # "rollout" /\ at'[c] = "ended"
      /\ \A d \in Commands : d # c => at'[d] = at[d] /\ outcome'[d] = outcome[d]
  BY <1>0, <1>1, <1>2 DEF RollTypes
<1>5. /\ build' \in [Entries -> Owner] /\ todo' \in [Commands -> SUBSET Entries]
      /\ \A d \in Commands : d # c => todo'[d] = todo[d]
  <2>1. CASE Wipe(c) \/ WipeFails(c)
    BY <1>0, <2>1 DEF Wipe, WipeFails, RollTypes, Owner
  <2>2. CASE Render(c) \/ RenderFails(c) \/ Rendered(c)
    BY <1>0, <2>2 DEF Render, RenderFails, Rendered, RollTypes, Owner, Took,
                      FirstOf, buildVars
  <2> QED
    BY <2>1, <2>2 DEF Plan
<1>6. RollTypes'
  BY <1>0, <1>1, <1>3, <1>5 DEF RollTypes
<1>7. PlaceFits(c)'
  BY <1>4 DEF PlaceFits, UsesHelm
<1>8. ASSUME c \notin disturbed'
      PROVE  Rolled(c)'
  <2>1. Rolled(c) /\ c \notin disturbed
    BY <1>0, <1>1, <1>8
  <2>2. \A a \in applied'[c] : a.file \in Yamls /\ a.by = c /\ a.cluster = Own(a.file)
    BY <1>1, <2>1 DEF Rolled
  <2>3. at'[c] \in UsesBuild => \A d \in Commands : d # c => at'[d] # "rendering"
    <3>1. CASE Wipe(c)
      <4>1. Others(c, {"rendering"}) = {}
        BY <1>8, <3>1 DEF Wipe, Disturbs
      <4> QED
        BY <1>4, <4>1 DEF Others
    <3>2. CASE ~Wipe(c)
      <4>1. at'[c] \in UsesBuild => at[c] \in UsesBuild
        BY <1>4, <3>2 DEF UsesBuild, Rendered
      <4> QED
        BY <1>4, <2>1, <4>1 DEF Rolled
    <3> QED
      BY <3>1, <3>2
  <2>4. at'[c] = "rendering" => \A e \in Entries : e \in todo'[c] \/ build'[e] = c
    <3>1. CASE Wipe(c)
      BY <1>0, <3>1 DEF Wipe, RollTypes
    <3>2. CASE Render(c)
      BY <1>0, <2>1, <3>2 DEF Render, Rolled, Took, FirstOf, RollTypes
    <3>3. CASE WipeFails(c) \/ RenderFails(c) \/ Rendered(c)
      <4>1. at'[c] # "rendering"
        BY <1>0, <3>3 DEF WipeFails, RenderFails, Rendered, RollTypes
      <4> QED
        BY <4>1
    <3> QED
      BY <3>1, <3>2, <3>3 DEF Plan
  <2>5. at'[c] = "collecting" => \A e \in Entries : build'[e] = c
    BY <1>4, <2>1 DEF Rendered, Rolled, buildVars
  <2> QED
    BY <1>1, <1>4, <2>2, <2>3, <2>4, <2>5 DEF Rolled, UsesBuild
<1>9. ASSUME NEW d \in Commands, d # c
      PROVE  PlaceFits(d)' /\ (d \notin disturbed' => Rolled(d)')
  <2>1. ASSUME d \notin disturbed', at[d] \in UsesBuild
        PROVE  build' = build /\ (at'[c] = "rendering" => at[c] = "rendering")
    <3>1. Rolled(d)
      BY <1>1, <2>1 DEF RollInv
    <3>2. ~Wipe(c) /\ ~WipeFails(c)
      BY <1>9, <2>1 DEF Wipe, WipeFails, Disturbs, Others
    <3>3. at[c] # "rendering"
      BY <1>9, <2>1, <3>1 DEF Rolled
    <3> QED
      BY <3>2, <3>3 DEF Plan, Render, RenderFails, Rendered
  <2> QED
    BY <1>1, <1>4, <1>5, <1>9, <2>1, Bystander DEF RollInv
<1> QED
  BY <1>6, <1>7, <1>8, <1>9 DEF RollInv

\* Collecting, reading and applying, from a build/ that is its own.
LEMMA RolloutKeepsRoll ==
    ASSUME RollInv, NEW c \in Commands, Rollout(c) \/ DryRun(c)
    PROVE  RollInv'
<1> USE DEF To, Fail, End
<1>0. RollTypes /\ PlaceFits(c) /\ (c \notin disturbed => Rolled(c))
  BY DEF RollInv
<1>1. /\ UNCHANGED <<cmd, build, disturbed>> /\ outcome[c] # "ok"
      /\ at[c] \in UsesBuild \ {"rendering"}
  BY <1>0 DEF Rollout, Collect, FileFails, ReadFile, Apply, Summary, DryRun,
              Diff, DiffEnds, PlaceFits, UsesBuild, sources, buildVars
<1>2. \/ /\ UNCHANGED outcome
         /\ \E p \in {"reading", "applying", "diffing"} :
               /\ at' = [at EXCEPT ![c] = p]
               /\ p = "diffing" => cmd[c] # "rollout"
      \/ /\ at' = [at EXCEPT ![c] = "ended"]
         /\ outcome' = [outcome EXCEPT ![c] = "error"]
      \/ /\ at' = [at EXCEPT ![c] = "ended"] /\ (Summary(c) \/ cmd[c] # "rollout")
         /\ outcome' = [outcome EXCEPT ![c] = "ok"]
  <2>1. at[c] = "diffing" => at = [at EXCEPT ![c] = "diffing"]
    BY <1>0 DEF RollTypes
  <2>2. Diff(c) \/ DiffEnds(c) => cmd[c] # "rollout"
    BY <1>0 DEF Diff, DiffEnds, PlaceFits
  <2> QED
    BY <2>1, <2>2 DEF Rollout, Collect, FileFails, ReadFile, Apply, Summary,
                      DryRun, Diff, DiffEnds
<1>3. at' \in [Commands -> Places] /\ outcome' \in [Commands -> {"none", "ok", "error"}]
  BY <1>0, <1>2 DEF RollTypes, Places, UsesBuild
<1>4. /\ at'[c] \in {"reading", "applying", "diffing", "ended"}
      /\ at'[c] = "diffing" => cmd[c] # "rollout"
      /\ outcome'[c] = "ok" => (Summary(c) \/ cmd[c] # "rollout") /\ at'[c] = "ended"
      /\ \A d \in Commands : d # c => at'[d] = at[d] /\ outcome'[d] = outcome[d]
  BY <1>0, <1>1, <1>2 DEF RollTypes
<1>5. /\ todo' \in [Commands -> SUBSET Entries] /\ failed' \in [Commands -> SUBSET Entries]
      /\ \A d \in Commands : d # c => todo'[d] = todo[d] /\ failed'[d] = failed[d]
  BY <1>0 DEF Rollout, Collect, FileFails, ReadFile, Apply, Summary, DryRun,
              Diff, DiffEnds, RollTypes, Took, FirstOf, Yamls, buildVars
<1>6. /\ got' \in [Commands -> Owner]
      /\ \A d \in Commands : d # c => got'[d] = got[d]
  BY <1>0 DEF Rollout, Collect, FileFails, ReadFile, Apply, Summary, DryRun,
              Diff, DiffEnds, RollTypes, FirstOf, buildVars
<1>7. /\ applied' \in [Commands -> SUBSET Applications]
      /\ \A d \in Commands : d # c => applied'[d] = applied[d]
  <2>1. CASE Apply(c)
    <3>1. PICK e \in FirstOf(todo[c]) \ huge :
             applied' = [applied EXCEPT ![c] = @ \cup
                 {[file |-> e, by |-> got[c], cluster |-> Target(e, Present)]}]
      BY <2>1 DEF Apply
    <3>2. e \in Entries
      BY <1>0 DEF RollTypes, FirstOf
    <3>3. [file |-> e, by |-> got[c], cluster |-> Target(e, Present)] \in Applications
      BY <1>0, <3>2, TargetIsDir DEF RollTypes, Applications
    <3> QED
      BY <1>0, <3>1, <3>3 DEF RollTypes
  <2>2. CASE ~Apply(c)
    BY <1>0, <2>2 DEF Rollout, Collect, FileFails, ReadFile, Summary, DryRun,
                      Diff, DiffEnds, RollTypes, buildVars
  <2> QED
    BY <2>1, <2>2
<1>8. RollTypes'
  BY <1>0, <1>1, <1>3, <1>5, <1>6, <1>7 DEF RollTypes
<1>9. PlaceFits(c)'
  BY <1>1, <1>4 DEF PlaceFits, UsesHelm
<1>10. ASSUME c \notin disturbed'
       PROVE  Rolled(c)'
  <2>1. Rolled(c) /\ c \notin disturbed
    BY <1>0, <1>1, <1>10
  <2>2. /\ \A e \in Entries : build[e] = c
        /\ \A d \in Commands : d # c => at'[d] # "rendering"
        /\ c # Absent
    BY <1>1, <1>4, <2>1, WorkspaceAssumption DEF Rolled
  <2>3. Present = Entries
    BY <2>2 DEF Present
  <2>4. at'[c] = "applying" => got'[c] = c
    <3>1. CASE ReadFile(c)
      BY <1>0, <2>2, <3>1 DEF ReadFile, RollTypes, FirstOf
    <3>2. CASE ~ReadFile(c)
      <4>1. at'[c] # "applying"
        BY <1>0, <3>2 DEF Rollout, Collect, FileFails, Apply, Summary, DryRun,
                          Diff, DiffEnds, RollTypes
      <4> QED
        BY <4>1
    <3> QED
      BY <3>1, <3>2
  <2>5. ASSUME NEW e, applied' = [applied EXCEPT ![c] = @ \cup
                 {[file |-> e, by |-> got[c], cluster |-> Target(e, Present)]}]
        PROVE  /\ AppliedFile(c, e)'
               /\ \A f : AppliedFile(c, f) => AppliedFile(c, f)'
    <3> DEFINE a == [file |-> e, by |-> got[c], cluster |-> Target(e, Present)]
    <3>1. applied'[c] = applied[c] \cup {a} /\ a.file = e
      BY <1>0, <2>5 DEF RollTypes
    <3> HIDE DEF a
    <3> QED
      BY <3>1 DEF AppliedFile
  <2>6. \A a \in applied'[c] : a.file \in Yamls /\ a.by = c /\ a.cluster = Own(a.file)
    <3>1. \A a \in applied[c] : a.file \in Yamls /\ a.by = c /\ a.cluster = Own(a.file)
      BY <2>1 DEF Rolled
    <3>2. CASE Apply(c)
      <4>1. PICK e \in FirstOf(todo[c]) \ huge :
               applied' = [applied EXCEPT ![c] = @ \cup
                   {[file |-> e, by |-> got[c], cluster |-> Target(e, Present)]}]
        BY <3>2 DEF Apply
      <4>2. at[c] = "applying"
        BY <3>2 DEF Apply
      <4>3. e \in Yamls /\ got[c] = c /\ Target(e, Present) = Own(e)
        BY <2>1, <2>3, <4>2 DEF Rolled, FirstOf, Own
      <4>4. applied'[c] = applied[c] \cup
                   {[file |-> e, by |-> got[c], cluster |-> Target(e, Present)]}
        BY <1>0, <4>1 DEF RollTypes
      <4> QED
        BY <3>1, <4>3, <4>4
    <3>3. CASE ~Apply(c)
      <4>1. applied' = applied
        BY <3>3 DEF Rollout, Collect, FileFails, ReadFile, Summary, DryRun,
                    Diff, DiffEnds, buildVars
      <4> QED
        BY <3>1, <4>1
    <3> QED
      BY <3>2, <3>3
  <2>7. ASSUME at'[c] \in {"reading", "applying"}
        PROVE  /\ todo'[c] \subseteq Yamls
               /\ \A f \in Yamls : f \in todo'[c] \/ f \in failed'[c] \/ AppliedFile(c, f)'
    <3>1. CASE Collect(c)
      <4>1. {e \in Yamls : build[e] # Absent} = Yamls
        BY <2>2 DEF Yamls
      <4>2. todo'[c] = Yamls
        BY <1>0, <2>7, <3>1, <4>1 DEF Collect, RollTypes
      <4> QED
        BY <4>2
    <3>2. CASE at[c] \in {"reading", "applying"}
      <4>1. /\ todo[c] \subseteq Yamls
            /\ \A f \in Yamls : f \in todo[c] \/ f \in failed[c] \/ AppliedFile(c, f)
        BY <2>1, <3>2 DEF Rolled
      <4>2. CASE FileFails(c)
        BY <1>0, <4>1, <4>2 DEF FileFails, RollTypes, Took, AppliedFile
      <4>3. CASE ReadFile(c)
        BY <4>1, <4>3 DEF ReadFile, AppliedFile
      <4>4. CASE Apply(c)
        <5>1. PICK e \in FirstOf(todo[c]) \ huge :
               /\ applied' = [applied EXCEPT ![c] = @ \cup
                   {[file |-> e, by |-> got[c], cluster |-> Target(e, Present)]}]
               /\ Took(c, e)
          BY <4>4 DEF Apply
        <5>2. todo'[c] = todo[c] \ {e} /\ failed' = failed
          BY <1>0, <4>4, <5>1 DEF Apply, Took, RollTypes
        <5>3. AppliedFile(c, e)' /\ \A f : AppliedFile(c, f) => AppliedFile(c, f)'
          BY <2>5, <5>1
        <5> QED
          BY <4>1, <5>2, <5>3
      <4>5. CASE Summary(c)
        BY <1>0, <2>7, <4>5 DEF Summary, RollTypes
      <4> QED
        BY <3>2, <4>2, <4>3, <4>4, <4>5 DEF Rollout, Collect, DryRun, Diff, DiffEnds
    <3>3. CASE DryRun(c)
      BY <1>0, <2>7, <3>3 DEF DryRun, Diff, DiffEnds, RollTypes
    <3> QED
      BY <3>1, <3>2, <3>3 DEF Rollout, FileFails, ReadFile, Apply, Summary
  <2>8. ASSUME outcome'[c] = "ok", cmd[c] = "rollout"
        PROVE  \A f \in Yamls : AppliedFile(c, f)'
    <3>1. Summary(c)
      BY <1>4, <2>8
    <3>2. /\ at[c] = "reading" /\ todo[c] = {} /\ failed[c] = {}
          /\ applied' = applied
      BY <1>0, <2>8, <3>1 DEF Summary, RollTypes, buildVars
    <3> QED
      BY <2>1, <3>2 DEF Rolled, AppliedFile
  <2> QED
    BY <1>1, <1>4, <2>2, <2>4, <2>6, <2>7, <2>8 DEF Rolled
<1>11. ASSUME NEW d \in Commands, d # c
       PROVE  PlaceFits(d)' /\ (d \notin disturbed' => Rolled(d)')
  <2>1. at'[c] # "rendering"
    BY <1>4
  <2> QED
    BY <1>1, <1>4, <1>5, <1>6, <1>7, <1>11, <2>1, Bystander DEF RollInv
<1> QED
  BY <1>8, <1>9, <1>10, <1>11 DEF RollInv

LEMMA RollKept == RollInv /\ [WorkspaceNext]_wsVars => RollInv'
<1> SUFFICES ASSUME RollInv, [WorkspaceNext]_wsVars
             PROVE  RollInv'
  OBVIOUS
<1>1. CASE EditCharts \/ UNCHANGED wsVars
  <2>1. UNCHANGED <<cmd, at, outcome, buildVars, disturbed>>
    BY <1>1 DEF EditCharts, wsVars
  <2> QED
    BY <2>1 DEF RollInv, RollTypes, PlaceFits, Rolled, AppliedFile, buildVars
<1>2. ASSUME NEW c \in Commands, CommandStep(c) \/ Kill(c)
      PROVE  RollInv'
  BY <1>2, ResolveKeepsRoll, PlanKeepsRoll, RolloutKeepsRoll DEF CommandStep
<1> QED
  BY <1>1, <1>2 DEF WorkspaceNext

LEMMA InitRoll == WorkspaceInit => RollInv
<1> SUFFICES ASSUME WorkspaceInit
             PROVE  RollInv
  OBVIOUS
<1>1. RollTypes
  BY DEF WorkspaceInit, RollTypes, Places, Owner
<1>2. \A c \in Commands : at[c] = "idle" /\ outcome[c] = "none" /\ applied[c] = {}
  BY DEF WorkspaceInit
<1>3. \A c \in Commands : PlaceFits(c) /\ Rolled(c)
  BY <1>2 DEF PlaceFits, Rolled, UsesBuild, UsesHelm
<1> QED
  BY <1>1, <1>3 DEF RollInv

\* A rollout whose build/ no other command removed or wrote meanwhile applies
\* each file as it rendered it itself, to the cluster its .envrc says, and
\* reports success only after every .yaml file of platform/: for every number
\* of commands before it and beside it, and wherever they were killed.
THEOREM WholeRollout == WorkspaceSpec => []RolloutIsWhole
<1>1. RollInv => RolloutIsWhole
  <2> SUFFICES ASSUME RollInv, NEW c \in Commands \ disturbed
               PROVE  /\ \A a \in applied[c] : a.by = c /\ a.cluster = Own(a.file)
                      /\ cmd[c] = "rollout" /\ outcome[c] = "ok" =>
                             {a.file : a \in applied[c]} = Yamls
    BY DEF RolloutIsWhole
  <2>1. Rolled(c)
    BY DEF RollInv
  <2> QED
    BY <2>1 DEF Rolled, AppliedFile
<1> QED
  BY <1>1, InitRoll, RollKept, PTL DEF WorkspaceSpec

-----------------------------------------------------------------------------
(***************************************************************************)
(* Types.                                                                  *)
(***************************************************************************)

\* What is applied, reported or installed are .yaml files and charts that a
\* command wrote: .envrc files and files that are not there never get so far.
Handles(c) ==
    /\ at[c] \in {"reading", "applying", "diffing"} => todo[c] \subseteq Yamls
    /\ at[c] = "applying" => got[c] \in Commands
    /\ failed[c] \subseteq Yamls
    /\ \A a \in applied[c] : a.file \in Yamls /\ a.by \in Commands
    /\ \A i \in installed[c] : i.by \in Commands
FilesInv ==
    /\ RollTypes /\ HelmTypes
    /\ \A c \in Commands : Handles(c)
    /\ huge \subseteq Yamls

\* A step of one command leaves the files of the others as they are.
LEMMA HandlesFrame ==
    ASSUME FilesInv, RollTypes', HelmTypes', NEW c \in Commands, Handles(c)',
           huge' = huge,
           \A d \in Commands : d # c =>
              /\ at'[d] = at[d] /\ todo'[d] = todo[d] /\ got'[d] = got[d]
              /\ failed'[d] = failed[d] /\ applied'[d] = applied[d]
              /\ installed'[d] = installed[d]
    PROVE  FilesInv'
<1>1. ASSUME NEW d \in Commands, d # c
      PROVE  Handles(d)'
  BY <1>1 DEF FilesInv, Handles
<1> QED
  BY <1>1 DEF FilesInv

\* A command moves on without a file of its list.
LEMMA MovesKeepFiles ==
    ASSUME FilesInv, RollTypes', HelmTypes', NEW c \in Commands,
           UNCHANGED <<got, failed, applied, installed, huge>>,
           \A d \in Commands : d # c => at'[d] = at[d] /\ todo'[d] = todo[d],
           at'[c] \notin {"reading", "applying", "diffing"}
    PROVE  FilesInv'
<1>1. Handles(c)'
  BY DEF FilesInv, Handles
<1> QED
  BY <1>1, HandlesFrame

\* What neither applies nor installs.
LEMMA OtherStepsKeepFiles ==
    ASSUME FilesInv, RollTypes', HelmTypes', NEW c \in Commands,
           \/ Resolve(c) \/ Plan(c) \/ Kill(c)
           \/ HelmWipe(c) \/ HelmWipeFails(c) \/ HelmRender(c) \/ HelmCollect(c)
    PROVE  FilesInv'
<1> USE DEF To, Fail, End
<1>0. RollTypes /\ HelmTypes
  BY DEF FilesInv
<1>1. UNCHANGED <<got, failed, applied, installed, huge>>
  BY DEF Resolve, Start, LoadMemory, OnceCached, OnceBegins, OnceEnds, CutMemory, WriteMemory,
     SaveFails, ResolveRest, Replace, Plan, Wipe, WipeFails, Render, RenderFails,
     Rendered, HelmWipe, HelmWipeFails, HelmRender, HelmCollect, Kill, sources, buildVars, helmVars
<1>2. \A d \in Commands : d # c => todo'[d] = todo[d]
  BY <1>0 DEF Resolve, Start, LoadMemory, OnceCached, OnceBegins, OnceEnds, CutMemory, WriteMemory,
     SaveFails, ResolveRest, Replace, Plan, Wipe, WipeFails, Render, RenderFails,
     Rendered, HelmWipe, HelmWipeFails, HelmRender, HelmCollect, Kill, buildVars, Took, RollTypes
<1>3. \/ at' = at /\ at[c] \in {"rendering", "helmRendering"}
      \/ \E p \in Places \ {"reading", "applying", "diffing"} : at' = [at EXCEPT ![c] = p]
  <2>1. CASE Resolve(c)
    BY <2>1 DEF Resolve, Start, LoadMemory, OnceCached, OnceBegins, OnceEnds, CutMemory, WriteMemory,
       SaveFails, ResolveRest, Replace, Places, Resolving, Losing, UsesHelm
  <2>2. CASE Plan(c)
    BY <2>2 DEF Plan, Wipe, WipeFails, Render, RenderFails, Rendered, Places, UsesBuild
  <2>3. CASE Kill(c)
    BY <2>3 DEF Kill, Places
  <2>4. CASE HelmWipe(c) \/ HelmWipeFails(c) \/ HelmRender(c) \/ HelmCollect(c)
    BY <2>4 DEF HelmWipe, HelmWipeFails, HelmRender, HelmCollect, Places, UsesHelm
  <2> QED
    BY <2>1, <2>2, <2>3, <2>4
<1>4. /\ \A d \in Commands : d # c => at'[d] = at[d]
      /\ at'[c] \notin {"reading", "applying", "diffing"}
  BY <1>0, <1>3 DEF RollTypes
<1> QED
  BY <1>1, <1>2, <1>4, MovesKeepFiles

\* An install, chart by chart.
LEMMA InstallKeepsFiles ==
    ASSUME FilesInv, RollTypes', HelmTypes', NEW c \in Commands, HelmInstall(c)
    PROVE  FilesInv'
<1>0. RollTypes /\ HelmTypes /\ Handles(c)
  BY DEF FilesInv
<1>1. /\ at[c] = "installing" /\ UNCHANGED <<buildVars, huge>>
      /\ at' = at \/ at' = [at EXCEPT ![c] = "ended"]
  BY DEF HelmInstall, Fail, End, sources
<1>2. /\ \A d \in Commands : d # c => at'[d] = at[d]
      /\ at'[c] \in {"installing", "ended"}
  BY <1>0, <1>1 DEF RollTypes
<1>3. \/ installed' = installed
      \/ \E k \in Clusters : helmBuild[k] # Absent /\ TakesChart(c, k)
  BY <1>0 DEF HelmInstall, HelmTypes
<1>4. /\ \A d \in Commands : d # c => installed'[d] = installed[d]
      /\ \A i \in installed'[c] : i.by \in Commands
  <2>1. CASE installed' = installed
    BY <1>0, <2>1 DEF Handles
  <2>2. ASSUME NEW k \in Clusters, helmBuild[k] # Absent, TakesChart(c, k)
        PROVE  /\ \A d \in Commands : d # c => installed'[d] = installed[d]
               /\ \A i \in installed'[c] : i.by \in Commands
    <3>1. helmBuild[k] \in Commands
      BY <1>0, <2>2 DEF HelmTypes, Owner
    <3>2. /\ installed'[c] = installed[c] \cup {[cluster |-> k, by |-> helmBuild[k]]}
          /\ \A d \in Commands : d # c => installed'[d] = installed[d]
      BY <1>0, <2>2 DEF TakesChart, HelmTypes
    <3> QED
      BY <1>0, <3>1, <3>2 DEF Handles
  <2> QED
    BY <1>3, <2>1, <2>2
<1>5. Handles(c)'
  BY <1>0, <1>1, <1>2, <1>4 DEF Handles, buildVars
<1> QED
  BY <1>1, <1>2, <1>4, <1>5, HandlesFrame DEF buildVars

\* A rollout or a dry-run, file by file.
LEMMA RolloutKeepsFiles ==
    ASSUME FilesInv, RollTypes', HelmTypes', NEW c \in Commands, Rollout(c) \/ DryRun(c)
    PROVE  FilesInv'
<1> USE DEF To, Fail, End
<1>0. RollTypes /\ HelmTypes /\ Handles(c)
  BY DEF FilesInv
<1>1. UNCHANGED <<installed, huge>>
  BY DEF Rollout, Collect, FileFails, ReadFile, Apply, Summary, DryRun, Diff, DiffEnds,
         helmVars, sources
<1>2. \A d \in Commands : d # c => at'[d] = at[d]
  BY <1>0 DEF Rollout, Collect, FileFails, ReadFile, Apply, Summary, DryRun, Diff, DiffEnds,
              RollTypes
<1>3. \A d \in Commands : d # c =>
         /\ todo'[d] = todo[d] /\ got'[d] = got[d]
         /\ failed'[d] = failed[d] /\ applied'[d] = applied[d]
  BY <1>0 DEF Rollout, Collect, FileFails, ReadFile, Apply, Summary, DryRun, Diff, DiffEnds,
              RollTypes, Took, buildVars, FirstOf
<1>4. Handles(c)'
  <2>1. CASE Collect(c)
    BY <1>0, <1>1, <2>1 DEF Collect, Handles, RollTypes
  <2>2. CASE FileFails(c)
    BY <1>0, <1>1, <2>2 DEF FileFails, Handles, RollTypes, Took, FirstOf
  <2>3. CASE ReadFile(c)
    <3>1. PICK e \in FirstOf(todo[c]) : build[e] # Absent /\ got' = [got EXCEPT ![c] = build[e]]
      BY <2>3 DEF ReadFile
    <3>2. build[e] \in Commands
      BY <1>0, <3>1 DEF RollTypes, FirstOf, Owner
    <3>3. got'[c] = build[e]
      BY <1>0, <3>1 DEF RollTypes
    <3> QED
      BY <1>0, <1>1, <2>3, <3>2, <3>3 DEF ReadFile, Handles, RollTypes
  <2>4. CASE Apply(c)
    <3>1. PICK e \in FirstOf(todo[c]) \ huge :
             /\ applied' = [applied EXCEPT ![c] = @ \cup
                    {[file |-> e, by |-> got[c], cluster |-> Target(e, Present)]}]
             /\ Took(c, e)
      BY <2>4 DEF Apply
    <3>2. /\ at[c] = "applying" /\ at'[c] = "reading"
          /\ UNCHANGED <<got, failed>>
      BY <1>0, <2>4 DEF Apply, RollTypes
    <3>3. /\ applied'[c] = applied[c] \cup
                    {[file |-> e, by |-> got[c], cluster |-> Target(e, Present)]}
          /\ todo'[c] = todo[c] \ {e}
      BY <1>0, <3>1 DEF RollTypes, Took
    <3>4. e \in Yamls /\ got[c] \in Commands
      BY <1>0, <3>1, <3>2 DEF Handles, FirstOf
    <3> QED
      BY <1>0, <1>1, <3>2, <3>3, <3>4 DEF Handles
  <2>5. CASE Summary(c)
    BY <1>0, <1>1, <2>5 DEF Summary, Handles, RollTypes, buildVars
  <2>6. CASE Diff(c)
    BY <1>0, <1>1, <2>6 DEF Diff, Handles, RollTypes, Took, FirstOf
  <2>7. CASE DiffEnds(c)
    BY <1>0, <1>1, <2>7 DEF DiffEnds, Handles, RollTypes, buildVars
  <2> QED
    BY <2>1, <2>2, <2>3, <2>4, <2>5, <2>6, <2>7 DEF Rollout, DryRun
<1> QED
  BY <1>1, <1>2, <1>3, <1>4, HandlesFrame

\* Everything that is proved of the commands.
WorkspaceInv == RollInv /\ HelmInv /\ ResolvingTypes /\ OnceInv /\ FilesInv

\* Every step of a command, and every edit of the charts, keeps all of it.
LEMMA WorkspaceKept == WorkspaceInv /\ [WorkspaceNext]_wsVars => WorkspaceInv'
<1> SUFFICES ASSUME WorkspaceInv, [WorkspaceNext]_wsVars
             PROVE  WorkspaceInv'
  OBVIOUS
<1>1. RollInv' /\ HelmInv' /\ ResolvingTypes' /\ OnceInv'
  BY RollKept, HelmKept, OnceKept DEF WorkspaceInv
<1>2. FilesInv /\ RollTypes' /\ HelmTypes'
  BY <1>1 DEF WorkspaceInv, RollInv, HelmInv
<1>3. CASE EditCharts \/ UNCHANGED wsVars
  <2>1. UNCHANGED <<at, buildVars, installed, huge>>
    BY <1>3 DEF EditCharts, wsVars, helmVars
  <2> QED
    BY <1>1, <1>2, <2>1 DEF WorkspaceInv, FilesInv, Handles, buildVars
<1>4. ASSUME NEW c \in Commands, CommandStep(c) \/ Kill(c)
      PROVE  FilesInv'
  BY <1>2, <1>4, OtherStepsKeepFiles, InstallKeepsFiles, RolloutKeepsFiles
     DEF CommandStep, Helm
<1> QED
  BY <1>1, <1>3, <1>4 DEF WorkspaceNext, WorkspaceInv

LEMMA InitWorkspace == WorkspaceInit => WorkspaceInv
<1> SUFFICES ASSUME WorkspaceInit
             PROVE  WorkspaceInv
  OBVIOUS
<1>1. RollInv /\ HelmInv /\ ResolvingTypes /\ OnceInv
  BY InitRoll, InitHelm, InitOnce
<1>2. \A c \in Commands : /\ at[c] = "idle" /\ failed[c] = {} /\ applied[c] = {}
                          /\ installed[c] = {}
  BY DEF WorkspaceInit
<1>3. huge \subseteq Yamls
  BY DEF WorkspaceInit
<1> QED
  BY <1>1, <1>2, <1>3 DEF WorkspaceInv, FilesInv, Handles, RollInv, HelmInv

LEMMA WorkspaceTyped == WorkspaceInv => WorkspaceTypeOK
<1> SUFFICES ASSUME WorkspaceInv
             PROVE  WorkspaceTypeOK
  OBVIOUS
<1>1. RollTypes /\ HelmTypes /\ ResolvingTypes /\ (\A c \in Commands : Handles(c)) /\ huge \subseteq Yamls
  BY DEF WorkspaceInv, RollInv, HelmInv, FilesInv
<1> DEFINE Entry == [file : Yamls, by : Commands, cluster : Dirs \cup {Inherited}]
           Chart == [cluster : Clusters, by : Commands]
<1>2. applied \in [Commands -> SUBSET Entry]
  <2>1. ASSUME NEW c \in Commands, NEW a \in applied[c]
        PROVE  a \in Entry
    <3>1. a \in Applications /\ a.file \in Yamls /\ a.by \in Commands
      BY <1>1 DEF RollTypes, Handles
    <3> QED
      BY <3>1 DEF Applications
  <2> HIDE DEF Entry
  <2> QED
    BY <1>1, <2>1 DEF RollTypes
<1>3. installed \in [Commands -> SUBSET Chart]
  <2>1. ASSUME NEW c \in Commands, NEW i \in installed[c]
        PROVE  i \in Chart
    <3>1. i \in [cluster : Clusters, by : Owner] /\ i.by \in Commands
      BY <1>1 DEF HelmTypes, Handles
    <3> QED
      BY <3>1
  <2> HIDE DEF Chart
  <2> QED
    BY <1>1, <2>1 DEF HelmTypes
<1>4. failed \in [Commands -> SUBSET Yamls]
  BY <1>1 DEF RollTypes, Handles
<1>5. mishaps \in Nat /\ memory \in {"cut", "empty", "kept"}
  BY <1>1 DEF ResolvingTypes
<1> HIDE DEF Entry, Chart
<1>6. /\ cmd \in [Commands -> CommandKinds] /\ at \in [Commands -> Places]
      /\ outcome \in [Commands -> {"none", "ok", "error"}]
      /\ known \subseteq Commands /\ executions \in Nat
      /\ build \in [Entries -> Owner] /\ todo \in [Commands -> SUBSET Entries]
      /\ got \in [Commands -> Owner] /\ charts \subseteq Clusters
      /\ planned \in [Commands -> SUBSET Clusters] /\ left \in [Commands -> SUBSET Clusters]
      /\ helmBuild \in [Clusters -> Owner] /\ disturbed \subseteq Commands
      /\ huge \subseteq Yamls
  BY <1>1 DEF RollTypes, HelmTypes, ResolvingTypes
<1> QED
  BY <1>2, <1>3, <1>4, <1>5, <1>6, Zenon DEF WorkspaceTypeOK, Entry, Chart

\* The state of the commands stays well formed.
THEOREM WorkspaceTypes == WorkspaceSpec => []WorkspaceTypeOK
BY WorkspaceTyped, InitWorkspace, WorkspaceKept, PTL DEF WorkspaceSpec
=============================================================================
