------------------------------ MODULE Fixtures ------------------------------
(***************************************************************************)
(* load-fixtures (src/src/load_fixtures.rs): each database named by a      *)
(* fixtures.toml is dropped, created and filled with its SQL file, through *)
(* kubectl exec.  Nothing keeps two of these commands apart.               *)
(*                                                                         *)
(* External: kubectl, and the PostgreSQL pods behind it.                   *)
(***************************************************************************)
EXTENDS Naturals, Sequences

CONSTANTS
    Loaders,       \* invocations of the command
    Databases,
    Fixtures       \* of all clusters, in order: [cluster, db]

Lines == DOMAIN Fixtures
DbOf(f) == Fixtures[f].db

ASSUME FixturesAssumption ==
    /\ Len(Fixtures) \in Nat /\ Lines = 1 .. Len(Fixtures)
    /\ \A f \in Lines : DbOf(f) \in Databases

VARIABLES
    stage, ended,  \* how far each invocation is, and how it ended
    rest,          \* fixtures it has yet to load
    loaded, notLoaded,   \* those its summary will name
    db,            \* each database: does it exist, whose SQL did it take
    shared,        \* history: invocations that ran at the same time
    latest,        \* history: the invocation that started last
    chatty         \* fixtures for which psql prints more than the pipes hold
                   \* before it has read its input

fixVars == <<stage, ended, rest, loaded, notLoaded, db, shared, latest, chatty>>

Stages == {"idle", "next", "dropping", "creating", "loading", "ended"}
Untouched == [exists |-> TRUE, rows |-> {}]
Dropped == [exists |-> FALSE, rows |-> {}]

FixturesTypeOK ==
    /\ stage \in [Loaders -> Stages]
    /\ ended \in [Loaders -> {"none", "ok", "error"}]
    /\ rest \in [Loaders -> SUBSET Lines]
    /\ loaded \in [Loaders -> SUBSET Lines]
    /\ notLoaded \in [Loaders -> SUBSET Lines]
    /\ db \in [Databases -> [exists : BOOLEAN, rows : SUBSET (Loaders \X Lines)]]
    /\ shared \subseteq Loaders
    /\ latest \in Loaders
    /\ chatty \subseteq Lines

FixturesInit ==
    /\ stage = [l \in Loaders |-> "idle"]
    /\ ended = [l \in Loaders |-> "none"]
    /\ rest = [l \in Loaders |-> Lines]
    /\ loaded = [l \in Loaders |-> {}]
    /\ notLoaded = [l \in Loaders |-> {}]
    /\ db = [d \in Databases |-> Untouched]
    /\ shared = {}
    /\ latest \in Loaders
    /\ chatty \in SUBSET Lines

-----------------------------------------------------------------------------
NextFixture(l) == CHOOSE f \in rest[l] : \A g \in rest[l] : f <= g
Enter(l, s) == stage' = [stage EXCEPT ![l] = s] /\ UNCHANGED ended
Finish(l, how) ==
    /\ stage' = [stage EXCEPT ![l] = "ended"]
    /\ ended' = [ended EXCEPT ![l] = how]
Running == {l \in Loaders : stage[l] \notin {"idle", "ended"}}

\* No platform/ directory ends it; so does having nothing to load, well.
StartLoading(l) ==
    /\ stage[l] = "idle"
    /\ \/ Enter(l, "next") /\ Lines # {}
       \/ Finish(l, "ok") /\ Lines = {}
       \/ Finish(l, "error")
    /\ shared' = IF Running = {} THEN shared ELSE shared \cup Running \cup {l}
    /\ latest' = l
    /\ UNCHANGED <<rest, loaded, notLoaded, db, chatty>>

StartsCluster(f) == f > 1 => Fixtures[f].cluster # Fixtures[f - 1].cluster

\* The .envrc or the fixtures.toml of a cluster: an error ends the command,
\* without its summary.
ClusterFails(l) ==
    /\ stage[l] = "next" /\ rest[l] # {}
    /\ StartsCluster(NextFixture(l))
    /\ Finish(l, "error")
    /\ UNCHANGED <<rest, loaded, notLoaded, db, shared, latest, chatty>>

\* The SQL file and the password.
Prepared(l) ==
    /\ stage[l] = "next" /\ rest[l] # {}
    /\ Enter(l, "dropping")
    /\ UNCHANGED <<rest, loaded, notLoaded, db, shared, latest, chatty>>

Reports(l) ==
    /\ notLoaded' = [notLoaded EXCEPT ![l] = @ \cup {NextFixture(l)}]
    /\ rest' = [rest EXCEPT ![l] = @ \ {NextFixture(l)}]
    /\ Enter(l, "next")

\* Mutant of FixtureFails: the fixture is left without a word.
FixtureFailsSilently(l) ==
    /\ stage[l] \in {"next", "dropping", "creating", "loading"}
    /\ rest[l] # {}
    /\ rest' = [rest EXCEPT ![l] = @ \ {NextFixture(l)}]
    /\ Enter(l, "next")
    /\ UNCHANGED <<loaded, notLoaded, db, shared, latest, chatty>>

\* Any of its steps may fail: it is reported, what was done stays done.
FixtureFails(l) ==
    /\ stage[l] \in {"next", "dropping", "creating", "loading"}
    /\ rest[l] # {}
    /\ Reports(l)
    /\ UNCHANGED <<loaded, db, shared, latest, chatty>>

\* pg_terminate_backend && dropdb ...
DropDb(l) ==
    /\ stage[l] = "dropping"
    /\ db' = [db EXCEPT ![DbOf(NextFixture(l))] = Dropped]
    /\ Enter(l, "creating")
    /\ UNCHANGED <<rest, loaded, notLoaded, shared, latest, chatty>>

\* ... && createdb, which fails if another invocation was faster.
CreateDb(l) ==
    /\ stage[l] = "creating"
    /\ ~db[DbOf(NextFixture(l))].exists
    /\ db' = [db EXCEPT ![DbOf(NextFixture(l))] = Untouched]
    /\ Enter(l, "loading")
    /\ UNCHANGED <<rest, loaded, notLoaded, shared, latest, chatty>>

\* All the SQL is written before anything psql prints is read: with enough to
\* print it never ends.  Without ON_ERROR_STOP psql goes on after an error and
\* exits 0, so this says only that it came to the end of the file.
LoadSql(l) ==
    /\ stage[l] = "loading"
    /\ LET f == NextFixture(l)
       IN  /\ f \notin chatty
           /\ db[DbOf(f)].exists
           /\ db' = [db EXCEPT ![DbOf(f)].rows = @ \cup {<<l, f>>}]
           /\ loaded' = [loaded EXCEPT ![l] = @ \cup {f}]
           /\ rest' = [rest EXCEPT ![l] = @ \ {f}]
    /\ Enter(l, "next")
    /\ UNCHANGED <<notLoaded, shared, latest, chatty>>

Summarise(l) ==
    /\ stage[l] = "next" /\ rest[l] = {}
    /\ Finish(l, IF notLoaded[l] = {} THEN "ok" ELSE "error")
    /\ UNCHANGED <<rest, loaded, notLoaded, db, shared, latest, chatty>>

\* What would read psql's output waits in write_all() for psql to read.
WaitsForPsql(l) == stage[l] = "loading" /\ NextFixture(l) \in chatty

LoaderStep(l) ==
    \/ StartLoading(l) \/ ClusterFails(l) \/ Prepared(l)
    \/ ~WaitsForPsql(l) /\ FixtureFails(l)
    \/ DropDb(l) \/ CreateDb(l) \/ LoadSql(l) \/ Summarise(l)

FixturesNext == \E l \in Loaders : LoaderStep(l)
FixturesSpec == FixturesInit /\ [][FixturesNext]_fixVars
FixturesFairness ==
    \A l \in Loaders : WF_fixVars(stage[l] # "idle" /\ LoaderStep(l))

-----------------------------------------------------------------------------
(***************************************************************************)
(* Properties.                                                             *)
(***************************************************************************)

\* Dropping comes before loading, so a failure leaves less than there was.
\* When the command ended, by its summary or at a cluster's error, every
\* database the latest invocation got to holds the SQL of its last fixture and
\* nothing else, or that fixture is reported; success is reported only if
\* nothing else is.
\* Two invocations at the same time may empty each other's databases.
DoneFor(l, d) == {f \in Lines \ rest[l] : DbOf(f) = d}
Accounted ==
    \A l \in Loaders \ shared : stage[l] = "ended" /\ latest = l =>
        /\ \A d \in Databases : DoneFor(l, d) # {} =>
              LET last == CHOOSE f \in DoneFor(l, d) : \A g \in DoneFor(l, d) : g <= f
              IN  \/ last \in notLoaded[l]
                  \/ db[d].exists /\ db[d].rows = {<<l, last>>}
        /\ ended[l] = "ok" => rest[l] = {} /\ loaded[l] = Lines

\* Every invocation ends, unless it waits for a psql that waits for it.
LoadersEnd ==
    \A l \in Loaders : (stage[l] # "idle") ~> (stage[l] = "ended" \/ WaitsForPsql(l))

=============================================================================
