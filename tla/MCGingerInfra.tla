--------------------------- MODULE MCGingerInfra ---------------------------
(***************************************************************************)
(* A small instance of GingerInfra for TLC.                                *)
(***************************************************************************)
EXTENDS GingerInfra

CONSTANTS s1, s2, s3, h1, u1, u2, c1, c2, root, k1, sub, k2, d1, i1, i2, ns1, ns2, key1, key2

Same == [s \in Ssl |-> One(Domains)]
Differ == [Same EXCEPT ![s3] = One(Domains \ {One(Domains)})]

MCLoads == {
    [requests |-> {s1, s2, s3}, domain |-> Same, heart |-> FALSE, troubles |-> 0],
    [requests |-> {s1, s2, s3}, domain |-> Differ, heart |-> FALSE, troubles |-> 0],
    [requests |-> {h1, u1, u2}, domain |-> Same, heart |-> FALSE, troubles |-> 0],
    [requests |-> {s1, u1}, domain |-> Same, heart |-> TRUE, troubles |-> 0],
    [requests |-> {}, domain |-> Same, heart |-> TRUE, troubles |-> 3]}

\* platform/k1/sub has no .envrc of its own.
MCPlatform == <<
    [dir |-> k1, envrc |-> TRUE],
    [dir |-> sub, envrc |-> FALSE],
    [dir |-> k2, envrc |-> FALSE]>>

MCUp == [d \in Dirs |->
    CASE d = root -> <<root>>
      [] d = sub  -> <<sub, k1, root>>
      [] OTHER    -> <<d, root>>]

Two(a, b) == [c \in Commands |-> IF c = c1 THEN a ELSE b]

MCBenches == {
    [cmd |-> Two("rollout", "plan"), overlap |-> TRUE, kills |-> TRUE,
     charts |-> {}, edits |-> {}, huge |-> {}],
    [cmd |-> Two("rollout", "rollout"), overlap |-> FALSE, kills |-> FALSE,
     charts |-> {}, edits |-> {}, huge |-> {3}],
    [cmd |-> Two("dry-run", "verbose-replace"), overlap |-> FALSE, kills |-> TRUE,
     charts |-> {}, edits |-> {}, huge |-> {}],
    [cmd |-> Two("install-helm-charts", "install-helm-charts"), overlap |-> FALSE,
     kills |-> TRUE, charts |-> {k1, k2}, edits |-> {{k1}, {}}, huge |-> {}]}

MCFixtures == <<
    [cluster |-> k1, db |-> d1],
    [cluster |-> k2, db |-> d1]>>

MCWants == [i \in Installs |->
    IF i = i1 THEN [ns |-> ns1, secret |-> key1] ELSE [ns |-> ns2, secret |-> key2]]

=============================================================================
