----------------------------- MODULE Installers -----------------------------
(***************************************************************************)
(* install-restic-controller (src/src/install_restic_controller.rs): seven *)
(* objects are applied to the cluster one after the other.  Some belong to *)
(* a namespace, some to the whole cluster; each install replaces the       *)
(* objects it shares with another one.                                     *)
(*                                                                         *)
(* External: the Kubernetes API server.                                    *)
(***************************************************************************)
EXTENDS Naturals, Sequences

CONSTANTS
    Installs,      \* invocations of the command
    Namespaces,
    Secrets,       \* names of credentials secrets
    Wants,         \* what each install is given: [ns, secret]
    Nothing        \* no namespace, no secret

ASSUME InstallersAssumption ==
    /\ Wants \in [Installs -> [ns : Namespaces, secret : Secrets]]
    /\ Nothing \notin Namespaces \cup Secrets

VARIABLES
    doing, installEnd,   \* which step each install is at, and how it ended
    cluster,             \* the objects
    newest,              \* history: the install that started last
    together             \* history: installs that ran at the same time

installVars == <<doing, installEnd, cluster, newest, together>>

Order == <<"crd", "account", "clusterRole", "binding", "role", "roleBinding", "deployment">>
NotBegun == 0
Applied == Len(Order) + 1
Over == Applied + 1

Objects == [crd : BOOLEAN,
            account : SUBSET Namespaces,
            clusterRole : BOOLEAN,
            binding : Namespaces \cup {Nothing},  \* whose account may do the work
            role : [Namespaces -> Secrets \cup {Nothing}],   \* what it lets read
            roleBinding : SUBSET Namespaces,
            deployment : [Namespaces -> Secrets \cup {Nothing}]]  \* what it reads

InstallersTypeOK ==
    /\ doing \in [Installs -> NotBegun..Over]
    /\ installEnd \in [Installs -> {"none", "ok", "error"}]
    /\ cluster \in Objects
    /\ newest \in Installs
    /\ together \subseteq Installs

InstallersInit ==
    /\ doing = [i \in Installs |-> NotBegun]
    /\ installEnd = [i \in Installs |-> "none"]
    /\ cluster = [crd |-> FALSE, account |-> {}, clusterRole |-> FALSE,
                  binding |-> Nothing, role |-> [n \in Namespaces |-> Nothing],
                  roleBinding |-> {}, deployment |-> [n \in Namespaces |-> Nothing]]
    /\ newest \in Installs
    /\ together = {}

-----------------------------------------------------------------------------
Under == {i \in Installs : doing[i] \in 1..Applied}
Stops(i, how) ==
    /\ doing' = [doing EXCEPT ![i] = Over]
    /\ installEnd' = [installEnd EXCEPT ![i] = how]

\* The connection, then the credentials secret with its three keys.
CheckSecret(i) ==
    /\ doing[i] = NotBegun
    /\ \/ doing' = [doing EXCEPT ![i] = 1] /\ UNCHANGED installEnd
       \/ Stops(i, "error")
    /\ newest' = i
    /\ together' = IF Under = {} THEN together ELSE together \cup Under \cup {i}
    /\ UNCHANGED cluster

\* Mutant of After: the binding is created, and one that is there is left alone.
AfterBindingKept(i) ==
    LET ns == Wants[i].ns
        secret == Wants[i].secret
    IN  [crd |-> [cluster EXCEPT !.crd = TRUE],
         account |-> [cluster EXCEPT !.account = @ \cup {ns}],
         clusterRole |-> [cluster EXCEPT !.clusterRole = TRUE],
         binding |-> IF cluster.binding = Nothing THEN [cluster EXCEPT !.binding = ns] ELSE cluster,
         role |-> [cluster EXCEPT !.role[ns] = secret],
         roleBinding |-> [cluster EXCEPT !.roleBinding = @ \cup {ns}],
         deployment |-> [cluster EXCEPT !.deployment[ns] = secret]]

\* Server-side apply replaces what the object of that name said.
After(i) ==
    LET ns == Wants[i].ns
        secret == Wants[i].secret
    IN  [crd |-> [cluster EXCEPT !.crd = TRUE],
         account |-> [cluster EXCEPT !.account = @ \cup {ns}],
         clusterRole |-> [cluster EXCEPT !.clusterRole = TRUE],
         binding |-> [cluster EXCEPT !.binding = ns],
         role |-> [cluster EXCEPT !.role[ns] = secret],
         roleBinding |-> [cluster EXCEPT !.roleBinding = @ \cup {ns}],
         deployment |-> [cluster EXCEPT !.deployment[ns] = secret]]

\* The first error ends the install; the answer to a request that was carried
\* out may be lost.
ApplyObject(i) ==
    /\ doing[i] \in DOMAIN Order
    /\ \/ /\ cluster' = After(i)[Order[doing[i]]]
          /\ \/ doing' = [doing EXCEPT ![i] = @ + 1] /\ UNCHANGED installEnd
             \/ Stops(i, "error")
       \/ Stops(i, "error") /\ UNCHANGED cluster
    /\ UNCHANGED <<newest, together>>

InstallEnds(i) ==
    /\ doing[i] = Applied
    /\ Stops(i, "ok")
    /\ UNCHANGED <<cluster, newest, together>>

InstallStep(i) == CheckSecret(i) \/ ApplyObject(i) \/ InstallEnds(i)
InstallersNext == \E i \in Installs : InstallStep(i)
InstallersSpec == InstallersInit /\ [][InstallersNext]_installVars

-----------------------------------------------------------------------------
\* The install that started last, if it reports success and none ran at the
\* same time, leaves a controller with all it refers to, that may do its work
\* and read the very secret it was given.  (An earlier install to another
\* namespace leaves one that no longer may: there is one ClusterRoleBinding.)
InstalledWorks ==
    \A i \in Installs \ together :
        newest = i /\ installEnd[i] = "ok" =>
            /\ cluster.crd /\ cluster.clusterRole
            /\ Wants[i].ns \in cluster.account \cap cluster.roleBinding
            /\ cluster.binding = Wants[i].ns
            /\ cluster.deployment[Wants[i].ns] = Wants[i].secret
            /\ cluster.role[Wants[i].ns] = Wants[i].secret

=============================================================================
