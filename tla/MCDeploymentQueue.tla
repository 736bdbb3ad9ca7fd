-------------------------- MODULE MCDeploymentQueue --------------------------
(***************************************************************************)
(* Small instances of DeploymentQueue for TLC.                             *)
(***************************************************************************)
EXTENDS DeploymentQueue, TLC

CONSTANTS a1, a2, s1, s2, c1, c2, w1, w2, head

SymClients == Permutations({c1, c2})
SymWorkers == Permutations({w1, w2})
SymAll == SymClients \cup SymWorkers

Req(app, pr, s, only, force, nqa) ==
    [app |-> app, pr |-> pr, commit |-> head, server |-> s,
     onlyThis |-> only, force |-> force, nqa |-> nqa]

(* One home: every application is deployed to its main server only. *)
OneServer == {s1}
HomeMain == (a1 :> s1) @@ (a2 :> s1)
HomeExtra == (a1 :> {}) @@ (a2 :> {})
NoBuild == (a1 :> {}) @@ (a2 :> {})
HomeRequests == {Req(a1, 0, s1, FALSE, TRUE, FALSE), Req(a2, 0, s1, FALSE, FALSE, FALSE)}
OneBuild == [s \in {s1} |-> 1]

(* Two servers: a1 is also deployed to s2, the home of a2. *)
TwoServers == {s1, s2}
TwoMain == (a1 :> s1) @@ (a2 :> s2)
TwoExtra == (a1 :> {s2}) @@ (a2 :> {})
OneBuildEach == [s \in {s1, s2} |-> 1]
TwoRequests == {Req(a1, 0, s1, FALSE, FALSE, FALSE), Req(a1, 0, s2, TRUE, FALSE, TRUE),
                Req(a2, 0, s2, FALSE, FALSE, FALSE)}
TwoBuildServers == (a1 :> {s2}) @@ (a2 :> {})
=============================================================================
