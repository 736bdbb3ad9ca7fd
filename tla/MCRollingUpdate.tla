--------------------------- MODULE MCRollingUpdate ---------------------------
(***************************************************************************)
(* Small instances of RollingUpdate for TLC.                               *)
(***************************************************************************)
EXTENDS RollingUpdate, TLC

SymJobs == Permutations(Jobs)

(* Bound: one deployment has a health check, the other another plan.       *)
MCInit == Init /\ \E j \in Jobs : {k \in Jobs : job[k].plan = "checked"} = {j}
MCSpec == MCInit /\ [][Next]_vars
=============================================================================
