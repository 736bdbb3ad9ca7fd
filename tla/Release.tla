------------------------------- MODULE Release -------------------------------
(***************************************************************************)
(* What the deployments of one application promise about its versions: an  *)
(* abstract specification, which RollingUpdate implements as long as one   *)
(* deployment at a time is in progress.                                    *)
(*                                                                         *)
(* Here are no helpers, lists, health checks or processes left behind by   *)
(* cancellations and crashes: a deployment has a verdict, a version and    *)
(* perhaps an exception, and one version is live.                          *)
(*                                                                         *)
(*   - a version starts at most once, and one that is gone stays gone;     *)
(*   - it becomes live while it runs and its deployment is in progress,    *)
(*     so that one superseded, cancelled or failed never does again;       *)
(*   - a deployment is finished only while its version is the live one;    *)
(*   - the version of a deployment in progress is retired by nobody, and   *)
(*     the live one only by the failure of its own deployment.             *)
(*                                                                         *)
(* A deployment that stops the old version first makes none live, and      *)
(* from then on the live one may be retired.                               *)
(***************************************************************************)
CONSTANTS Deployments, Old

VARIABLES
    verdict,   \* [Deployments -> Verdicts]
    ahead,     \* the deployments that have not started their version
    running,   \* the versions that run
    live,      \* the version requests are meant for
    broken,    \* the deployments that have met an exception
    stopping   \* those begun that stop the old version first

vars == <<verdict, ahead, running, live, broken, stopping>>

Init ==
    /\ verdict = [d \in Deployments |-> "none"]
    /\ ahead = Deployments /\ running = {Old} /\ live = Old
    /\ broken = {} /\ stopping = {}

InProgress(d) == verdict[d] = "in_progress"
Settle(d, v) == verdict' = [verdict EXCEPT ![d] = v]
MayBreak(d) == broken' \in {broken, broken \cup {d}}

Begin(d) ==
    /\ verdict[d] = "none" /\ \A e \in Deployments : ~InProgress(e)
    /\ Settle(d, "in_progress") /\ stopping' \in {stopping, stopping \cup {d}}
    /\ UNCHANGED <<ahead, running, live, broken>>

(* A cancelled deployment may still be on its way here. *)
Start(d) ==
    /\ verdict[d] \in {"in_progress", "cancelled"} /\ d \in ahead /\ d \notin broken
    /\ ahead' = ahead \ {d} /\ running' = running \cup {d} /\ MayBreak(d)
    /\ UNCHANGED <<verdict, live, stopping>>

(* Its version will never start. *)
Drop(d) ==
    /\ d \in ahead /\ verdict[d] # "none"
    /\ ahead' = ahead \ {d} /\ MayBreak(d)
    /\ UNCHANGED <<verdict, running, live, stopping>>

Break(d) ==
    /\ verdict[d] # "none" /\ d \notin broken /\ broken' = broken \cup {d}
    /\ UNCHANGED <<verdict, ahead, running, live, stopping>>

GoLive(d) ==
    /\ InProgress(d) /\ d \in running /\ d \notin broken \cup stopping
    /\ live' = d
    /\ UNCHANGED <<verdict, ahead, running, broken, stopping>>

Finish(d) ==
    /\ InProgress(d) /\ d \in running /\ d \notin broken
    /\ live = d \/ d \in stopping
    /\ Settle(d, "finished") /\ MayBreak(d)
    /\ UNCHANGED <<ahead, running, live, stopping>>

Fail(d) ==
    /\ InProgress(d) /\ Settle(d, "failed") /\ MayBreak(d)
    /\ UNCHANGED <<ahead, running, live, stopping>>

(* Anybody, at any time, and nothing but the verdict. *)
Cancel(d) ==
    /\ verdict[d] \notin {"none", "cancelled"} /\ Settle(d, "cancelled")
    /\ UNCHANGED <<ahead, running, live, broken, stopping>>

Retire(c) ==
    /\ c \in Deployments => ~InProgress(c)
    /\ c = live => c \in broken \/ stopping # {}
    /\ running' = running \ {c}
    /\ UNCHANGED <<verdict, ahead, live, broken, stopping>>

Next ==
    \/ \E d \in Deployments :
        \/ Begin(d) \/ Start(d) \/ Drop(d) \/ Break(d) \/ GoLive(d)
        \/ Finish(d) \/ Fail(d) \/ Cancel(d)
    \/ \E c \in running : Retire(c)

Spec == Init /\ [][Next]_vars
=============================================================================
