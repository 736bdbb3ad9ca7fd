------------------------- MODULE DeploymentLifecycle -------------------------
(***************************************************************************)
(* What the deployment queue promises of its rows, whoever writes them: an *)
(* abstract specification, which DeploymentQueue implements.               *)
(*                                                                         *)
(* The queue has many writers and no lock, so a writer acts on what it     *)
(* read.  A row is held while some process has read it and has not written *)
(* it yet.  The promise is about who may still move a row:                 *)
(*                                                                         *)
(*   - a row is queued once, when it is inserted;                          *)
(*   - nobody takes hold of a cancelled row, and only who holds a row      *)
(*     starts, finishes or fails it, so that the cancellation of a row     *)
(*     nobody holds is final;                                              *)
(*   - a row is finished only if it was in progress before;                *)
(*   - anybody may cancel, and a restart fails what is active.             *)
(*                                                                         *)
(* The rows do not depend on each other: a step moves each of them, or     *)
(* leaves it alone.                                                        *)
(***************************************************************************)
CONSTANT Deployments

VARIABLES
    status,   \* [Deployments -> Statuses]; "none" before the row exists
    held      \* the rows some process has read and will write

vars == <<status, held>>

Statuses == {"none", "queued", "in_progress", "finished", "failed", "cancelled"}

Init == /\ status = [d \in Deployments |-> "none"]
        /\ held = {}

Stays(d) == status'[d] = status[d]
Drops(d) == d \in held' => d \in held

(* The row is created, and its creator holds it. *)
Insert(d) == status[d] = "none" /\ status'[d] = "queued" /\ d \in held'

(* Some process reads the row. *)
Hold(d) == status[d] \notin {"none", "cancelled"} /\ Stays(d) /\ d \in held'

(* Its last reader is done with it, or dies. *)
Release(d) == d \in held /\ Stays(d) /\ d \notin held'

(* Some process that holds the row starts it or fails it. *)
Move(d) ==
    /\ d \in held /\ status[d] # "none"
    /\ status'[d] \in {"in_progress", "failed"}

(* The job that holds the row, and has it in progress, finishes it. *)
Finish(d) ==
    /\ d \in held /\ status[d] \notin {"none", "queued"}
    /\ status'[d] = "finished" /\ Drops(d)

(* Anybody cancels the row. *)
Cancel(d) == status[d] # "none" /\ status'[d] = "cancelled" /\ Drops(d)

(* A restart ends every process and every active row. *)
Abandon(d) ==
    /\ status[d] \in {"queued", "in_progress"} /\ status'[d] = "failed"
    /\ d \notin held'

RowStep(d) ==
    \/ Insert(d) \/ Hold(d) \/ Release(d) \/ Move(d)
    \/ Finish(d) \/ Cancel(d) \/ Abandon(d)
    \/ Stays(d) /\ (d \in held' <=> d \in held)

Next ==
    /\ status' \in [Deployments -> Statuses] /\ held' \subseteq Deployments
    /\ \A d \in Deployments : RowStep(d)

Spec == Init /\ [][Next]_vars
=============================================================================
