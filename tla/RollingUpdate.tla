---------------------------- MODULE RollingUpdate ----------------------------
(***************************************************************************)
(* What the deployment jobs of one application do to its containers: the   *)
(* helper container a job builds in, the new version it starts, its health *)
(* check, and the removal of the versions that were there before.          *)
(*                                                                         *)
(* The rows are those of DeploymentQueue; here a row is only read and      *)
(* settled, and the queue is the promise that an application has one row   *)
(* in progress at a time (the fault "overlap" drops it: a force start).    *)
(* That promise does not keep the processes apart: the job of a cancelled  *)
(* or failed row runs on while the next job begins, and learns of the      *)
(* cancellation only where it looks for one.                               *)
(*                                                                         *)
(* Every job names its container after itself.  Previews, a consistent or  *)
(* custom container name, swarm and compose build packs are not modelled.  *)
(***************************************************************************)
EXTENDS Integers, FiniteSets

CONSTANTS
    Jobs,     \* the deployments, each with its row, its helper, its container
    Old,      \* the version that runs before any of them
    Plans,    \* the settings to explore, read when a job is queued
    Retries,  \* health_check_retries
    Faults    \* which faults to explore

PlanKinds == {"checked", "unchecked",   \* rolling, with and without a health check
              "ports"}                  \* ports mapped to the host: old one first
FaultKinds == {"command", "crash", "effects", "overlap", "stale"}

ASSUME RollingAssumption ==
    /\ Old \notin Jobs
    /\ Plans # {} /\ Plans \subseteq PlanKinds
    /\ Retries \in Nat
    /\ Faults \subseteq FaultKinds

Containers == Jobs \cup {Old}

VARIABLES
    status,     \* [Jobs -> Statuses]: the rows
    job,        \* [Jobs -> JobState]: the processes
    container,  \* [Containers -> Health]: what runs on the server
    helper,     \* [Jobs -> BOOLEAN]: the helper containers
    killing,    \* cancellations that have not yet removed their helper
    cleaner,    \* CleanupHelperContainersJob: the active rows it has read
    current,    \* history: the last version declared healthy while in progress
    undone,     \* history: versions failed() removed after they were current
    missed      \* history: containers whose removal failed or was never tried

vars == <<status, job, container, helper, killing, cleaner, current, undone, missed>>
history == <<current, undone, missed>>

Statuses == {"none", "in_progress", "finished", "failed", "cancelled"}
Ended == {"finished", "failed"}
Health == {"none", "starting", "healthy", "unhealthy"}
Labels == {"none", "queued", "start", "launch", "build", "up", "upping", "health", "inspect",
           "list", "remove", "stopping", "reject", "complete",
           "failing", "discard", "final", "done", "lost"}

(* A job: the settings it was loaded with, the exception it ends with, the *)
(* containers it has still to remove, the one it is removing, and the      *)
(* attempts of its health check.                                           *)
JobState == [pc : Labels, plan : PlanKinds, code : {"none", "cancel", "error", "worker"},
             todo : SUBSET Containers, cur : Containers, tries : 0 .. Retries]

TypeOK ==
    /\ status \in [Jobs -> Statuses]
    /\ job \in [Jobs -> JobState]
    /\ container \in [Containers -> Health]
    /\ helper \in [Jobs -> BOOLEAN]
    /\ killing \subseteq Jobs
    /\ cleaner \in [on : BOOLEAN, active : SUBSET Jobs]
    /\ current \in Containers /\ undone \subseteq Jobs /\ missed \subseteq Containers
    /\ \A j \in Jobs : job[j].pc = "inspect" => job[j].tries < Retries

Init ==
    /\ status = [j \in Jobs |-> "none"]
    /\ job \in [Jobs -> {[pc |-> "none", plan |-> p, code |-> "none", todo |-> {},
                          cur |-> Old, tries |-> 0] : p \in Plans}]
    /\ container = [c \in Containers |-> IF c = Old THEN "healthy" ELSE "none"]
    /\ helper = [j \in Jobs |-> FALSE]
    /\ killing = {} /\ cleaner = [on |-> FALSE, active |-> {}]
    /\ current = Old /\ undone = {} /\ missed = {}

-----------------------------------------------------------------------------
(* What every step of a job is made of *)

At(j, pc) == job[j].pc = pc
Cancelled(j) == status[j] = "cancelled"
Up(c) == container[c] # "none"
Goto(j, pc) == job' = [job EXCEPT ![j].pc = pc]

(* Its local variables die with handle(). *)
Leave(j, pc, code) == job' = [job EXCEPT ![j].pc = pc, ![j].code = code, ![j].todo = {},
                                         ![j].cur = Old, ![j].tries = 0]

(* handle() catches, and calls fail(), which calls failed(). *)
Throw(j, code) == Leave(j, "failing", code)

(* The end of the health check, with its counter.                          *)
EndCheck(j, pc) == job' = [job EXCEPT ![j].pc = pc, ![j].tries = 0]

(* The containers to remove. *)
Doom(j, D) == job' = [job EXCEPT ![j].pc = "remove", ![j].todo = D]

MayFail == "command" \in Faults

(* execute_remote_command: the row is read again, then the command runs,   *)
(* then its exit code is looked at.  "possible" says that the server can   *)
(* do what the command asks.                                               *)
Command(j, possible, next) ==
    /\ \/ Cancelled(j) /\ Throw(j, "cancel")
       \/ ~Cancelled(j) /\ possible /\ Goto(j, next)
       \/ ~Cancelled(j) /\ (possible => MayFail) /\ Throw(j, "error")
    /\ UNCHANGED <<status, container, helper, killing, cleaner, history>>

-----------------------------------------------------------------------------
(* The queue hands out a row, handle() begins *)

(* One row of the application in progress at a time. *)
Request(j) ==
    /\ At(j, "none")
    /\ "overlap" \notin Faults => \A k \in Jobs : status[k] # "in_progress"
    /\ status' = [status EXCEPT ![j] = "in_progress"]
    /\ Goto(j, "queued")
    /\ UNCHANGED <<container, helper, killing, cleaner, history>>

(* A cancelled row ends the job (the update that follows this test is in   *)
(* DeploymentQueue); a server that is not functional fails it outside the  *)
(* try block, and nothing is cleaned up.                                   *)
Begin(j) ==
    /\ At(j, "queued")
    /\ \/ Cancelled(j) /\ Goto(j, "done")
       \/ ~Cancelled(j) /\ Goto(j, "start")
       \/ ~Cancelled(j) /\ MayFail /\ Throw(j, "worker")
    /\ UNCHANGED <<status, container, helper, killing, cleaner, history>>

(* handle() up to the test of the row before docker run. *)
Start(j) == At(j, "start") /\ Command(j, TRUE, "launch")

(* docker run of the helper container: a cancellation that arrives between *)
(* the test and the run finds no helper to remove, and a helper that could *)
(* not be stopped still has the name.                                      *)
Launch(j) ==
    /\ At(j, "launch")
    /\ \/ /\ ~helper[j] /\ helper' = [helper EXCEPT ![j] = TRUE]
          /\ Goto(j, "build")
       \/ /\ (helper[j] \/ MayFail) /\ UNCHANGED helper
          /\ Throw(j, IF Cancelled(j) THEN "cancel" ELSE "error")
    /\ UNCHANGED <<status, container, killing, cleaner, history>>

(* The commands executed in the helper, up to rolling_update's own test. *)
Build(j) == /\ At(j, "build")
            /\ Command(j, helper[j], IF job[j].plan = "ports" THEN "list" ELSE "up")

(* restart_builder_container_with_actual_commit: the helper is stopped, if *)
(* row and server let it, and prepared again.                              *)
Renew(j) ==
    /\ At(j, "build") /\ Goto(j, "start")
    /\ \/ ~Cancelled(j) /\ helper' = [helper EXCEPT ![j] = FALSE]
       \/ (Cancelled(j) \/ MayFail) /\ UNCHANGED helper
    /\ UNCHANGED <<status, container, killing, cleaner, history>>

-----------------------------------------------------------------------------
(* start_by_compose_file and health_check *)

(* touch .env, and the test of the row before docker compose up. *)
Compose(j) == At(j, "up") /\ Command(j, helper[j], "upping")

(* The end of docker compose up, run inside the helper.  A failed or       *)
(* killed one may have started the container all the same.                 *)
ComposeEnd(j) ==
    /\ At(j, "upping")
    /\ \/ /\ helper[j] /\ container' = [container EXCEPT ![j] = "starting"]
          /\ Goto(j, IF job[j].plan = "ports" THEN "complete" ELSE "health")
       \/ /\ helper[j] => MayFail
          /\ container' \in {container, [container EXCEPT ![j] = "starting"]}
          /\ Throw(j, IF Cancelled(j) THEN "cancel" ELSE "error")
    /\ UNCHANGED <<status, helper, killing, cleaner, history>>

(* The health check Docker runs in the container of version c. *)
Examined(c) ==
    /\ c \in Jobs /\ job[c].plan = "checked" /\ container[c] = "starting"
    /\ \E h \in {"healthy", "unhealthy"} : container' = [container EXCEPT ![c] = h]
    /\ UNCHANGED <<status, job, helper, killing, cleaner, history>>

(* newVersionIsHealthy = true; a job cancelled by now will remove nothing. *)
Passed(j) ==
    /\ EndCheck(j, "list")
    /\ current' = IF Cancelled(j) THEN current ELSE j
    /\ UNCHANGED <<status, container, helper, killing, cleaner, undone, missed>>

(* Mutant: one attempt too many. *)
HealthCheckMutant(j) ==
    /\ At(j, "health")
    /\ \/ job[j].plan # "checked" /\ Passed(j)
       \/ /\ job[j].plan = "checked" /\ job[j].tries <= Retries
          /\ Command(j, TRUE, "inspect")
       \/ /\ job[j].plan = "checked" /\ job[j].tries > Retries
          /\ EndCheck(j, "reject")
          /\ UNCHANGED <<status, container, helper, killing, cleaner, history>>

(* One round of the loop: the test of the row before docker inspect.  A    *)
(* disabled check passes without a look at the row or at the container.    *)
HealthCheck(j) ==
    /\ At(j, "health")
    /\ \/ job[j].plan # "checked" /\ Passed(j)
       \/ /\ job[j].plan = "checked" /\ job[j].tries < Retries
          /\ Command(j, TRUE, "inspect")
       \/ /\ job[j].plan = "checked" /\ job[j].tries >= Retries
          /\ EndCheck(j, "reject")
          /\ UNCHANGED <<status, container, helper, killing, cleaner, history>>

(* Mutant: a version that is not unhealthy has passed. *)
InspectMutant(j) ==
    /\ At(j, "inspect")
    /\ \/ container[j] \in {"healthy", "starting"} /\ Passed(j)
       \/ /\ container[j] = "unhealthy"
          /\ EndCheck(j, "reject")
          /\ UNCHANGED <<status, container, helper, killing, cleaner, history>>
       \/ /\ container[j] = "none"
          /\ Throw(j, IF Cancelled(j) THEN "cancel" ELSE "error")
          /\ UNCHANGED <<status, container, helper, killing, cleaner, history>>

(* What docker inspect says: healthy, unhealthy, one more attempt, or no   *)
(* such container.                                                         *)
Inspect(j) ==
    /\ At(j, "inspect")
    /\ \/ container[j] = "healthy" /\ Passed(j)
       \/ /\ \/ container[j] = "unhealthy"
                /\ EndCheck(j, "reject")
             \/ /\ container[j] = "starting"
                /\ job' = [job EXCEPT ![j].pc = "health", ![j].tries = @ + 1]
             \/ /\ container[j] = "none"
                /\ Throw(j, IF Cancelled(j) THEN "cancel" ELSE "error")
          /\ UNCHANGED <<status, container, helper, killing, cleaner, history>>

-----------------------------------------------------------------------------
(* stop_running_container: nothing it throws while it removes is heard *)

(* Mutant: the job's own container is on the list.                         *)
ListMutant(j) ==
    /\ At(j, "list")
    /\ \/ /\ Doom(j, {c \in Containers : Up(c)})
          /\ UNCHANGED missed
       \/ /\ MayFail /\ Goto(j, "remove")
          /\ missed' = missed \cup {c \in Containers : Up(c)}
    /\ UNCHANGED <<status, container, helper, killing, cleaner, current, undone>>

(* docker ps, without a look at the row: the containers of the             *)
(* application, but for the job's own.                                     *)
List(j) ==
    /\ At(j, "list")
    /\ \/ /\ Doom(j, {c \in Containers : Up(c)} \ {j})
          /\ UNCHANGED missed
       \/ /\ MayFail /\ Goto(j, "remove")
          /\ missed' = missed \cup ({c \in Containers : Up(c)} \ {j})
    /\ UNCHANGED <<status, container, helper, killing, cleaner, current, undone>>

(* Mutant: the row is not tested before docker stop.                       *)
RemoveMutant(j) ==
    \E c \in job[j].todo :
        /\ At(j, "remove")
        /\ \/ /\ UNCHANGED missed
              /\ job' = [job EXCEPT ![j].pc = "stopping", ![j].cur = c]
           \/ /\ MayFail /\ missed' = missed \cup {c}
              /\ job' = [job EXCEPT ![j].todo = @ \ {c}]
        /\ UNCHANGED <<status, container, helper, killing, cleaner, current, undone>>

(* graceful_shutdown_container: the test of the row.  The exception of a   *)
(* cancellation or of a failed command is caught, and the next container   *)
(* has its turn.                                                           *)
Remove(j) ==
    \E c \in job[j].todo :
        /\ At(j, "remove")
        /\ \/ /\ ~Cancelled(j) /\ UNCHANGED missed
              /\ job' = [job EXCEPT ![j].pc = "stopping", ![j].cur = c]
           \/ /\ Cancelled(j) \/ MayFail
              /\ job' = [job EXCEPT ![j].todo = @ \ {c}]
              /\ missed' = IF Cancelled(j) THEN missed ELSE missed \cup {c}
        /\ UNCHANGED <<status, container, helper, killing, cleaner, current, undone>>

(* docker stop and docker rm -f have run. *)
Removed(j) ==
    /\ At(j, "stopping")
    /\ container' = [container EXCEPT ![job[j].cur] = "none"]
    /\ job' = [job EXCEPT ![j].pc = "remove", ![j].cur = Old,
                          ![j].todo = @ \ {job[j].cur}]
    /\ UNCHANGED <<status, helper, killing, cleaner, history>>

(* With ports the new version starts now; a rolling update is over, also   *)
(* one that has rejected its own version.                                  *)
RemoveEnd(j) ==
    /\ At(j, "remove") /\ job[j].todo = {}
    /\ Goto(j, IF job[j].plan = "ports" THEN "up" ELSE "complete")
    /\ UNCHANGED <<status, container, helper, killing, cleaner, history>>

-----------------------------------------------------------------------------
(* The verdict: isInTerminalState and the update it guards.  Their race    *)
(* with a cancellation is in DeploymentQueue, here they are one step.      *)

(* Mutant: the row of a rejected version is not failed. *)
RejectMutant(j) ==
    /\ At(j, "reject")
    /\ Doom(j, {j})
    /\ UNCHANGED <<status, container, helper, killing, cleaner, history>>

(* failDeployment of an unhealthy version, then the removal of the version *)
(* itself; the exception of a cancellation is thrown again.                *)
Reject(j) ==
    /\ At(j, "reject")
    /\ \/ Cancelled(j) /\ Throw(j, "cancel") /\ UNCHANGED status
       \/ /\ ~Cancelled(j) /\ status' = [status EXCEPT ![j] = "failed"]
          /\ \/ Doom(j, {j})
             \/ "effects" \in Faults /\ Throw(j, "error")
    /\ UNCHANGED <<container, helper, killing, cleaner, history>>

(* completeDeployment: terminal states stay as they are; the event, the    *)
(* fan-out and the notification that follow a success may throw.  What     *)
(* post_deployment does afterwards takes its time, changes no container    *)
(* and throws nothing.                                                     *)
Complete(j) ==
    /\ At(j, "complete")
    /\ \/ Cancelled(j) /\ Throw(j, "cancel") /\ UNCHANGED status
       \/ status[j] \in Ended /\ Goto(j, "final") /\ UNCHANGED status
       \/ /\ status[j] = "in_progress" /\ status' = [status EXCEPT ![j] = "finished"]
          /\ \/ Goto(j, "final")
             \/ "effects" \in Faults /\ Throw(j, "error")
    /\ UNCHANGED <<container, helper, killing, cleaner, history>>

-----------------------------------------------------------------------------
(* failed() and the finally block of handle() *)

(* Where failed() returns to: the finally block, or the worker, when it    *)
(* was not handle() that failed the job.                                   *)
After(j) == IF job[j].code = "worker" THEN "done" ELSE "final"

(* Mutant: the new version of a failed deployment is never removed. *)
FailedMutant(j) ==
    /\ At(j, "failing")
    /\ status' = IF status[j] = "in_progress" THEN [status EXCEPT ![j] = "failed"]
                                              ELSE status
    /\ Goto(j, After(j))
    /\ UNCHANGED <<container, helper, killing, cleaner, history>>

(* failDeployment throws for a cancelled row and does nothing for a row    *)
(* that has its verdict; then the new version is removed, whatever the     *)
(* verdict was, unless the exception is that of a cancellation.            *)
Failed(j) ==
    /\ At(j, "failing")
    /\ status' = IF status[j] = "in_progress" THEN [status EXCEPT ![j] = "failed"]
                                              ELSE status
    /\ \/ /\ ~Cancelled(j) /\ job[j].code # "cancel"
          /\ Goto(j, "discard") /\ UNCHANGED missed
       \/ /\ Cancelled(j) \/ job[j].code = "cancel"
          /\ Goto(j, After(j)) /\ UNCHANGED missed
       \/ /\ "effects" \in Faults /\ status[j] = "in_progress"
          /\ Goto(j, After(j)) /\ missed' = missed \cup {j}
    /\ UNCHANGED <<container, helper, killing, cleaner, current, undone>>

(* docker rm -f of the job's own container. *)
Discard(j) ==
    /\ At(j, "discard")
    /\ Goto(j, After(j))
    /\ \/ /\ ~Cancelled(j) /\ container' = [container EXCEPT ![j] = "none"]
          /\ undone' = IF current = j THEN undone \cup {j} ELSE undone
          /\ UNCHANGED missed
       \/ /\ Cancelled(j) \/ MayFail
          /\ missed' = missed \cup {j} /\ UNCHANGED <<container, undone>>
    /\ UNCHANGED <<status, helper, killing, cleaner, current>>

(* Mutant: the helper is stopped only for a deployment that went well. *)
FinallyMutant(j) ==
    /\ At(j, "final")
    /\ Goto(j, "done")
    /\ helper' = IF status[j] = "finished" THEN [helper EXCEPT ![j] = FALSE] ELSE helper
    /\ UNCHANGED <<status, container, killing, cleaner, history>>

(* The helper is stopped through execute_remote_command, which refuses to  *)
(* run for a cancelled row.                                                *)
Finally(j) ==
    /\ At(j, "final")
    /\ Goto(j, "done")
    /\ \/ ~Cancelled(j) /\ helper' = [helper EXCEPT ![j] = FALSE] /\ UNCHANGED missed
       \/ /\ Cancelled(j) /\ UNCHANGED <<helper, missed>>
       \/ /\ ~Cancelled(j) /\ MayFail /\ UNCHANGED helper /\ missed' = missed \cup {j}
    /\ UNCHANGED <<status, container, killing, cleaner, current, undone>>

-----------------------------------------------------------------------------
(* A worker dies, or ends a job at its timeout *)

Running(j) == job[j].pc \notin {"none", "done", "lost"}

(* Once handle() or the worker has failed the job, it is deleted: whoever  *)
(* dies then is not run again.                                             *)
Crash(j) ==
    /\ "crash" \in Faults /\ Running(j)
    /\ \/ /\ job[j].code = "none" /\ UNCHANGED missed
          /\ Leave(j, "lost", "none")
       \/ /\ job[j].code # "none" /\ missed' = missed \cup {j}
          /\ Leave(j, "done", job[j].code)
    /\ UNCHANGED <<status, container, helper, killing, cleaner, current, undone>>

(* The job comes back after retry_after, or its worker ends it at its      *)
(* timeout: with tries = 1 only failed() runs.                             *)
Redeliver(j) ==
    /\ At(j, "lost") /\ Throw(j, "worker")
    /\ UNCHANGED <<status, container, helper, killing, cleaner, history>>

-----------------------------------------------------------------------------
(* DeploymentNavbar::cancel and CleanupHelperContainersJob *)

(* The row first, whatever it holds when the page is stale. *)
Cancel(j) ==
    /\ status[j] \in {"in_progress"} \cup (IF "stale" \in Faults THEN Ended ELSE {})
    /\ status' = [status EXCEPT ![j] = "cancelled"]
    /\ killing' = killing \cup {j}
    /\ UNCHANGED <<job, container, helper, cleaner, history>>

(* Then the helper, if docker ps finds one; an exception is swallowed. *)
KillHelper(j) ==
    /\ j \in killing
    /\ killing' = killing \ {j}
    /\ \/ helper' = [helper EXCEPT ![j] = FALSE]
       \/ MayFail /\ UNCHANGED helper
    /\ UNCHANGED <<status, job, container, cleaner, history>>

(* The rows that are active, before the containers are listed. *)
CleanerRead ==
    /\ ~cleaner.on
    /\ cleaner' = [on |-> TRUE, active |-> {j \in Jobs : status[j] = "in_progress"}]
    /\ UNCHANGED <<status, job, container, helper, killing, history>>

(* Every helper of another deployment is removed, also of one whose row    *)
(* was created since (one that was queued by then is as one never swept).  *)
CleanerSweep ==
    /\ cleaner.on
    /\ helper' = [j \in Jobs |-> helper[j] /\ j \in cleaner.active]
    /\ cleaner' = [on |-> FALSE, active |-> {}]
    /\ UNCHANGED <<status, job, container, killing, history>>

-----------------------------------------------------------------------------
JobStep(j) ==
    \/ Begin(j) \/ Start(j) \/ Launch(j) \/ Build(j) \/ Renew(j)
    \/ Compose(j) \/ ComposeEnd(j)
    \/ HealthCheck(j) \/ Inspect(j) \/ List(j) \/ Remove(j) \/ Removed(j)
    \/ RemoveEnd(j) \/ Reject(j) \/ Complete(j)
    \/ Failed(j) \/ Discard(j) \/ Finally(j) \/ Redeliver(j)

Next ==
    \/ \E j \in Jobs :
        JobStep(j) \/ Request(j) \/ Crash(j) \/ Cancel(j) \/ KillHelper(j)
    \/ \E c \in Containers : Examined(c)
    \/ CleanerRead \/ CleanerSweep

Spec == Init /\ [][Next]_vars

-----------------------------------------------------------------------------
(* Properties *)

Serial == "overlap" \notin Faults

(* A version the proxy may send requests to: healthy, or not checked. *)
Serving(c) ==
    \/ container[c] = "healthy"
    \/ c \in Jobs /\ Up(c) /\ job[c].plan = "unchecked"

(* A rolling update never leaves the application without a version that    *)
(* serves: not when it fails, is cancelled anywhere, loses its helper, or  *)
(* dies and comes back while the next one runs.  Excepted are the jobs     *)
(* that stop the old version first, and a current version that failed()    *)
(* has removed.  About: the order of rolling_update and everything that    *)
(* removes a container.                                                    *)
Served ==
    /\ Serial
    /\ \A j \in Jobs : job[j].plan = "ports" => At(j, "none")
    /\ current \notin undone
    => \E c \in Containers : Serving(c)

(* A row is finished only when the version of its deployment serves (with  *)
(* ports: runs), whatever other jobs and cancellations did meanwhile.      *)
FinishedIsUp ==
    [][\A j \in Jobs : Serial /\ status[j] # "finished" /\ status'[j] = "finished"
            => IF job[j].plan = "ports" THEN Up(j) ELSE Serving(j)]_vars

(* Once everything has ended, at most one version runs and it is not that  *)
(* of a failed deployment, but for cancelled deployments (their version is *)
(* not removed) and for removals that failed.  About: stop_running_        *)
(* container and failed() against the cancellations both swallow.          *)
Quiet == killing = {} /\ \A j \in Jobs : job[j].pc \in {"none", "done"}
Left == {c \in Containers : Up(c) /\ c \notin missed /\ (c \in Jobs => ~Cancelled(c))}
OneVersion ==
    Serial /\ Quiet =>
        /\ \A c, d \in Left : c = d
        /\ \A j \in Left \cap Jobs : status[j] # "failed"

(* The helper of a deployment that has ended is gone, unless the row was   *)
(* cancelled (the helper may start after the cancellation looked for it,   *)
(* and the job may then not stop it), or its removal failed, or its worker *)
(* was killed.                                                             *)
HelperStopped ==
    \A j \in Jobs : At(j, "done") /\ helper[j] =>
        Cancelled(j) \/ j \in missed \/ job[j].code = "worker"

(* Nothing but failed() of its own job, which has met an exception, takes  *)
(* the current version away before another has passed, whether its row is  *)
(* in progress, finished or cancelled by now: not the jobs that            *)
(* cancellations leave behind, with the containers they have listed, nor   *)
(* the list of its own, nor the next job while its version is examined.    *)
(* Excepted are the jobs that stop the old version first.  About: the      *)
(* lists of stop_running_container, and who is on them.                    *)
CurrentIsKept ==
    /\ Serial
    /\ \A j \in Jobs : job[j].plan = "ports" => At(j, "none")
    => \A j \in Jobs : current = j => Up(j) \/ (j \in undone /\ job[j].code # "none")

(* The deployments as Release sees them: those with their container still  *)
(* to start, by their place in handle(), the versions that run, those that *)
(* have met an exception, and those that stop the old version first.       *)
Unstarted == {j \in Jobs :
    \/ job[j].pc \in {"none", "queued", "start", "launch", "build", "up", "upping"}
    \/ job[j].plan = "ports" /\ job[j].pc \in {"list", "remove", "stopping"}}
UpVersions == {c \in Containers : Up(c)}
Thrown == {j \in Jobs : job[j].code # "none"}
StopsFirst == {j \in Jobs : job[j].plan = "ports" /\ ~At(j, "none")}
Versions == INSTANCE Release WITH
    Deployments <- Jobs, verdict <- status, ahead <- Unstarted, running <- UpVersions,
    live <- current, broken <- Thrown, stopping <- StopsFirst

(* What the versions go through, told without jobs and containers, is the  *)
(* life cycle of Release: none starts twice or comes back, a deployment    *)
(* makes live, and finishes with, its own running version only while it is *)
(* in progress, its version is then removed by nobody, and a live version  *)
(* by nobody but its own failed().  About: every step that starts, passes  *)
(* or removes a version or settles a row, whoever is still running.        *)
ImplementsRelease == Versions!Spec

(***************************************************************************)
(* What a comment says, and the code does not do.                          *)
(***************************************************************************)

(* "Mark deployment as complete FIRST", so that what follows "should not   *)
(* fail the deployment": the version of a finished deployment stays until  *)
(* another one has taken its place.                                        *)
FinishedStays == \A j \in Jobs : current = j /\ status[j] = "finished" => Up(j)

=============================================================================
