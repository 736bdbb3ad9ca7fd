------------------------- MODULE RollingUpdateProofs -------------------------
(***************************************************************************)
(* Proofs about RollingUpdate, for any number of deployments, any number   *)
(* of attempts of the health check and every fault.                        *)
(***************************************************************************)
EXTENDS RollingUpdate, TLAPS

(***************************************************************************)
(* What the helpers of the job steps do to the records.                    *)
(***************************************************************************)
Move(j, pc, code, todo, cur, tries) ==
    /\ job' \in [Jobs -> JobState]
    /\ \A k \in Jobs \ {j} : job'[k] = job[k]
    /\ job'[j].pc = pc /\ job'[j].plan = job[j].plan /\ job'[j].code = code
    /\ job'[j].todo = todo /\ job'[j].cur = cur /\ job'[j].tries = tries

LEMMA GotoMoves ==
    ASSUME TypeOK, NEW j \in Jobs, NEW pc \in Labels, Goto(j, pc)
    PROVE  Move(j, pc, job[j].code, job[j].todo, job[j].cur, job[j].tries)
<1>1. job \in [Jobs -> JobState] /\ job[j] \in JobState
    BY DEF TypeOK
<1> QED
    BY <1>1 DEF Goto, Move, JobState

LEMMA LeaveMoves ==
    ASSUME TypeOK, NEW j \in Jobs, NEW pc \in Labels,
           NEW code \in {"none", "cancel", "error", "worker"}, Leave(j, pc, code)
    PROVE  Move(j, pc, code, {}, Old, 0)
<1>1. job \in [Jobs -> JobState] /\ job[j] \in JobState
    BY DEF TypeOK
<1>2. Old \in Containers /\ 0 \in 0 .. Retries
    BY RollingAssumption DEF Containers
<1> QED
    BY <1>1, <1>2 DEF Leave, Move, JobState

LEMMA ThrowMoves ==
    ASSUME TypeOK, NEW j \in Jobs,
           NEW code \in {"none", "cancel", "error", "worker"}, Throw(j, code)
    PROVE  Move(j, "failing", code, {}, Old, 0)
BY LeaveMoves DEF Throw, Labels

LEMMA EndCheckMoves ==
    ASSUME TypeOK, NEW j \in Jobs, NEW pc \in Labels, EndCheck(j, pc)
    PROVE  Move(j, pc, job[j].code, job[j].todo, job[j].cur, 0)
<1>1. job \in [Jobs -> JobState] /\ job[j] \in JobState
    BY DEF TypeOK
<1>2. 0 \in 0 .. Retries
    BY RollingAssumption
<1> QED
    BY <1>1, <1>2 DEF EndCheck, Move, JobState

LEMMA DoomMoves ==
    ASSUME TypeOK, NEW j \in Jobs, NEW D \in SUBSET Containers, Doom(j, D)
    PROVE  Move(j, "remove", job[j].code, D, job[j].cur, job[j].tries)
<1>1. job \in [Jobs -> JobState] /\ job[j] \in JobState
    BY DEF TypeOK
<1> QED
    BY <1>1 DEF Doom, Move, JobState, Labels

(* The steps of the removal loop and of the health check.                  *)
LEMMA LoopMoves ==
    ASSUME TypeOK, NEW j \in Jobs
    PROVE  /\ \A c \in job[j].todo :
               /\ job' = [job EXCEPT ![j].pc = "stopping", ![j].cur = c]
                    => Move(j, "stopping", job[j].code, job[j].todo, c, job[j].tries)
               /\ job' = [job EXCEPT ![j].todo = @ \ {c}]
                    => Move(j, job[j].pc, job[j].code, job[j].todo \ {c}, job[j].cur,
                            job[j].tries)
           /\ job' = [job EXCEPT ![j].pc = "remove", ![j].cur = Old,
                                 ![j].todo = @ \ {job[j].cur}]
                => Move(j, "remove", job[j].code, job[j].todo \ {job[j].cur}, Old,
                        job[j].tries)
<1>1. job \in [Jobs -> JobState] /\ job[j] \in JobState
    BY DEF TypeOK
<1>2. Old \in Containers /\ job[j].todo \subseteq Containers
    BY <1>1 DEF Containers, JobState
<1>3. ASSUME NEW c \in job[j].todo, job' = [job EXCEPT ![j].pc = "stopping", ![j].cur = c]
      PROVE  Move(j, "stopping", job[j].code, job[j].todo, c, job[j].tries)
    BY <1>1, <1>2, <1>3 DEF Move, JobState, Labels
<1>4. ASSUME NEW c \in job[j].todo, job' = [job EXCEPT ![j].todo = @ \ {c}]
      PROVE  Move(j, job[j].pc, job[j].code, job[j].todo \ {c}, job[j].cur, job[j].tries)
    BY <1>1, <1>2, <1>4 DEF Move, JobState
<1>5. ASSUME job' = [job EXCEPT ![j].pc = "remove", ![j].cur = Old,
                                ![j].todo = @ \ {job[j].cur}]
      PROVE  Move(j, "remove", job[j].code, job[j].todo \ {job[j].cur}, Old, job[j].tries)
    <2>1. job[j].todo \ {job[j].cur} \in SUBSET Containers
        BY <1>2
    <2> QED
        BY <1>1, <1>2, <1>5, <2>1 DEF Move, JobState, Labels
<1> QED
    BY <1>3, <1>4, <1>5

LEMMA AttemptMoves ==
    ASSUME TypeOK, NEW j \in Jobs, At(j, "inspect"),
           job' = [job EXCEPT ![j].pc = "health", ![j].tries = @ + 1]
    PROVE  Move(j, "health", job[j].code, job[j].todo, job[j].cur, job[j].tries + 1)
<1>1. job \in [Jobs -> JobState] /\ job[j] \in JobState
    BY DEF TypeOK
<1> DEFINE n == job[j].tries + 1
<1>2. n \in 0 .. Retries
    BY <1>1, RollingAssumption DEF TypeOK, At, JobState
<1>3. job' = [job EXCEPT ![j].pc = "health", ![j].tries = n]
    BY <1>1 DEF JobState
<1> HIDE DEF n
<1>4. Move(j, "health", job[j].code, job[j].todo, job[j].cur, n)
    BY <1>1, <1>2, <1>3 DEF Move, JobState, Labels
<1> QED
    BY <1>4 DEF n

LEMMA CommandMoves ==
    ASSUME TypeOK, NEW j \in Jobs, NEW possible, NEW next \in Labels,
           Command(j, possible, next)
    PROVE  /\ \/ Cancelled(j) /\ Move(j, "failing", "cancel", {}, Old, 0)
              \/ ~Cancelled(j) /\ Move(j, "failing", "error", {}, Old, 0)
              \/ /\ ~Cancelled(j)
                 /\ Move(j, next, job[j].code, job[j].todo, job[j].cur, job[j].tries)
           /\ UNCHANGED <<status, container, helper, killing, cleaner, current, undone, missed>>
BY GotoMoves, ThrowMoves DEF Command, history

LEMMA PassedMoves ==
    ASSUME TypeOK, NEW j \in Jobs, Passed(j)
    PROVE  /\ Move(j, "list", job[j].code, job[j].todo, job[j].cur, 0)
           /\ UNCHANGED <<status, container, helper, killing, cleaner, undone, missed>>
           /\ current' = IF Cancelled(j) THEN current ELSE j
BY EndCheckMoves DEF Passed, Labels

-----------------------------------------------------------------------------
(***************************************************************************)
(* The steps of a job, by what they mean to the containers.  Goes says     *)
(* where job j goes and that nobody else's record changes.                 *)
(***************************************************************************)
Out == {"failing", "discard", "final", "done", "lost"}
Early == {"queued", "start", "launch", "build", "up", "upping", "health", "inspect"}
Removing == {"remove", "stopping"}

Goes(j, pc, todo) ==
    /\ job' \in [Jobs -> JobState]
    /\ \A k \in Jobs \ {j} : job'[k] = job[k]
    /\ job'[j].pc = pc /\ job'[j].plan = job[j].plan /\ job'[j].todo = todo
    /\ pc = "inspect" => job'[j].tries < Retries

Verdict(j, v) == status[j] # "cancelled" /\ status' = [status EXCEPT ![j] = v]
SameVersions == container' = container /\ current' = current /\ undone' = undone

(* The job ends: a removal is over, or there was none.                     *)
Leaves(j) ==
    \E pc \in Out, todo \in {{}, job[j].todo} :
        /\ Goes(j, pc, todo) /\ job[j].pc # "none"
        /\ todo = {} \/ job[j].pc \notin Removing
        /\ status' = status \/ \E v \in Ended : Verdict(j, v)
        /\ current' = current /\ undone' = undone
        /\ \/ container' = container
           \/ job[j].pc = "upping" /\ container' = [container EXCEPT ![j] = "starting"]

(* On the way to a version of its own, or to its rejection.                *)
Advances(j) ==
    \E pc \in Early \cup {"list", "reject"} :
        /\ Goes(j, pc, job[j].todo) /\ status' = status /\ SameVersions
        /\ job[j].pc \in Early
        /\ pc = "list" => job[j].plan = "ports"
        /\ pc \in {"health", "inspect", "reject"} =>
                \/ job[j].pc = "inspect"
                \/ job[j].pc = "health" /\ job[j].plan = "checked"
        /\ job[j].pc \in {"health", "inspect"} => pc \in {"health", "inspect", "reject"}

Starts(j) ==
    /\ job[j].pc = "upping" /\ status' = status
    /\ Goes(j, IF job[j].plan = "ports" THEN "complete" ELSE "health", job[j].todo)
    /\ container' = [container EXCEPT ![j] = "starting"]
    /\ current' = current /\ undone' = undone

Passes(j) ==
    /\ job[j].pc \in {"health", "inspect"} /\ status' = status
    /\ Goes(j, "list", job[j].todo)
    /\ job[j].pc = "health" => job[j].plan # "checked"
    /\ job[j].pc = "inspect" => container[j] = "healthy"
    /\ container' = container /\ undone' = undone
    /\ current' = IF Cancelled(j) THEN current ELSE j

Lists(j) ==
    \E todo \in {job[j].todo, {c \in Containers : Up(c)} \ {j}} :
        job[j].pc = "list" /\ status' = status /\ SameVersions /\ Goes(j, "remove", todo)

Skips(j) ==
    \E c \in job[j].todo :
        /\ job[j].pc = "remove" /\ status' = status /\ SameVersions
        /\ Goes(j, "remove", job[j].todo \ {c})

Stops(j) ==
    \E c \in job[j].todo :
        /\ job[j].pc = "remove" /\ status' = status /\ SameVersions /\ ~Cancelled(j)
        /\ Goes(j, "stopping", job[j].todo) /\ job'[j].cur = c

Removes(j) ==
    /\ job[j].pc = "stopping" /\ status' = status
    /\ Goes(j, "remove", job[j].todo \ {job[j].cur})
    /\ container' = [container EXCEPT ![job[j].cur] = "none"]
    /\ current' = current /\ undone' = undone

EndsRemoval(j) ==
    /\ job[j].pc = "remove" /\ job[j].todo = {} /\ status' = status /\ SameVersions
    /\ Goes(j, IF job[j].plan = "ports" THEN "up" ELSE "complete", {})

Rejects(j) ==
    /\ job[j].pc = "reject" /\ Verdict(j, "failed")
    /\ SameVersions /\ Goes(j, "remove", {j})

Discards(j) ==
    /\ job[j].pc = "discard" /\ status' = status
    /\ \E pc \in {"final", "done"} : Goes(j, pc, job[j].todo)
    /\ container' = [container EXCEPT ![j] = "none"] /\ current' = current
    /\ undone' = IF current = j THEN undone \cup {j} ELSE undone

Kind(j) ==
    \/ Leaves(j) \/ Advances(j) \/ Starts(j) \/ Passes(j) \/ Lists(j) \/ Skips(j)
    \/ Stops(j) \/ Removes(j) \/ EndsRemoval(j) \/ Rejects(j) \/ Discards(j)

LEMMA CommandKind ==
    ASSUME TypeOK, NEW j \in Jobs, NEW possible,
           NEW next \in Early \cup {"list", "reject"}, Command(j, possible, next),
           job[j].pc \in Early, next = "list" => job[j].plan = "ports",
           next \in {"health", "inspect", "reject"} =>
                job[j].plan = "checked" /\ job[j].pc = "health",
           next = "inspect" => job[j].tries < Retries,
           job[j].pc \in {"health", "inspect"} => next = "inspect"
    PROVE  Leaves(j) \/ Advances(j)
<1>1. next \in Labels
    BY DEF Early, Labels
<1>2. CASE Move(j, next, job[j].code, job[j].todo, job[j].cur, job[j].tries)
    <2>1. Advances(j)
        BY <1>1, <1>2, CommandMoves DEF Move, Advances, Goes, SameVersions
    <2> QED
        BY <2>1
<1>3. CASE \E code : Move(j, "failing", code, {}, Old, 0)
    <2>1. Leaves(j)
        BY <1>1, <1>3, CommandMoves DEF Move, Leaves, Goes, Out, Early
    <2> QED
        BY <2>1
<1> QED
    BY <1>1, <1>2, <1>3, CommandMoves

LEMMA JobStepKind ==
    ASSUME TypeOK, NEW j \in Jobs, JobStep(j)
    PROVE  Kind(j)
<1> USE DEF At, history
<1>0. /\ status \in [Jobs -> Statuses] /\ job[j] \in JobState
      /\ container \in [Containers -> Health] /\ j \in Containers
    BY DEF TypeOK, Containers
<1>1. CASE Begin(j)
    <2>1. CASE Goto(j, "done")
        <3>1. Leaves(j)
            BY <1>0, <1>1, <2>1, GotoMoves DEF Begin, Move, Leaves, Goes, Out,
                Labels, Removing
        <3> QED
            BY <3>1 DEF Kind
    <2>2. CASE Goto(j, "start")
        <3>1. Advances(j)
            BY <1>1, <2>2, GotoMoves DEF Begin, Move, Advances, Goes, SameVersions,
                Early, Labels
        <3> QED
            BY <3>1 DEF Kind
    <2>3. CASE Throw(j, "worker")
        <3>1. Leaves(j)
            BY <1>1, <2>3, ThrowMoves DEF Begin, Move, Leaves, Goes, Out
        <3> QED
            BY <3>1 DEF Kind
    <2> QED
        BY <1>1, <2>1, <2>2, <2>3 DEF Begin
<1>2. CASE Start(j)
    BY <1>2, CommandKind DEF Start, Kind, Early
<1>3. CASE Launch(j)
    <2>1. CASE Goto(j, "build")
        <3>1. Advances(j)
            BY <1>3, <2>1, GotoMoves DEF Launch, Move, Advances, Goes, SameVersions,
                Early, Labels
        <3> QED
            BY <3>1 DEF Kind
    <2>2. CASE \E code \in {"cancel", "error"} : Throw(j, code)
        <3>1. Leaves(j)
            BY <1>3, <2>2, ThrowMoves DEF Launch, Move, Leaves, Goes, Out
        <3> QED
            BY <3>1 DEF Kind
    <2> QED
        BY <1>3, <2>1, <2>2 DEF Launch
<1>19. CASE Renew(j)
    <2>1. Advances(j)
        BY <1>19, GotoMoves DEF Renew, Move, Advances, Goes, SameVersions, Early, Labels
    <2> QED
        BY <2>1 DEF Kind
<1>4. CASE Build(j)
    BY <1>4, CommandKind DEF Build, Kind, Early
<1>5. CASE Compose(j)
    BY <1>5, CommandKind DEF Compose, Kind, Early
<1>6. CASE ComposeEnd(j)
    <2>1. CASE Goto(j, IF job[j].plan = "ports" THEN "complete" ELSE "health")
        <3>1. (IF job[j].plan = "ports" THEN "complete" ELSE "health") \in Labels
            BY DEF Labels
        <3>2. Move(j, IF job[j].plan = "ports" THEN "complete" ELSE "health", job[j].code,
                   job[j].todo, job[j].cur, job[j].tries)
            BY <2>1, <3>1, GotoMoves
        <3>3. container' = [container EXCEPT ![j] = "starting"]
            BY <1>6, <2>1, <3>2, ThrowMoves DEF ComposeEnd, Move
        <3>4. Starts(j)
            BY <1>6, <3>2, <3>3 DEF ComposeEnd, Move, Starts, Goes
        <3> QED
            BY <3>4 DEF Kind
    <2>2. CASE /\ \E code \in {"cancel", "error"} : Throw(j, code)
               /\ container' \in {container, [container EXCEPT ![j] = "starting"]}
        <3>1. Leaves(j)
            BY <1>6, <2>2, ThrowMoves DEF ComposeEnd, Move, Leaves, Goes, Out
        <3> QED
            BY <3>1 DEF Kind
    <2> QED
        BY <1>6, <2>1, <2>2 DEF ComposeEnd
<1>7. CASE HealthCheck(j)
    <2>1. CASE job[j].plan # "checked" /\ Passed(j)
        <3>1. Passes(j)
            BY <1>7, <2>1, PassedMoves DEF HealthCheck, Move, Passes, Goes
        <3> QED
            BY <3>1 DEF Kind
    <2>2. CASE /\ job[j].plan = "checked" /\ job[j].tries < Retries
               /\ Command(j, TRUE, "inspect")
        BY <1>7, <2>2, CommandKind DEF HealthCheck, Kind, Early
    <2>3. CASE /\ job[j].plan = "checked" /\ EndCheck(j, "reject")
               /\ UNCHANGED <<status, container, helper, killing, cleaner, history>>
        <3>1. Advances(j)
            BY <1>7, <2>3, EndCheckMoves DEF HealthCheck, Move, Advances, Goes,
                SameVersions, Early, Labels
        <3> QED
            BY <3>1 DEF Kind
    <2> QED
        BY <1>7, <2>1, <2>2, <2>3 DEF HealthCheck
<1>8. CASE Inspect(j)
    <2>1. CASE container[j] = "healthy" /\ Passed(j)
        <3>1. Passes(j)
            BY <1>8, <2>1, PassedMoves DEF Inspect, Move, Passes, Goes
        <3> QED
            BY <3>1 DEF Kind
    <2>2. CASE /\ EndCheck(j, "reject")
               /\ UNCHANGED <<status, container, helper, killing, cleaner, history>>
        <3>1. Advances(j)
            BY <1>8, <2>2, EndCheckMoves DEF Inspect, Move, Advances, Goes,
                SameVersions, Early, Labels
        <3> QED
            BY <3>1 DEF Kind
    <2>3. CASE /\ job' = [job EXCEPT ![j].pc = "health", ![j].tries = @ + 1]
               /\ UNCHANGED <<status, container, helper, killing, cleaner, history>>
        <3>1. Advances(j)
            BY <1>8, <2>3, AttemptMoves DEF Inspect, Move, Advances, Goes,
                SameVersions, Early, Labels
        <3> QED
            BY <3>1 DEF Kind
    <2>4. CASE /\ \E code \in {"cancel", "error"} : Throw(j, code)
               /\ UNCHANGED <<status, container, helper, killing, cleaner, history>>
        <3>1. Leaves(j)
            BY <1>8, <2>4, ThrowMoves DEF Inspect, Move, Leaves, Goes, Out
        <3> QED
            BY <3>1 DEF Kind
    <2> QED
        BY <1>8, <2>1, <2>2, <2>3, <2>4 DEF Inspect
<1>9. CASE List(j)
    <2>1. CASE Doom(j, {c \in Containers : Up(c)} \ {j})
        <3>1. Lists(j)
            BY <1>9, <2>1, DoomMoves DEF List, Move, Lists, Goes, SameVersions
        <3> QED
            BY <3>1 DEF Kind
    <2>2. CASE Goto(j, "remove")
        <3>1. Lists(j)
            BY <1>9, <2>2, GotoMoves DEF List, Move, Lists, Goes, SameVersions,
                Labels
        <3> QED
            BY <3>1 DEF Kind
    <2> QED
        BY <1>9, <2>1, <2>2 DEF List
<1>10. CASE Remove(j)
    <2>1. PICK c \in job[j].todo :
              /\ job[j].pc = "remove"
              /\ \/ ~Cancelled(j) /\ job' = [job EXCEPT ![j].pc = "stopping", ![j].cur = c]
                 \/ job' = [job EXCEPT ![j].todo = @ \ {c}]
              /\ UNCHANGED <<status, container, current, undone>>
        BY <1>10 DEF Remove
    <2>2. CASE ~Cancelled(j) /\ job' = [job EXCEPT ![j].pc = "stopping", ![j].cur = c]
        <3>1. Move(j, "stopping", job[j].code, job[j].todo, c, job[j].tries)
            BY <2>2, LoopMoves
        <3>2. Stops(j)
            BY <2>1, <2>2, <3>1 DEF Move, Stops, Goes, SameVersions
        <3> QED
            BY <3>2 DEF Kind
    <2>3. CASE job' = [job EXCEPT ![j].todo = @ \ {c}]
        <3>1. Move(j, job[j].pc, job[j].code, job[j].todo \ {c}, job[j].cur, job[j].tries)
            BY <2>3, LoopMoves
        <3>2. Skips(j)
            BY <2>1, <3>1 DEF Move, Skips, Goes, SameVersions
        <3> QED
            BY <3>2 DEF Kind
    <2> QED
        BY <2>1, <2>2, <2>3
<1>11. CASE Removed(j)
    <2>1. Removes(j)
        BY <1>11, LoopMoves DEF Removed, Move, Removes, Goes
    <2> QED
        BY <2>1 DEF Kind
<1>12. CASE RemoveEnd(j)
    <2>1. (IF job[j].plan = "ports" THEN "up" ELSE "complete") \in Labels
        BY DEF Labels
    <2>2. EndsRemoval(j)
        BY <1>12, <2>1, GotoMoves DEF RemoveEnd, Move, EndsRemoval, Goes,
            SameVersions
    <2> QED
        BY <2>2 DEF Kind
<1>13. CASE Reject(j)
    <2>1. CASE Cancelled(j) /\ Throw(j, "cancel") /\ UNCHANGED status
        <3>1. Leaves(j)
            BY <1>13, <2>1, ThrowMoves DEF Reject, Move, Leaves, Goes, Out
        <3> QED
            BY <3>1 DEF Kind
    <2>2. CASE /\ ~Cancelled(j) /\ status' = [status EXCEPT ![j] = "failed"]
               /\ Doom(j, {j})
        <3>1. {j} \in SUBSET Containers
            BY <1>0
        <3>2. Move(j, "remove", job[j].code, {j}, job[j].cur, job[j].tries)
            BY <2>2, <3>1, DoomMoves
        <3>3. Rejects(j)
            BY <1>13, <2>2, <3>2 DEF Reject, Move, Rejects, Goes, SameVersions, Verdict,
                Cancelled
        <3> QED
            BY <3>3 DEF Kind
    <2>3. CASE /\ ~Cancelled(j) /\ status' = [status EXCEPT ![j] = "failed"]
               /\ Throw(j, "error")
        <3>1. Verdict(j, "failed")
            BY <2>3 DEF Cancelled, Verdict
        <3>2. Move(j, "failing", "error", {}, Old, 0)
            BY <2>3, ThrowMoves
        <3>3. Leaves(j)
            BY <1>13, <2>3, <3>1, <3>2 DEF Reject, Move, Leaves, Goes, Out,
                Ended
        <3> QED
            BY <3>3 DEF Kind
    <2> QED
        BY <1>13, <2>1, <2>2, <2>3 DEF Reject
<1>14. CASE Complete(j)
    <2>1. CASE UNCHANGED status
        <3>1. \/ Throw(j, "cancel")
              \/ Throw(j, "error")
              \/ Goto(j, "final")
            BY <1>14 DEF Complete
        <3>2. Leaves(j)
            BY <1>14, <2>1, <3>1, ThrowMoves, GotoMoves DEF Complete, Move, Leaves, Goes,
                Out, Labels, Removing
        <3> QED
            BY <3>2 DEF Kind
    <2>2. CASE /\ status[j] = "in_progress" /\ status' = [status EXCEPT ![j] = "finished"]
               /\ Goto(j, "final") \/ Throw(j, "error")
        <3>1. Verdict(j, "finished") /\ "finished" \in Ended
            BY <2>2 DEF Verdict, Ended
        <3>2. CASE Goto(j, "final")
            <4>1. Leaves(j)
                BY <1>14, <3>1, <3>2, GotoMoves DEF Complete, Move, Leaves, Goes, Out,
                    Labels, Removing
            <4> QED
                BY <4>1 DEF Kind
        <3>3. CASE Throw(j, "error")
            <4>1. Leaves(j)
                BY <1>14, <3>1, <3>3, ThrowMoves DEF Complete, Move, Leaves, Goes, Out
            <4> QED
                BY <4>1 DEF Kind
        <3> QED
            BY <2>2, <3>2, <3>3
    <2> QED
        BY <1>14, <2>1, <2>2 DEF Complete
<1>15. CASE Failed(j)
    <2>1. /\ \/ status' = status
             \/ /\ status[j] = "in_progress"
                /\ status' = [status EXCEPT ![j] = "failed"]
          /\ \E pc \in {"discard", "final", "done"} : Goto(j, pc)
        BY <1>15 DEF Failed, After
    <2>2. status' = status \/ \E v \in Ended : Verdict(j, v)
        BY <2>1 DEF Verdict, Ended
    <2>3. Leaves(j)
        BY <1>15, <2>1, <2>2, GotoMoves DEF Failed, Move, Leaves, Goes, Out, Labels,
            Removing
    <2> QED
        BY <2>3 DEF Kind
<1>16. CASE Discard(j)
    <2>1. PICK pc \in {"final", "done"} : Goto(j, pc)
        BY <1>16 DEF Discard, After
    <2>2. Move(j, pc, job[j].code, job[j].todo, job[j].cur, job[j].tries)
        BY <2>1, GotoMoves DEF Labels
    <2>3. CASE UNCHANGED <<container, undone>>
        <3>1. Leaves(j)
            BY <1>16, <2>2, <2>3 DEF Discard, Move, Leaves, Goes, Out, Removing
        <3> QED
            BY <3>1 DEF Kind
    <2>4. CASE /\ container' = [container EXCEPT ![j] = "none"]
               /\ undone' = IF current = j THEN undone \cup {j} ELSE undone
        <3>1. Discards(j)
            BY <1>16, <2>2, <2>4 DEF Discard, Move, Discards, Goes, Out
        <3> QED
            BY <3>1 DEF Kind
    <2> QED
        BY <1>16, <2>3, <2>4 DEF Discard
<1>17. CASE Finally(j)
    <2>1. Leaves(j)
        BY <1>17, GotoMoves DEF Finally, Move, Leaves, Goes, Out, Labels, Removing
    <2> QED
        BY <2>1 DEF Kind
<1>18. CASE Redeliver(j)
    <2>1. Leaves(j)
        BY <1>18, ThrowMoves DEF Redeliver, Move, Leaves, Goes, Out
    <2> QED
        BY <2>1 DEF Kind
<1> QED
    BY <1>1, <1>2, <1>3, <1>4, <1>5, <1>6, <1>7, <1>8, <1>9, <1>10, <1>11, <1>12, <1>13,
        <1>14, <1>15, <1>16, <1>17, <1>18, <1>19 DEF JobStep

-----------------------------------------------------------------------------
(* The type invariant *)

(* What the steps of a job do to the helpers and to the removals missed.   *)
LEMMA JobStepRest ==
    ASSUME TypeOK, NEW j \in Jobs, JobStep(j)
    PROVE  /\ UNCHANGED <<killing, cleaner>>
           /\ helper' \in [Jobs -> BOOLEAN]
           /\ \A k \in Jobs \ {j} : helper'[k] = helper[k]
           /\ missed \subseteq missed' /\ missed' \subseteq Containers
<1> USE DEF history
<1>0. /\ helper \in [Jobs -> BOOLEAN] /\ missed \subseteq Containers /\ j \in Containers
      /\ job[j].todo \subseteq Containers
    BY DEF TypeOK, Containers, JobState
<1>1. CASE Begin(j) \/ Redeliver(j) \/ RemoveEnd(j) \/ Removed(j)
    BY <1>0, <1>1 DEF Begin, Redeliver, RemoveEnd, Removed
<1>2. CASE Start(j) \/ Build(j) \/ Compose(j)
    BY <1>0, <1>2 DEF Start, Build, Compose, Command
<1>3. CASE Launch(j) \/ Renew(j)
    BY <1>0, <1>3 DEF Launch, Renew
<1>4. CASE ComposeEnd(j)
    BY <1>0, <1>4 DEF ComposeEnd
<1>5. CASE HealthCheck(j) \/ Inspect(j)
    BY <1>0, <1>5 DEF HealthCheck, Inspect, Command, Passed
<1>6. CASE List(j)
    BY <1>0, <1>6 DEF List
<1>7. CASE Remove(j)
    BY <1>0, <1>7 DEF Remove
<1>8. CASE Reject(j) \/ Complete(j)
    BY <1>0, <1>8 DEF Reject, Complete
<1>9. CASE Failed(j) \/ Discard(j)
    BY <1>0, <1>9 DEF Failed, Discard
<1>10. CASE Finally(j)
    BY <1>0, <1>10 DEF Finally
<1> QED
    BY <1>1, <1>2, <1>3, <1>4, <1>5, <1>6, <1>7, <1>8, <1>9, <1>10 DEF JobStep

LEMMA JobStepTyped ==
    ASSUME TypeOK, NEW j \in Jobs, JobStep(j)
    PROVE  TypeOK'
<1>0. /\ status \in [Jobs -> Statuses] /\ container \in [Containers -> Health]
      /\ job \in [Jobs -> JobState] /\ job[j].cur \in Containers /\ j \in Containers
      /\ Ended \subseteq Statuses /\ {"starting", "none"} \subseteq Health
    BY DEF TypeOK, JobState, Containers, Ended, Statuses, Health
<1>1. /\ job' \in [Jobs -> JobState]
      /\ \A k \in Jobs \ {j} : job'[k] = job[k]
      /\ job'[j].pc = "inspect" => job'[j].tries < Retries
    BY JobStepKind DEF Kind, Leaves, Advances, Starts, Passes, Lists, Skips, Stops, Removes,
        EndsRemoval, Rejects, Discards, Goes
<1>2. status' \in [Jobs -> Statuses]
    <2>1. status' = status \/ \E v \in Ended \cup {"failed"} : Verdict(j, v)
        BY JobStepKind DEF Kind, Leaves, Advances, Starts, Passes, Lists, Skips, Stops, Removes,
            EndsRemoval, Rejects, Discards
    <2> QED
        BY <1>0, <2>1 DEF Verdict, Statuses
<1>3. container' \in [Containers -> Health]
    <2>1. \/ container' = container
          \/ container' = [container EXCEPT ![j] = "starting"]
          \/ container' = [container EXCEPT ![j] = "none"]
          \/ container' = [container EXCEPT ![job[j].cur] = "none"]
        BY JobStepKind DEF Kind, Leaves, Advances, Starts, Passes, Lists, Skips, Stops, Removes,
            EndsRemoval, Rejects, Discards, SameVersions
    <2> QED
        BY <1>0, <2>1
<1>4. current' \in Containers /\ undone' \subseteq Jobs
    <2>1. current' \in {current, j} /\ undone' \in {undone, undone \cup {j}}
        BY JobStepKind DEF Kind, Leaves, Advances, Starts, Passes, Lists, Skips, Stops, Removes,
            EndsRemoval, Rejects, Discards, SameVersions
    <2> QED
        BY <1>0, <2>1 DEF TypeOK
<1>5. \A k \in Jobs : job'[k].pc = "inspect" => job'[k].tries < Retries
    BY <1>1 DEF TypeOK
<1> QED
    BY <1>1, <1>2, <1>3, <1>4, <1>5, JobStepRest DEF TypeOK

LEMMA CrashMoves ==
    ASSUME TypeOK, NEW j \in Jobs, Crash(j)
    PROVE  /\ \E pc \in {"lost", "done"} :
                /\ Goes(j, pc, {})
                /\ pc = "done" => j \in missed'
           /\ job[j].pc # "none"
           /\ missed' \in {missed, missed \cup {j}}
           /\ UNCHANGED <<status, container, helper, killing, cleaner, current, undone>>
<1>1. CASE Leave(j, "lost", "none")
    <2>1. Move(j, "lost", "none", {}, Old, 0)
        BY <1>1, LeaveMoves DEF Labels
    <2>2. Goes(j, "lost", {})
        BY <2>1 DEF Move, Goes
    <2>3. /\ job[j].pc # "none" /\ missed' \in {missed, missed \cup {j}}
          /\ UNCHANGED <<status, container, helper, killing, cleaner, current, undone>>
        BY DEF Crash, Running
    <2> QED
        BY <2>2, <2>3
<1>2. CASE Leave(j, "done", job[j].code)
    <2>1. job[j].code \in {"none", "cancel", "error", "worker"}
        BY DEF TypeOK, JobState
    <2>2. Move(j, "done", job[j].code, {}, Old, 0)
        BY <1>2, <2>1, LeaveMoves DEF Labels
    <2>3. Goes(j, "done", {}) /\ job'[j].pc = "done"
        BY <2>2 DEF Move, Goes
    <2>4. Leave(j, "lost", "none") => job'[j].pc = "lost"
        BY LeaveMoves DEF Move, Labels
    <2>5. missed' = missed \cup {j}
        BY <2>3, <2>4 DEF Crash
    <2>6. job[j].pc # "none"
        BY DEF Crash, Running
    <2>7. UNCHANGED <<status, container, helper, killing, cleaner, current, undone>>
        BY DEF Crash
    <2> QED
        BY <2>3, <2>5, <2>6, <2>7
<1> QED
    BY <1>1, <1>2 DEF Crash

LEMMA RequestMoves ==
    ASSUME TypeOK, NEW j \in Jobs, Request(j)
    PROVE  /\ Goes(j, "queued", job[j].todo) /\ job[j].pc = "none"
           /\ status' = [status EXCEPT ![j] = "in_progress"]
           /\ Serial => \A k \in Jobs : status[k] # "in_progress"
           /\ UNCHANGED <<container, helper, killing, cleaner, current, undone, missed>>
BY GotoMoves DEF Request, Move, Goes, Labels, At, Serial, history

(* Every value stays in its range, whatever the faults.  About: every      *)
(* step, and the counter of the health check in particular.                *)
THEOREM RollingTypeOK == Spec => []TypeOK
<1>1. Init => TypeOK
    <2>1. SUFFICES ASSUME Init PROVE TypeOK
        OBVIOUS
    <2>2. Old \in Containers /\ 0 \in 0 .. Retries /\ Plans \subseteq PlanKinds
        BY RollingAssumption DEF Containers
    <2>3. job \in [Jobs -> JobState] /\ \A j \in Jobs : job[j].pc = "none"
        BY <2>1, <2>2 DEF Init, JobState, Labels
    <2>4. container \in [Containers -> Health]
        BY <2>1 DEF Init, Health
    <2> QED
        BY <2>1, <2>2, <2>3, <2>4 DEF Init, TypeOK, Statuses
<1>2. TypeOK /\ [Next]_vars => TypeOK'
    <2>1. SUFFICES ASSUME TypeOK, [Next]_vars PROVE TypeOK'
        OBVIOUS
    <2>2. CASE \E j \in Jobs : JobStep(j)
        BY <2>1, <2>2, JobStepTyped
    <2>3. ASSUME NEW j \in Jobs, Request(j) PROVE TypeOK'
        <3>1. status' \in [Jobs -> Statuses]
            BY <2>1, <2>3, RequestMoves DEF TypeOK, Statuses
        <3>2. \A k \in Jobs : job'[k].pc = "inspect" => job'[k].tries < Retries
            BY <2>1, <2>3, RequestMoves DEF TypeOK, Goes
        <3> QED
            BY <2>1, <2>3, <3>1, <3>2, RequestMoves DEF TypeOK, Goes
    <2>4. ASSUME NEW j \in Jobs, Crash(j) PROVE TypeOK'
        <3>1. missed' \subseteq Containers
            BY <2>1, <2>4, CrashMoves DEF TypeOK, Containers
        <3>2. \A k \in Jobs : job'[k].pc = "inspect" => job'[k].tries < Retries
            BY <2>1, <2>4, CrashMoves DEF TypeOK, Goes
        <3> QED
            BY <2>1, <2>4, <3>1, <3>2, CrashMoves DEF TypeOK, Goes
    <2>5. ASSUME NEW j \in Jobs, Cancel(j) \/ KillHelper(j) PROVE TypeOK'
        <3>1. status' \in [Jobs -> Statuses] /\ helper' \in [Jobs -> BOOLEAN]
            BY <2>1, <2>5 DEF TypeOK, Cancel, KillHelper, Statuses
        <3>2. killing' \subseteq Jobs /\ UNCHANGED <<job, container, cleaner, history>>
            BY <2>1, <2>5 DEF TypeOK, Cancel, KillHelper
        <3> QED
            BY <2>1, <3>1, <3>2 DEF TypeOK, history
    <2>6. ASSUME NEW c \in Containers, Examined(c) PROVE TypeOK'
        <3>1. container' \in [Containers -> Health]
            BY <2>1, <2>6 DEF TypeOK, Examined, Health
        <3> QED
            BY <2>1, <2>6, <3>1 DEF TypeOK, Examined, history
    <2>7. CASE CleanerRead
        <3>1. cleaner' \in [on : BOOLEAN, active : SUBSET Jobs]
            BY <2>7 DEF CleanerRead
        <3> QED
            BY <2>1, <2>7, <3>1 DEF TypeOK, CleanerRead, history
    <2>8. CASE CleanerSweep
        BY <2>1, <2>8 DEF TypeOK, CleanerSweep, history
    <2>9. CASE UNCHANGED vars
        BY <2>1, <2>9 DEF TypeOK, vars
    <2> QED
        BY <2>1, <2>2, <2>3, <2>4, <2>5, <2>6, <2>7, <2>8, <2>9 DEF Next
<1> QED
    BY <1>1, <1>2, PTL DEF Spec

-----------------------------------------------------------------------------
(***************************************************************************)
(* The invariant.  Its parts are about one job, but for OneActive, which   *)
(* the queue promises, and CurrentServes, which Served follows from.       *)
(***************************************************************************)
Replacing == {"list", "remove", "stopping", "complete"}
Open == {"in_progress", "cancelled"}

(* A container no deployment in progress answers for.                      *)
Settled(c) == c = Old \/ status[c] \in Ended \cup {"cancelled"}

NoPorts == \A j \in Jobs : job[j].plan = "ports" => At(j, "none")

OneActive ==
    \A j, k \in Jobs : status[j] = "in_progress" /\ status[k] = "in_progress" => j = k

(* Where a job is tells what its row may hold and what it may remove.      *)
Phase(j) ==
    /\ At(j, "none") <=> status[j] = "none"
    /\ At(j, "none") => container[j] = "none"
    /\ job[j].pc \in Early \cup {"list", "reject"} => status[j] \in Open
    /\ job[j].pc \notin Removing => job[j].todo = {}
    /\ job[j].pc \in Removing /\ status[j] \notin Open
            => job[j].todo \subseteq {j} /\ job[j].plan # "ports"
    /\ job[j].pc \in {"health", "inspect", "reject"} => job[j].plan # "ports"
    /\ job[j].pc = "inspect" => job[j].plan = "checked"

(* What a job removes, nobody in progress needs; a job that was cancelled  *)
(* while it listed the containers removes none of them.                    *)
Victims(j) ==
    /\ \A c \in job[j].todo : Cancelled(j) \/ Settled(c)
    /\ job[j].pc = "stopping" =>
            Settled(job[j].cur) /\ (NoPorts => job[j].cur # current)

(* The own version of a job in progress has passed its check.              *)
Ready(j) ==
    status[j] = "in_progress" =>
        /\ job[j].plan = "unchecked" => (job[j].pc \in Replacing \cup {"health"} => Up(j))
        /\ job[j].plan = "checked" => (job[j].pc \in Replacing => container[j] = "healthy")
        /\ job[j].plan = "ports" => (At(j, "complete") => Up(j))

(* A rolling update that removes versions, or finishes, has made its own   *)
(* the current one before, and does not remove it.                         *)
Ahead(j) ==
    status[j] = "in_progress" /\ job[j].plan # "ports" =>
        (job[j].pc \in Replacing => current = j /\ j \notin job[j].todo)

(* A version is not the current one before it has passed.                  *)
Unripe(j) ==
    /\ job[j].pc \in Early \cup {"none", "reject"} => current # j
    /\ j \in job[j].todo => current # j
    /\ job[j].plan = "ports" => current # j

CurrentServes == NoPorts /\ current \notin undone => Serving(current)

JobInv(j) == Phase(j) /\ Victims(j) /\ Ready(j) /\ Ahead(j) /\ Unripe(j)

IInv == OneActive /\ (\A j \in Jobs : JobInv(j)) /\ CurrentServes

(* What a step of job j does to everybody else.                            *)
Framed(j) ==
    /\ \A k \in Jobs \ {j} :
        /\ job'[k] = job[k] /\ status'[k] = status[k]
        /\ container'[k] = container[k] \/ (container'[k] = "none" /\ Settled(k))
    /\ \A c \in Containers : Settled(c) => Settled(c)'
    /\ current' = current \/ (current' = j /\ status[j] = "in_progress")
    /\ NoPorts' => NoPorts

LEMMA OthersKept ==
    ASSUME TypeOK, OneActive, NEW j \in Jobs, NEW k \in Jobs \ {j}, JobInv(k), Framed(j)
    PROVE  JobInv(k)'
<1>1. /\ job'[k] = job[k] /\ status'[k] = status[k]
      /\ container'[k] = container[k] \/ (container'[k] = "none" /\ Settled(k))
    BY DEF Framed
<1>2. job[k].todo \subseteq Containers /\ job[k].cur \in Containers
    BY DEF TypeOK, JobState
<1>3. Settled(k) => status[k] # "in_progress"
    BY RollingAssumption DEF Settled, Ended
<1>4. current' = current \/ (current' = j /\ status[j] = "in_progress")
    BY DEF Framed
<1>5. Phase(k)'
    BY <1>1 DEF JobInv, Phase, At
<1>6. Victims(k)'
    <2>1. ASSUME NEW c \in job[k].todo
          PROVE  Cancelled(k)' \/ Settled(c)'
        BY <1>1, <1>2, <2>1 DEF JobInv, Victims, Framed, Cancelled
    <2>2. ASSUME job[k].pc = "stopping"
          PROVE  Settled(job[k].cur)' /\ (NoPorts' => job[k].cur # current')
        <3>1. Settled(job[k].cur) /\ (NoPorts => job[k].cur # current)
            BY <2>2 DEF JobInv, Victims
        <3>2. Settled(job[k].cur)'
            BY <1>1, <1>2, <3>1 DEF Framed, Settled
        <3>3. job[k].cur = j => status[j] # "in_progress"
            BY <3>1, RollingAssumption DEF Settled, Ended
        <3> QED
            BY <1>4, <3>1, <3>2, <3>3 DEF Framed
    <2> QED
        BY <1>1, <2>1, <2>2 DEF Victims, Settled
<1>7. Ready(k)'
    BY <1>1, <1>3 DEF JobInv, Ready, At, Up
<1>8. Ahead(k)'
    BY <1>1, <1>4 DEF JobInv, Ahead, OneActive
<1>9. Unripe(k)'
    BY <1>1, <1>4 DEF JobInv, Unripe
<1> QED
    BY <1>5, <1>6, <1>7, <1>8, <1>9 DEF JobInv

(* The parts of Framed that the steps of a job have in common.             *)
LEMMA StepFramed ==
    ASSUME TypeOK, \A k \in Jobs : JobInv(k), NEW j \in Jobs,
           NEW pc, NEW todo, Goes(j, pc, todo), pc # "none",
           \/ status' = status
           \/ \E v \in Ended : Verdict(j, v),
           \A k \in Jobs \ {j} :
                container'[k] = container[k] \/ (container'[k] = "none" /\ Settled(k)),
           current' = current \/ (current' = j /\ status[j] = "in_progress")
    PROVE  Framed(j)
<1>1. \A k \in Jobs \ {j} : status'[k] = status[k]
    BY DEF TypeOK, Verdict
<1>2. status'[j] = status[j] \/ status'[j] \in Ended
    BY DEF TypeOK, Verdict
<1>3. \A c \in Containers : Settled(c) => Settled(c)'
    BY <1>1, <1>2 DEF Settled, Containers
<1>4. NoPorts' => NoPorts
    BY DEF NoPorts, Goes, At
<1> QED
    BY <1>1, <1>3, <1>4 DEF Framed, Goes

(* The current version serves on when a step does nothing to it.           *)
LEMMA ServesOn ==
    ASSUME TypeOK, CurrentServes, NEW j \in Jobs, NEW pc, NEW todo, Goes(j, pc, todo),
           pc # "none", current' = current, undone \subseteq undone',
           NoPorts /\ current \notin undone' => container'[current] = container[current]
    PROVE  CurrentServes'
<1>1. NoPorts' => NoPorts
    BY DEF NoPorts, Goes, At
<1>2. \A k \in Jobs : job'[k].plan = job[k].plan
    BY DEF Goes
<1> QED
    BY <1>1, <1>2 DEF CurrentServes, Serving, Up

Kept(j) == Framed(j) /\ JobInv(j)' /\ CurrentServes'

LEMMA LeavesKept ==
    ASSUME TypeOK, \A k \in Jobs : JobInv(k), CurrentServes, NEW j \in Jobs, Leaves(j)
    PROVE  Kept(j)
<1>1. PICK pc \in Out, todo \in {{}, job[j].todo} :
        /\ Goes(j, pc, todo) /\ job[j].pc # "none"
        /\ todo = {} \/ job[j].pc \notin Removing
        /\ status' = status \/ \E v \in Ended : Verdict(j, v)
        /\ current' = current /\ undone' = undone
        /\ \/ container' = container
           \/ job[j].pc = "upping" /\ container' = [container EXCEPT ![j] = "starting"]
    BY DEF Leaves
<1>2. pc # "none"
    BY DEF Out
<1>3. \A c \in Containers \ {j} : container'[c] = container[c]
    BY <1>1 DEF TypeOK
<1>4. Framed(j)
    BY <1>1, <1>2, <1>3, StepFramed DEF Containers
<1>5. JobInv(j)'
    <2>1. todo = {}
        BY <1>1 DEF JobInv, Phase
    <2>2. status[j] # "none" /\ status'[j] # "none"
        BY <1>1 DEF JobInv, Phase, At, TypeOK, Verdict, Ended
    <2>3. Phase(j)'
        BY <1>1, <2>1, <2>2 DEF Phase, Goes, At, Out, Early, Removing
    <2>4. Victims(j)' /\ Ready(j)' /\ Ahead(j)'
        BY <1>1, <2>1 DEF Victims, Ready, Ahead, Goes, At, Out, Replacing
    <2>5. Unripe(j)'
        BY <1>1, <2>1 DEF JobInv, Unripe, Goes, Out, Early
    <2> QED
        BY <2>3, <2>4, <2>5 DEF JobInv
<1>6. CurrentServes'
    <2>1. job[j].pc = "upping" => current # j
        BY DEF JobInv, Unripe, Early
    <2>2. container'[current] = container[current]
        BY <1>1, <1>3, <2>1 DEF TypeOK
    <2> QED
        BY <1>1, <1>2, <2>2, ServesOn
<1> QED
    BY <1>4, <1>5, <1>6 DEF Kept

LEMMA AdvancesKept ==
    ASSUME TypeOK, \A k \in Jobs : JobInv(k), CurrentServes, NEW j \in Jobs, Advances(j)
    PROVE  Kept(j)
<1>1. PICK pc \in Early \cup {"list", "reject"} :
        /\ Goes(j, pc, job[j].todo) /\ status' = status /\ SameVersions
        /\ job[j].pc \in Early
        /\ pc = "list" => job[j].plan = "ports"
        /\ pc \in {"health", "inspect", "reject"} =>
                \/ job[j].pc = "inspect"
                \/ job[j].pc = "health" /\ job[j].plan = "checked"
    BY DEF Advances
<1>2. pc # "none"
    BY DEF Early
<1>3. Framed(j)
    BY <1>1, <1>2, StepFramed DEF SameVersions
<1>4. JobInv(j)'
    <2>1. job[j].todo = {} /\ status[j] \in Open
        BY <1>1 DEF JobInv, Phase, Early, Removing
    <2>2. pc \in {"health", "inspect", "reject"} => job[j].plan = "checked"
        BY <1>1 DEF JobInv, Phase
    <2>3. Phase(j)'
        BY <1>1, <2>1, <2>2 DEF Phase, Goes, At, Early, Removing, Open
    <2>4. Victims(j)' /\ Ready(j)' /\ Ahead(j)'
        BY <1>1, <2>1, <2>2 DEF Victims, Ready, Ahead, Goes, At, Early, Replacing
    <2>5. Unripe(j)'
        BY <1>1, <2>1 DEF JobInv, Unripe, Goes, Early, SameVersions
    <2> QED
        BY <2>3, <2>4, <2>5 DEF JobInv
<1>5. CurrentServes'
    BY <1>1, <1>2, ServesOn DEF SameVersions
<1> QED
    BY <1>3, <1>4, <1>5 DEF Kept

LEMMA StartsKept ==
    ASSUME TypeOK, \A k \in Jobs : JobInv(k), CurrentServes, NEW j \in Jobs, Starts(j)
    PROVE  Kept(j)
<1> DEFINE pc == IF job[j].plan = "ports" THEN "complete" ELSE "health"
<1>1. /\ job[j].pc = "upping" /\ status' = status /\ Goes(j, pc, job[j].todo)
      /\ current' = current /\ undone' = undone
    BY DEF Starts
<1>2. /\ container'[j] = "starting"
      /\ \A c \in Containers \ {j} : container'[c] = container[c]
    BY DEF Starts, TypeOK, Containers
<1>3. Framed(j)
    BY <1>1, <1>2, StepFramed DEF Containers
<1>4. JobInv(j)'
    <2>1. job[j].todo = {} /\ status[j] \in Open
        BY <1>1 DEF JobInv, Phase, Early, Removing
    <2>2. Phase(j)'
        BY <1>1, <2>1 DEF Phase, Goes, At, Early, Removing, Open
    <2>3. Victims(j)' /\ Ahead(j)'
        BY <1>1, <2>1 DEF Victims, Ahead, Goes, Replacing
    <2>4. Ready(j)'
        BY <1>1, <1>2 DEF Ready, Goes, At, Up, Replacing
    <2>5. Unripe(j)'
        BY <1>1, <2>1 DEF JobInv, Unripe, Goes, Early
    <2> QED
        BY <2>2, <2>3, <2>4, <2>5 DEF JobInv
<1>5. CurrentServes'
    <2>1. current # j
        BY <1>1 DEF JobInv, Unripe, Early
    <2>2. container'[current] = container[current]
        BY <1>2, <2>1 DEF TypeOK
    <2> QED
        BY <1>1, <2>2, ServesOn
<1> QED
    BY <1>3, <1>4, <1>5 DEF Kept

LEMMA PassesKept ==
    ASSUME TypeOK, \A k \in Jobs : JobInv(k), CurrentServes, NEW j \in Jobs, Passes(j)
    PROVE  Kept(j)
<1>1. /\ job[j].pc \in {"health", "inspect"} /\ status' = status
      /\ Goes(j, "list", job[j].todo)
      /\ job[j].pc = "health" => job[j].plan # "checked"
      /\ job[j].pc = "inspect" => container[j] = "healthy"
      /\ container' = container /\ undone' = undone
      /\ current' = IF Cancelled(j) THEN current ELSE j
    BY DEF Passes
<1>2. /\ job[j].todo = {} /\ status[j] \in Open /\ job[j].plan # "ports"
      /\ job[j].pc = "inspect" => job[j].plan = "checked"
    BY <1>1 DEF JobInv, Phase, Early, Removing
<1>3. Cancelled(j) \/ status[j] = "in_progress"
    BY <1>2 DEF Open, Cancelled
<1>4. Framed(j)
    BY <1>1, <1>3, StepFramed
<1>5. status[j] = "in_progress" =>
        IF job[j].plan = "checked" THEN container[j] = "healthy" ELSE Up(j)
    BY <1>1, <1>2 DEF JobInv, Ready, JobState, TypeOK, PlanKinds
<1>6. JobInv(j)'
    <2>1. Phase(j)'
        BY <1>1, <1>2 DEF Phase, Goes, At, Early, Removing, Open
    <2>2. Victims(j)' /\ Ready(j)'
        BY <1>1, <1>2, <1>5 DEF Victims, Ready, Goes, At, Replacing, Up
    <2>3. Ahead(j)'
        BY <1>1, <1>2 DEF Ahead, Goes, Cancelled
    <2>4. Unripe(j)'
        BY <1>1, <1>2 DEF Unripe, Goes, Early
    <2> QED
        BY <2>1, <2>2, <2>3, <2>4 DEF JobInv
<1>7. CurrentServes'
    <2>1. CASE Cancelled(j)
        BY <1>1, <2>1, ServesOn
    <2>2. CASE ~Cancelled(j)
        <3>1. job[j].plan \in PlanKinds
            BY DEF TypeOK, JobState
        <3>2. Serving(j)'
            BY <1>1, <1>2, <1>3, <1>5, <2>2, <3>1 DEF Serving, Up, Goes, PlanKinds
        <3> QED
            BY <1>1, <2>2, <3>2 DEF CurrentServes, Serving
    <2> QED
        BY <2>1, <2>2
<1> QED
    BY <1>4, <1>6, <1>7 DEF Kept

LEMMA ListsKept ==
    ASSUME TypeOK, OneActive, \A k \in Jobs : JobInv(k), CurrentServes, NEW j \in Jobs,
           Lists(j)
    PROVE  Kept(j)
<1>1. PICK todo \in {job[j].todo, {c \in Containers : Up(c)} \ {j}} :
        /\ job[j].pc = "list" /\ status' = status /\ SameVersions
        /\ Goes(j, "remove", todo)
    BY DEF Lists
<1>2. job[j].todo = {} /\ status[j] \in Open
    BY <1>1 DEF JobInv, Phase, Removing
<1>3. todo \subseteq {c \in Containers : Up(c)} \ {j}
    BY <1>1, <1>2
<1>4. Framed(j)
    BY <1>1, StepFramed DEF SameVersions
<1>5. JobInv(j)'
    <2>1. Phase(j)'
        BY <1>1, <1>2 DEF Phase, Goes, At, Early, Removing, Open
    <2>2. ASSUME NEW c \in todo, ~Cancelled(j)
          PROVE  Settled(c)
        <3>1. status[j] = "in_progress"
            BY <1>2, <2>2 DEF Open, Cancelled
        <3>2. CASE c \in Jobs
            <4>1. status[c] # "none"
                BY <1>3, <3>2 DEF JobInv, Phase, Up
            <4>2. status[c] # "in_progress"
                BY <1>3, <3>1, <3>2 DEF OneActive
            <4>3. status[c] \in Statuses
                BY <3>2 DEF TypeOK
            <4> QED
                BY <4>1, <4>2, <4>3 DEF Settled, Statuses, Ended
        <3> QED
            BY <1>3, <3>2 DEF Settled, Containers
    <2>3. Victims(j)'
        BY <1>1, <2>2 DEF Victims, Goes, Cancelled, Settled
    <2>4. Ready(j)'
        BY <1>1 DEF JobInv, Ready, Goes, At, Replacing, Up, SameVersions
    <2>5. Ahead(j)' /\ Unripe(j)'
        BY <1>1, <1>3 DEF JobInv, Ahead, Unripe, Goes, Early, Replacing, SameVersions
    <2> QED
        BY <2>1, <2>3, <2>4, <2>5 DEF JobInv
<1>6. CurrentServes'
    BY <1>1, ServesOn DEF SameVersions
<1> QED
    BY <1>4, <1>5, <1>6 DEF Kept

LEMMA SkipsKept ==
    ASSUME TypeOK, \A k \in Jobs : JobInv(k), CurrentServes, NEW j \in Jobs, Skips(j)
    PROVE  Kept(j)
<1>1. PICK c \in job[j].todo :
        /\ job[j].pc = "remove" /\ status' = status /\ SameVersions
        /\ Goes(j, "remove", job[j].todo \ {c})
    BY DEF Skips
<1>2. Framed(j)
    BY <1>1, StepFramed DEF SameVersions
<1>3. JobInv(j)'
    <2>1. Phase(j)'
        BY <1>1 DEF JobInv, Phase, Goes, At, Early, Removing
    <2>2. Victims(j)'
        BY <1>1 DEF JobInv, Victims, Goes, Cancelled, Settled
    <2>3. Ready(j)'
        BY <1>1 DEF JobInv, Ready, Goes, At, Replacing, Up, SameVersions
    <2>4. Ahead(j)' /\ Unripe(j)'
        BY <1>1 DEF JobInv, Ahead, Unripe, Goes, Early, Replacing, SameVersions
    <2> QED
        BY <2>1, <2>2, <2>3, <2>4 DEF JobInv
<1>4. CurrentServes'
    BY <1>1, ServesOn DEF SameVersions
<1> QED
    BY <1>2, <1>3, <1>4 DEF Kept

LEMMA StopsKept ==
    ASSUME TypeOK, \A k \in Jobs : JobInv(k), CurrentServes, NEW j \in Jobs, Stops(j)
    PROVE  Kept(j)
<1>1. PICK c \in job[j].todo :
        /\ job[j].pc = "remove" /\ status' = status /\ SameVersions /\ ~Cancelled(j)
        /\ Goes(j, "stopping", job[j].todo) /\ job'[j].cur = c
    BY DEF Stops
<1>2. Framed(j)
    BY <1>1, StepFramed DEF SameVersions
<1>3. JobInv(j)'
    <2>1. Phase(j)'
        BY <1>1 DEF JobInv, Phase, Goes, At, Early, Removing
    <2>2. Settled(c)
        BY <1>1 DEF JobInv, Victims
    <2>3. ASSUME NoPorts
          PROVE  c # current
        <3>1. job[j].plan # "ports"
            BY <1>1, <2>3 DEF NoPorts, At
        <3>2. CASE status[j] = "in_progress"
            BY <1>1, <3>1, <3>2 DEF JobInv, Ahead, Replacing
        <3>3. CASE status[j] # "in_progress"
            BY <1>1, <3>3 DEF JobInv, Phase, Unripe, Removing, Open, Cancelled
        <3> QED
            BY <3>2, <3>3
    <2>4. NoPorts' => NoPorts
        BY <1>2 DEF Framed
    <2>5. Victims(j)'
        BY <1>1, <2>2, <2>3, <2>4 DEF JobInv, Victims, Goes, Cancelled, Settled, SameVersions
    <2>6. Ready(j)'
        BY <1>1 DEF JobInv, Ready, Goes, At, Replacing, Up, SameVersions
    <2>7. Ahead(j)' /\ Unripe(j)'
        BY <1>1 DEF JobInv, Ahead, Unripe, Goes, Early, Replacing, SameVersions
    <2> QED
        BY <2>1, <2>5, <2>6, <2>7 DEF JobInv
<1>4. CurrentServes'
    BY <1>1, ServesOn DEF SameVersions
<1> QED
    BY <1>2, <1>3, <1>4 DEF Kept

LEMMA RemovesKept ==
    ASSUME TypeOK, \A k \in Jobs : JobInv(k), CurrentServes, NEW j \in Jobs, Removes(j)
    PROVE  Kept(j)
<1> DEFINE c == job[j].cur
<1>1. /\ job[j].pc = "stopping" /\ status' = status
      /\ Goes(j, "remove", job[j].todo \ {c})
      /\ current' = current /\ undone' = undone
    BY DEF Removes
<1>2. c \in Containers
    BY DEF TypeOK, JobState
<1>3. /\ container'[c] = "none"
      /\ \A d \in Containers \ {c} : container'[d] = container[d]
    BY <1>2 DEF Removes, TypeOK
<1>4. Settled(c) /\ (NoPorts => c # current)
    BY <1>1 DEF JobInv, Victims
<1>5. Framed(j)
    BY <1>1, <1>3, <1>4, StepFramed DEF Containers
<1>6. JobInv(j)'
    <2>1. container'[j] = container[j] \/ (container'[j] = "none" /\ c = j)
        BY <1>3 DEF Containers
    <2>2. Phase(j)'
        BY <1>1, <2>1 DEF JobInv, Phase, Goes, At, Early, Removing
    <2>3. Victims(j)'
        BY <1>1 DEF JobInv, Victims, Goes, Cancelled, Settled
    <2>4. status[j] = "in_progress" => container'[j] = container[j]
        BY <1>4, <2>1, RollingAssumption DEF Settled, Ended
    <2>5. Ready(j)'
        BY <1>1, <2>4 DEF JobInv, Ready, Goes, At, Replacing, Up
    <2>6. Ahead(j)' /\ Unripe(j)'
        BY <1>1 DEF JobInv, Ahead, Unripe, Goes, Early, Replacing
    <2> QED
        BY <2>2, <2>3, <2>5, <2>6 DEF JobInv
<1>7. CurrentServes'
    <2>1. NoPorts => container'[current] = container[current]
        BY <1>3, <1>4 DEF TypeOK
    <2> QED
        BY <1>1, <2>1, ServesOn
<1> QED
    BY <1>5, <1>6, <1>7 DEF Kept

LEMMA EndsRemovalKept ==
    ASSUME TypeOK, \A k \in Jobs : JobInv(k), CurrentServes, NEW j \in Jobs, EndsRemoval(j)
    PROVE  Kept(j)
<1> DEFINE pc == IF job[j].plan = "ports" THEN "up" ELSE "complete"
<1>1. /\ job[j].pc = "remove" /\ status' = status /\ SameVersions /\ Goes(j, pc, {})
    BY DEF EndsRemoval
<1>2. Framed(j)
    BY <1>1, StepFramed DEF SameVersions
<1>3. JobInv(j)'
    <2>1. Phase(j)'
        BY <1>1 DEF JobInv, Phase, Goes, At, Early, Removing
    <2>2. Victims(j)' /\ Ahead(j)'
        BY <1>1 DEF JobInv, Victims, Ahead, Goes, Replacing, SameVersions
    <2>3. Ready(j)'
        BY <1>1 DEF JobInv, Ready, Goes, At, Replacing, Up, SameVersions
    <2>4. Unripe(j)'
        BY <1>1 DEF JobInv, Unripe, Goes, Early, SameVersions
    <2> QED
        BY <2>1, <2>2, <2>3, <2>4 DEF JobInv
<1>4. CurrentServes'
    BY <1>1, ServesOn DEF SameVersions
<1> QED
    BY <1>2, <1>3, <1>4 DEF Kept

LEMMA RejectsKept ==
    ASSUME TypeOK, \A k \in Jobs : JobInv(k), CurrentServes, NEW j \in Jobs, Rejects(j)
    PROVE  Kept(j)
<1>1. /\ job[j].pc = "reject" /\ Verdict(j, "failed") /\ SameVersions
      /\ Goes(j, "remove", {j})
    BY DEF Rejects
<1>2. status'[j] = "failed"
    BY <1>1 DEF Verdict, TypeOK
<1>3. Framed(j)
    <2>1. "failed" \in Ended
        BY DEF Ended
    <2> QED
        BY <1>1, <2>1, StepFramed DEF SameVersions
<1>4. JobInv(j)'
    <2>1. job[j].plan # "ports"
        BY <1>1 DEF JobInv, Phase
    <2>2. Phase(j)'
        BY <1>1, <1>2, <2>1 DEF Phase, Goes, At, Early, Removing
    <2>3. Victims(j)'
        BY <1>1, <1>2 DEF Victims, Goes, Settled, Ended
    <2>4. Ready(j)' /\ Ahead(j)'
        BY <1>2 DEF Ready, Ahead
    <2>5. Unripe(j)'
        BY <1>1 DEF JobInv, Unripe, Goes, SameVersions
    <2> QED
        BY <2>2, <2>3, <2>4, <2>5 DEF JobInv
<1>5. CurrentServes'
    BY <1>1, ServesOn DEF SameVersions
<1> QED
    BY <1>3, <1>4, <1>5 DEF Kept

LEMMA DiscardsKept ==
    ASSUME TypeOK, \A k \in Jobs : JobInv(k), CurrentServes, NEW j \in Jobs, Discards(j)
    PROVE  Kept(j)
<1>1. PICK pc \in Out : Goes(j, pc, job[j].todo)
    BY DEF Discards, Out
<1>2. /\ job[j].pc = "discard" /\ status' = status /\ current' = current
      /\ undone' = IF current = j THEN undone \cup {j} ELSE undone
    BY DEF Discards
<1>3. \A c \in Containers \ {j} : container'[c] = container[c]
    BY DEF Discards, TypeOK
<1>4. pc # "none"
    BY DEF Out
<1>5. Framed(j)
    BY <1>1, <1>2, <1>3, <1>4, StepFramed DEF Containers
<1>6. JobInv(j)'
    <2>1. job[j].todo = {} /\ status[j] # "none"
        BY <1>2 DEF JobInv, Phase, At, Removing
    <2>2. Phase(j)'
        BY <1>1, <1>2, <2>1 DEF Phase, Goes, At, Out, Early, Removing
    <2>3. Victims(j)' /\ Ready(j)' /\ Ahead(j)'
        BY <1>1, <2>1 DEF Victims, Ready, Ahead, Goes, At, Out, Replacing
    <2>4. Unripe(j)'
        BY <1>1, <1>2, <2>1 DEF JobInv, Unripe, Goes, Out, Early
    <2> QED
        BY <2>2, <2>3, <2>4 DEF JobInv
<1>7. CurrentServes'
    <2>1. current \notin undone' => container'[current] = container[current]
        BY <1>2, <1>3 DEF TypeOK
    <2> QED
        BY <1>1, <1>2, <1>4, <2>1, ServesOn
<1> QED
    BY <1>5, <1>6, <1>7 DEF Kept

LEMMA RequestKept ==
    ASSUME TypeOK, Serial, \A k \in Jobs : JobInv(k), CurrentServes, NEW j \in Jobs,
           Request(j)
    PROVE  Kept(j) /\ OneActive'
<1>1. /\ Goes(j, "queued", job[j].todo) /\ job[j].pc = "none"
      /\ status' = [status EXCEPT ![j] = "in_progress"]
      /\ \A k \in Jobs : status[k] # "in_progress"
      /\ container' = container /\ current' = current /\ undone' = undone
    BY RequestMoves
<1>2. /\ status'[j] = "in_progress" /\ \A k \in Jobs \ {j} : status'[k] = status[k]
      /\ status[j] = "none" /\ job[j].todo = {} /\ current # j
    BY <1>1 DEF TypeOK, JobInv, Phase, Unripe, At, Removing
<1>3. Framed(j)
    <2>1. \A c \in Containers : Settled(c) => Settled(c)'
        BY <1>2 DEF Settled, Containers, Ended
    <2>2. NoPorts' => NoPorts
        BY <1>1 DEF NoPorts, Goes, At
    <2> QED
        BY <1>1, <1>2, <2>1, <2>2 DEF Framed, Goes
<1>4. JobInv(j)'
    BY <1>1, <1>2 DEF JobInv, Phase, Victims, Ready, Ahead, Unripe, Goes, At, Early,
        Removing, Replacing, Open
<1>5. CurrentServes'
    BY <1>1, ServesOn
<1>6. OneActive'
    BY <1>1, <1>2 DEF OneActive
<1> QED
    BY <1>3, <1>4, <1>5, <1>6 DEF Kept

LEMMA CancelKept ==
    ASSUME TypeOK, \A k \in Jobs : JobInv(k), CurrentServes, NEW j \in Jobs, Cancel(j)
    PROVE  Kept(j)
<1>1. /\ UNCHANGED <<job, container, current, undone>>
      /\ status'[j] = "cancelled" /\ \A k \in Jobs \ {j} : status'[k] = status[k]
      /\ status[j] # "none"
    BY DEF Cancel, TypeOK, history, Ended
<1>2. \A c \in Containers : Settled(c) => Settled(c)'
    BY <1>1 DEF Settled, Containers
<1>3. NoPorts' <=> NoPorts
    BY <1>1 DEF NoPorts, At
<1>4. Framed(j)
    BY <1>1, <1>2, <1>3 DEF Framed
<1>5. JobInv(j)'
    <2>1. Phase(j)'
        BY <1>1 DEF JobInv, Phase, At, Open
    <2>2. job[j].cur \in Containers
        BY DEF TypeOK, JobState
    <2>3. Victims(j)'
        <3>1. Cancelled(j)'
            BY <1>1 DEF Cancelled
        <3>2. job[j].pc = "stopping" =>
                Settled(job[j].cur)' /\ (NoPorts' => job[j].cur # current')
            BY <1>1, <1>2, <1>3, <2>2 DEF JobInv, Victims, Settled
        <3> QED
            BY <1>1, <3>1, <3>2 DEF Victims, Settled
    <2>4. Ready(j)' /\ Ahead(j)'
        BY <1>1 DEF Ready, Ahead
    <2>5. Unripe(j)'
        BY <1>1 DEF JobInv, Unripe
    <2> QED
        BY <2>1, <2>3, <2>4, <2>5 DEF JobInv
<1>6. CurrentServes'
    BY <1>1, <1>3 DEF CurrentServes, Serving, Up
<1> QED
    BY <1>4, <1>5, <1>6 DEF Kept

LEMMA ExaminedKept ==
    ASSUME TypeOK, IInv, NEW c \in Containers, Examined(c)
    PROVE  IInv'
<1>1. /\ UNCHANGED <<status, job, current, undone>>
      /\ c \in Jobs /\ job[c].plan = "checked" /\ container[c] = "starting"
      /\ container'[c] # "none" /\ \A d \in Containers \ {c} : container'[d] = container[d]
    BY DEF Examined, TypeOK, history
<1>2. \A j \in Jobs : (Phase(j) /\ Victims(j) /\ Ahead(j) /\ Unripe(j))'
    <2>1. \A j \in Jobs : At(j, "none") => j # c
        BY <1>1 DEF IInv, JobInv, Phase
    <2>2. \A j \in Jobs : Phase(j)'
        BY <1>1, <2>1 DEF IInv, JobInv, Phase, At, Containers
    <2>3. \A j \in Jobs : Victims(j)'
        BY <1>1 DEF IInv, JobInv, Victims, Cancelled, Settled, NoPorts, At
    <2>4. \A j \in Jobs : Ahead(j)' /\ Unripe(j)'
        BY <1>1 DEF IInv, JobInv, Ahead, Unripe
    <2> QED
        BY <2>2, <2>3, <2>4
<1>3. \A j \in Jobs : Ready(j)'
    <2>1. ASSUME NEW j \in Jobs PROVE Ready(j)'
        <3>1. Ready(j)
            BY DEF IInv, JobInv
        <3>2. CASE j = c
            BY <1>1, <3>1, <3>2 DEF Ready, At, Up
        <3>3. CASE j # c
            BY <1>1, <3>1, <3>3 DEF Ready, At, Up, Containers
        <3> QED
            BY <3>2, <3>3
    <2> QED
        BY <2>1
<1>4. CurrentServes'
    <2>1. CurrentServes /\ current \in Containers /\ Old \notin Jobs
        BY RollingAssumption DEF IInv, TypeOK
    <2>2. CASE current = c
        BY <1>1, <2>1, <2>2 DEF CurrentServes, Serving, NoPorts, At
    <2>3. CASE current # c
        BY <1>1, <2>1, <2>3 DEF CurrentServes, Serving, Up, NoPorts, At
    <2> QED
        BY <2>2, <2>3
<1>5. OneActive'
    BY <1>1 DEF IInv, OneActive
<1> QED
    BY <1>2, <1>3, <1>4, <1>5 DEF IInv, JobInv

(* Steps that change neither a row, nor a job, nor a version.              *)
LEMMA StillKept ==
    ASSUME IInv, UNCHANGED <<status, job, container, current, undone>>
    PROVE  IInv'
<1>1. OneActive' /\ CurrentServes'
    BY DEF IInv, OneActive, CurrentServes, NoPorts, At, Serving, Up
<1>2. \A j \in Jobs : Phase(j)' /\ Ready(j)' /\ Ahead(j)' /\ Unripe(j)'
    BY DEF IInv, JobInv, Phase, Ready, Ahead, Unripe, At, Up
<1>3. \A j \in Jobs : Victims(j)'
    BY DEF IInv, JobInv, Victims, Cancelled, Settled, NoPorts, At
<1> QED
    BY <1>1, <1>2, <1>3 DEF IInv, JobInv

LEMMA JobStepKept ==
    ASSUME TypeOK, IInv, NEW j \in Jobs, JobStep(j)
    PROVE  Kept(j) /\ OneActive'
<1>1. OneActive /\ CurrentServes /\ \A k \in Jobs : JobInv(k)
    BY DEF IInv
<1>2. Kept(j)
    BY <1>1, JobStepKind, LeavesKept, AdvancesKept, StartsKept, PassesKept, ListsKept,
        SkipsKept, StopsKept, RemovesKept, EndsRemovalKept, RejectsKept, DiscardsKept DEF Kind
<1>3. status' = status \/ \E v \in Ended : Verdict(j, v)
    <2>1. "failed" \in Ended
        BY DEF Ended
    <2> QED
        BY <2>1, JobStepKind DEF Kind, Leaves, Advances, Starts, Passes, Lists, Skips, Stops,
            Removes, EndsRemoval, Rejects, Discards
<1>4. OneActive'
    BY <1>1, <1>3 DEF OneActive, Verdict, TypeOK, Ended
<1> QED
    BY <1>2, <1>4

LEMMA Together ==
    ASSUME TypeOK, IInv, NEW j \in Jobs, Kept(j), OneActive'
    PROVE  IInv'
BY OthersKept DEF IInv, Kept

LEMMA RollingInductive == Spec => [](Serial => IInv)
<1>1. Init => IInv
    <2>1. SUFFICES ASSUME Init PROVE IInv
        OBVIOUS
    <2>2. /\ \A j \in Jobs : /\ job[j].pc = "none" /\ job[j].todo = {} /\ status[j] = "none"
                             /\ j # Old /\ container[j] = "none" /\ current # j
          /\ current = Old /\ container[Old] = "healthy"
        BY <2>1, RollingAssumption DEF Init, Containers
    <2>3. \A j \in Jobs : JobInv(j)
        BY <2>2 DEF JobInv, Phase, Victims, Ready, Ahead, Unripe, At, Early, Removing, Open
    <2> QED
        BY <2>2, <2>3 DEF IInv, OneActive, CurrentServes, Serving
<1>2. TypeOK /\ (Serial => IInv) /\ [Next]_vars => (Serial => IInv)'
    <2>1. SUFFICES ASSUME TypeOK, Serial, IInv, [Next]_vars PROVE IInv'
        BY DEF Serial
    <2>2. CASE \E j \in Jobs : JobStep(j)
        BY <2>1, <2>2, JobStepKept, Together
    <2>3. ASSUME NEW j \in Jobs, Request(j) PROVE IInv'
        <3>1. Kept(j) /\ OneActive'
            BY <2>1, <2>3, RequestKept DEF IInv
        <3> QED
            BY <2>1, <3>1, Together
    <2>4. ASSUME NEW j \in Jobs, Crash(j) PROVE IInv'
        <3>1. Leaves(j)
            BY <2>1, <2>4, CrashMoves DEF Leaves, Out
        <3>2. Kept(j)
            BY <2>1, <3>1, LeavesKept DEF IInv
        <3>3. OneActive'
            BY <2>1, <2>4, CrashMoves DEF IInv, OneActive
        <3> QED
            BY <2>1, <3>2, <3>3, Together
    <2>5. ASSUME NEW j \in Jobs, Cancel(j) PROVE IInv'
        <3>1. Kept(j)
            BY <2>1, <2>5, CancelKept DEF IInv
        <3>2. OneActive'
            BY <2>1, <2>5 DEF IInv, OneActive, Cancel, TypeOK
        <3> QED
            BY <2>1, <3>1, <3>2, Together
    <2>6. CASE \E c \in Containers : Examined(c)
        BY <2>1, <2>6, ExaminedKept
    <2>7. CASE \/ \E j \in Jobs : KillHelper(j)
               \/ CleanerRead \/ CleanerSweep \/ UNCHANGED vars
        <3>1. UNCHANGED <<status, job, container, current, undone>>
            BY <2>7 DEF KillHelper, CleanerRead, CleanerSweep, vars, history
        <3> QED
            BY <2>1, <3>1, StillKept
    <2> QED
        BY <2>1, <2>2, <2>3, <2>4, <2>5, <2>6, <2>7 DEF Next
<1> QED
    BY <1>1, <1>2, RollingTypeOK, PTL DEF Spec

-----------------------------------------------------------------------------
(* What follows from the invariant *)

(* A rolling update never leaves the application without a version that    *)
(* serves, whichever jobs of it still run, fail, crash or are cancelled.   *)
(* About: rolling_update, stop_running_container, failed().                *)
THEOREM RollingServed == Spec => []Served
<1>1. TypeOK /\ (Serial => IInv) => Served
    <2>1. SUFFICES ASSUME TypeOK, IInv, NoPorts, current \notin undone
                   PROVE  \E c \in Containers : Serving(c)
        BY DEF Served, NoPorts
    <2>2. current \in Containers
        BY <2>1 DEF TypeOK
    <2> QED
        BY <2>1, <2>2 DEF IInv, CurrentServes
<1> QED
    BY <1>1, RollingTypeOK, RollingInductive, PTL

(* The verdicts a job gives, and where it gives them.                      *)
LEMMA JobStepVerdict ==
    ASSUME TypeOK, NEW k \in Jobs, JobStep(k)
    PROVE  \/ status' = status
           \/ /\ At(k, "failing") /\ status[k] = "in_progress"
              /\ status' = [status EXCEPT ![k] = "failed"]
           \/ /\ At(k, "reject") /\ ~Cancelled(k)
              /\ status' = [status EXCEPT ![k] = "failed"]
           \/ /\ At(k, "complete") /\ status[k] = "in_progress"
              /\ status' = [status EXCEPT ![k] = "finished"]
<1>1. CASE Begin(k) \/ Redeliver(k) \/ RemoveEnd(k) \/ Removed(k) \/ Start(k) \/ Build(k)
           \/ Renew(k) \/ Compose(k) \/ Launch(k) \/ ComposeEnd(k)
    BY <1>1 DEF Renew, Begin, Redeliver, RemoveEnd, Removed, Start, Build, Compose, Command,
        Launch, ComposeEnd
<1>2. CASE HealthCheck(k) \/ Inspect(k) \/ List(k) \/ Remove(k) \/ Discard(k) \/ Finally(k)
    BY <1>2 DEF HealthCheck, Inspect, Command, Passed, List, Remove, Discard, Finally
<1>3. CASE Reject(k)
    BY <1>3 DEF Reject
<1>4. CASE Complete(k)
    BY <1>4 DEF Complete
<1>5. CASE Failed(k)
    BY <1>5 DEF Failed
<1> QED
    BY <1>1, <1>2, <1>3, <1>4, <1>5 DEF JobStep

(* Only completeDeployment finishes a row, and only one in progress.       *)
LEMMA FinishedByComplete ==
    ASSUME TypeOK, NEW j \in Jobs, [Next]_vars,
           status[j] # "finished", status'[j] = "finished"
    PROVE  At(j, "complete") /\ status[j] = "in_progress"
<1>0. status \in [Jobs -> Statuses]
    BY DEF TypeOK
<1>1. ASSUME NEW k \in Jobs, JobStep(k)
      PROVE  At(j, "complete") /\ status[j] = "in_progress"
    BY <1>0, <1>1, JobStepVerdict
<1>2. CASE \E k \in Jobs : Request(k) \/ Cancel(k)
    BY <1>0, <1>2 DEF Request, Cancel
<1>3. CASE \/ \E k \in Jobs : Crash(k) \/ KillHelper(k)
           \/ \E c \in Containers : Examined(c)
           \/ CleanerRead \/ CleanerSweep \/ UNCHANGED vars
    <2>1. status' = status
        BY <1>3 DEF Crash, KillHelper, Examined, CleanerRead, CleanerSweep, vars
    <2> QED
        BY <2>1
<1> QED
    BY <1>1, <1>2, <1>3 DEF Next

(* A row is finished only while the version of its deployment serves.      *)
(* About: completeDeployment and everything that can have removed the      *)
(* version since its health check.                                         *)
THEOREM RollingFinished == Spec => FinishedIsUp
<1>1. TypeOK /\ (Serial => IInv) /\ [Next]_vars =>
        [\A j \in Jobs : Serial /\ status[j] # "finished" /\ status'[j] = "finished"
            => IF job[j].plan = "ports" THEN Up(j) ELSE Serving(j)]_vars
    <2>1. SUFFICES ASSUME TypeOK, IInv, [Next]_vars, NEW j \in Jobs,
                          status[j] # "finished", status'[j] = "finished"
                   PROVE  IF job[j].plan = "ports" THEN Up(j) ELSE Serving(j)
        OBVIOUS
    <2>2. At(j, "complete") /\ status[j] = "in_progress"
        BY <2>1, FinishedByComplete
    <2>3. Ready(j) /\ job[j].plan \in PlanKinds
        BY <2>1 DEF IInv, JobInv, TypeOK, JobState
    <2> QED
        BY <2>2, <2>3 DEF Ready, At, Replacing, PlanKinds, Serving, Up
<1> QED
    BY <1>1, RollingTypeOK, RollingInductive, PTL DEF Spec, FinishedIsUp

(* How a job ends by a step of its own.                                    *)
LEMMA DoneStep ==
    ASSUME TypeOK, NEW j \in Jobs, JobStep(j), job'[j].pc = "done"
    PROVE  \/ Cancelled(j) /\ status' = status
           \/ job'[j].code = "worker"
           \/ Finally(j)
<1>0. job \in [Jobs -> JobState] /\ job[j] \in JobState
    BY DEF TypeOK
<1>1. \A pc : Goto(j, pc) => job'[j].pc = pc /\ job'[j].code = job[j].code
    BY <1>0 DEF Goto, JobState
<1>2. \A code : ~Throw(j, code)
    BY <1>0 DEF Throw, Leave, JobState
<1>3. /\ \A pc : EndCheck(j, pc) => job'[j].pc = pc
      /\ \A D : ~Doom(j, D)
    BY <1>0 DEF EndCheck, Doom, JobState
<1>4. CASE Begin(j) \/ Redeliver(j)
    BY <1>1, <1>2, <1>4 DEF Begin, Redeliver, history
<1>5. CASE Start(j) \/ Build(j) \/ Compose(j)
    BY <1>1, <1>2, <1>5 DEF Start, Build, Compose, Command
<1>6. CASE Launch(j) \/ Renew(j) \/ ComposeEnd(j)
    BY <1>1, <1>2, <1>6 DEF Launch, Renew, ComposeEnd
<1>7. CASE HealthCheck(j)
    BY <1>1, <1>2, <1>3, <1>7 DEF HealthCheck, Command, Passed
<1>8. CASE Inspect(j)
    <2>1. job' # [job EXCEPT ![j].pc = "health", ![j].tries = @ + 1]
        BY <1>8, AttemptMoves DEF Inspect, Move
    <2> QED
        BY <1>2, <1>3, <1>8, <2>1 DEF Inspect, Passed
<1>9. CASE List(j) \/ RemoveEnd(j) \/ Reject(j) \/ Complete(j)
    BY <1>1, <1>2, <1>3, <1>9, SMTT(60) DEF List, RemoveEnd, Reject, Complete
<1>10. CASE Remove(j) \/ Removed(j)
    BY <1>10, LoopMoves DEF Remove, Removed, Move, At
<1>11. CASE Failed(j) \/ Discard(j)
    BY <1>1, <1>11 DEF Failed, Discard, After
<1> QED
    BY <1>4, <1>5, <1>6, <1>7, <1>8, <1>9, <1>10, <1>11 DEF JobStep

(* The helper of a deployment that has ended is gone, but for the ways     *)
(* named in HelperStopped.  About: the finally block and every return of   *)
(* handle(), failed() and the worker that does not pass through it.        *)
THEOREM RollingHelperStopped == Spec => []HelperStopped
<1>1. Init => HelperStopped
    BY DEF Init, HelperStopped
<1>2. TypeOK /\ HelperStopped /\ [Next]_vars => HelperStopped'
    <2>1. SUFFICES ASSUME TypeOK, HelperStopped, [Next]_vars, NEW j \in Jobs,
                          job'[j].pc = "done", helper'[j]
                   PROVE  status'[j] = "cancelled" \/ j \in missed' \/ job'[j].code = "worker"
        BY DEF HelperStopped, At, Cancelled
    <2> USE DEF history
    <2>2. job[j].pc = "done" /\ helper[j] =>
                status[j] = "cancelled" \/ j \in missed \/ job[j].code = "worker"
        BY <2>1 DEF HelperStopped, At, Cancelled
    <2>3. CASE \E k \in Jobs \ {j} : JobStep(k)
        <3>1. PICK k \in Jobs \ {j} : JobStep(k)
            BY <2>3
        <3>2. job'[j] = job[j] /\ helper'[j] = helper[j] /\ missed \subseteq missed'
            <4>1. helper'[j] = helper[j] /\ missed \subseteq missed'
                BY <2>1, <3>1, JobStepRest
            <4>2. Kind(k)
                BY <2>1, <3>1, JobStepKind
            <4>3. \E pc, todo : Goes(k, pc, todo)
                BY <4>2, Zenon
                    DEF Kind, Leaves, Advances, Starts, Passes,
                    Lists, Skips, Stops, Removes, EndsRemoval, Rejects, Discards
            <4>4. job'[j] = job[j]
                BY <4>3 DEF Goes
            <4> QED
                BY <4>1, <4>4
        <3>3. status'[j] = status[j]
            BY <2>1, <3>1, JobStepKind, ZenonT(60)
                DEF Kind, Leaves, Advances, Starts, Passes, Lists, Skips,
                Stops, Removes, EndsRemoval, Rejects, Discards, Verdict, TypeOK
        <3> QED
            BY <2>1, <2>2, <3>2, <3>3
    <2>4. CASE JobStep(j)
        <3>1. CASE Cancelled(j) /\ status' = status
            BY <3>1 DEF Cancelled
        <3>2. CASE Finally(j)
            <4>1. Cancelled(j) \/ j \in missed'
                BY <2>1, <3>2 DEF Finally, TypeOK
            <4> QED
                BY <3>2, <4>1 DEF Finally, Cancelled
        <3> QED
            BY <2>1, <2>4, <3>1, <3>2, DoneStep
    <2>5. ASSUME NEW k \in Jobs, Request(k)
          PROVE  status'[j] = "cancelled" \/ j \in missed' \/ job'[j].code = "worker"
        <3>1. j # k /\ job'[j] = job[j] /\ helper' = helper /\ missed' = missed
            BY <2>1, <2>5, RequestMoves DEF Goes
        <3>2. status'[j] = status[j]
            BY <2>1, <2>5, <3>1, RequestMoves DEF TypeOK
        <3> QED
            BY <2>1, <2>2, <3>1, <3>2
    <2>6. ASSUME NEW k \in Jobs, Crash(k)
          PROVE  status'[j] = "cancelled" \/ j \in missed' \/ job'[j].code = "worker"
        BY <2>1, <2>2, <2>6, CrashMoves DEF Goes
    <2>7. CASE \E k \in Jobs : Cancel(k) \/ KillHelper(k)
        <3>1. /\ job' = job /\ missed' = missed
              /\ helper'[j] => helper[j]
              /\ status'[j] = status[j] \/ status'[j] = "cancelled"
            BY <2>1, <2>7 DEF Cancel, KillHelper, TypeOK
        <3> QED
            BY <2>1, <2>2, <3>1
    <2>8. CASE \/ \E c \in Containers : Examined(c)
               \/ CleanerRead \/ CleanerSweep \/ UNCHANGED vars
        <3>1. /\ job' = job /\ missed' = missed /\ status' = status
              /\ helper'[j] => helper[j]
            BY <2>1, <2>8 DEF Examined, CleanerRead, CleanerSweep, vars
        <3> QED
            BY <2>1, <2>2, <3>1
    <2> QED
        BY <2>1, <2>3, <2>4, <2>5, <2>6, <2>7, <2>8 DEF Next
<1> QED
    BY <1>1, <1>2, RollingTypeOK, PTL DEF Spec

-----------------------------------------------------------------------------
(***************************************************************************)
(* The version that has passed stays.  Excused: whoever is in              *)
(* failed() got there by an exception, and so did whoever has removed the  *)
(* current version that way; the exception is never forgotten.             *)
(***************************************************************************)
Excused == \A j \in Jobs :
    job[j].pc \in {"failing", "discard"} \/ j \in undone => job[j].code # "none"

LEMMA ThrowExcused ==
    ASSUME TypeOK, NEW j \in Jobs, JobStep(j), Excused
    PROVE  /\ job[j].code # "none" => job'[j].code # "none"
           /\ job'[j].pc \in {"failing", "discard"} => job'[j].code # "none"
<1>0. job \in [Jobs -> JobState] /\ job[j] \in JobState
    BY DEF TypeOK
<1> DEFINE Goal == /\ job[j].code # "none" => job'[j].code # "none"
                   /\ job'[j].pc \in {"failing", "discard"} => job'[j].code # "none"
<1>1. \A pc : Goto(j, pc) => job'[j].pc = pc /\ job'[j].code = job[j].code
    BY <1>0 DEF Goto, JobState
<1>2. \A code : Throw(j, code) => job'[j].code = code
    BY <1>0 DEF Throw, Leave, JobState
<1>3. /\ \A pc : EndCheck(j, pc) => job'[j].pc = pc /\ job'[j].code = job[j].code
      /\ \A D : Doom(j, D) => job'[j].pc = "remove" /\ job'[j].code = job[j].code
    BY <1>0 DEF EndCheck, Doom, JobState
<1>4. CASE Begin(j) \/ Redeliver(j)
    BY <1>1, <1>2, <1>4 DEF Begin, Redeliver
<1>5. CASE Start(j) \/ Build(j) \/ Compose(j)
    BY <1>1, <1>2, <1>5 DEF Start, Build, Compose, Command
<1>6. CASE Launch(j) \/ Renew(j) \/ ComposeEnd(j)
    BY <1>1, <1>2, <1>6 DEF Launch, Renew, ComposeEnd
<1>7. CASE HealthCheck(j)
    BY <1>1, <1>2, <1>3, <1>7 DEF HealthCheck, Command, Passed
<1>8. CASE Inspect(j)
    <2>1. CASE job' = [job EXCEPT ![j].pc = "health", ![j].tries = @ + 1]
        BY <1>8, <2>1, AttemptMoves DEF Inspect, Move
    <2> QED
        BY <1>2, <1>3, <1>8, <2>1 DEF Inspect, Passed
<1>9. CASE List(j) \/ RemoveEnd(j)
    BY <1>1, <1>3, <1>9 DEF List, RemoveEnd
<1>10. CASE Reject(j) \/ Complete(j)
    BY <1>1, <1>2, <1>3, <1>10 DEF Reject, Complete
<1>11. CASE Remove(j) \/ Removed(j)
    BY <1>11, LoopMoves DEF Remove, Removed, Move, At
<1>12. CASE Failed(j) \/ Discard(j) \/ Finally(j)
    <2>1. At(j, "failing") \/ At(j, "discard") => job[j].code # "none"
        BY DEF Excused, At
    <2> QED
        BY <1>1, <1>12, <2>1 DEF Failed, Discard, Finally, After
<1> QED
    BY <1>4, <1>5, <1>6, <1>7, <1>8, <1>9, <1>10, <1>11, <1>12 DEF JobStep

LEMMA ExcusedInductive == Spec => []Excused
<1>1. Init => Excused
    BY DEF Init, Excused
<1>2. TypeOK /\ Excused /\ [Next]_vars => Excused'
    <2>1. SUFFICES ASSUME TypeOK, Excused, [Next]_vars PROVE Excused'
        OBVIOUS
    <2> USE DEF history
    <2>2. ASSUME NEW j \in Jobs, JobStep(j) PROVE Excused'
        <3>1. \A k \in Jobs \ {j} : job'[k] = job[k]
            BY <2>1, <2>2, JobStepKind DEF Kind, Leaves, Advances, Starts, Passes,
                Lists, Skips, Stops, Removes, EndsRemoval, Rejects, Discards, Goes
        <3>2. \/ undone' = undone
              \/ job[j].pc = "discard" /\ undone' \subseteq undone \cup {j}
            BY <2>1, <2>2, JobStepKind DEF Kind, Leaves, Advances, Starts, Passes,
                Lists, Skips, Stops, Removes, EndsRemoval, Rejects, Discards, SameVersions
        <3>3. /\ job[j].code # "none" => job'[j].code # "none"
              /\ job'[j].pc \in {"failing", "discard"} => job'[j].code # "none"
            BY <2>1, <2>2, ThrowExcused
        <3> QED
            BY <2>1, <3>1, <3>2, <3>3 DEF Excused
    <2>3. ASSUME NEW j \in Jobs, Request(j) PROVE Excused'
        <3>1. /\ \A k \in Jobs \ {j} : job'[k] = job[k]
              /\ job'[j].pc = "queued" /\ job'[j].code = job[j].code /\ undone' = undone
            BY <2>1, <2>3, GotoMoves DEF Request, Move, Labels
        <3> QED
            BY <2>1, <3>1 DEF Excused
    <2>4. ASSUME NEW j \in Jobs, Crash(j) PROVE Excused'
        <3>1. job[j].code \in {"none", "cancel", "error", "worker"}
            BY <2>1 DEF TypeOK, JobState
        <3>2. /\ \A k \in Jobs \ {j} : job'[k] = job[k]
              /\ job'[j].pc \in {"lost", "done"} /\ job'[j].code = job[j].code
              /\ undone' = undone
            BY <2>1, <2>4, <3>1, LeaveMoves DEF Crash, Move, Labels
        <3> QED
            BY <2>1, <3>2 DEF Excused
    <2>5. CASE \/ \E j \in Jobs : Cancel(j) \/ KillHelper(j)
               \/ \E c \in Containers : Examined(c)
               \/ CleanerRead \/ CleanerSweep \/ UNCHANGED vars
        <3>1. UNCHANGED <<job, undone>>
            BY <2>5 DEF Cancel, KillHelper, Examined, CleanerRead, CleanerSweep, vars
        <3> QED
            BY <2>1, <3>1 DEF Excused
    <2> QED
        BY <2>1, <2>2, <2>3, <2>4, <2>5 DEF Next
<1> QED
    BY <1>1, <1>2, RollingTypeOK, PTL DEF Spec

(* Nothing but failed() of its own job takes the current version away      *)
(* before another version has passed.  About: the jobs that cancellations  *)
(* leave behind with containers still to remove, and the removal in        *)
(* failed(), which comes whatever the verdict was.                         *)
THEOREM RollingCurrentKept == Spec => []CurrentIsKept
<1>1. (Serial => IInv) /\ Excused => CurrentIsKept
    <2>1. SUFFICES ASSUME IInv, Excused, Serial, NoPorts
                   PROVE  \A j \in Jobs :
                            current = j => Up(j) \/ (j \in undone /\ job[j].code # "none")
        BY Zenon DEF CurrentIsKept, NoPorts
    <2> SUFFICES ASSUME NEW j \in Jobs, current = j
                 PROVE  Up(j) \/ (j \in undone /\ job[j].code # "none")
        OBVIOUS
    <2>2. CASE j \in undone
        BY <2>1, <2>2 DEF Excused
    <2>3. CASE j \notin undone
        BY <2>1, <2>3 DEF IInv, CurrentServes, Serving, Up
    <2> QED
        BY <2>2, <2>3
<1> QED
    BY <1>1, RollingInductive, ExcusedInductive, PTL

-----------------------------------------------------------------------------
(***************************************************************************)
(* One version is left                                                     *)
(***************************************************************************)

(* A container that runs and that OneVersion makes no exception for.       *)
Stray(c) == Up(c) /\ c \notin missed /\ (c \in Jobs => ~Cancelled(c))

(* The containers have been listed.                                        *)
Listed(j) ==
    job[j].pc \in Removing \cup {"complete"} \cup
                    (IF job[j].plan = "ports" THEN {"up", "upping"} ELSE {})

(* A job in progress that has listed the containers has all of them still  *)
(* before it, but for its own.                                             *)
Sweeps(j) ==
    status[j] = "in_progress" /\ Listed(j) =>
        \A c \in Containers : Stray(c) => c = j \/ c \in job[j].todo

(* The version of a failed deployment is on its way out.                   *)
Leaving(j) ==
    status[j] = "failed" /\ Stray(j) =>
        job[j].pc \in {"failing", "discard", "lost"} \/ j \in job[j].todo

(* A job has not ended before its row, but for the workers that died.      *)
Over(j) ==
    /\ job[j].pc \in {"discard", "final", "done"} /\ status[j] = "in_progress" => j \in missed
    /\ job[j].code = "cancel" => Cancelled(j)

Reigns(c) == c = Old \/ status[c] = "finished"
OneReigns ==
    \A c, d \in Containers : Stray(c) /\ Stray(d) /\ Reigns(c) /\ Reigns(d) => c = d

SweepInv(j) == Sweeps(j) /\ Leaving(j) /\ Over(j)
VInv == OneReigns /\ \A j \in Jobs : SweepInv(j)

(* A step of job j adds no container to the strays but its own version.    *)
LEMMA StraysShrink ==
    ASSUME TypeOK, NEW j \in Jobs, JobStep(j)
    PROVE  \A c \in Containers : Stray(c)' => Stray(c) \/ (c = j /\ At(j, "upping"))
<1>1. missed \subseteq missed'
    BY JobStepRest
<1>2. \A k \in Jobs : Cancelled(k) => Cancelled(k)'
    BY JobStepKind DEF Kind, Leaves, Advances, Starts, Passes, Lists, Skips, Stops, Removes,
        EndsRemoval, Rejects, Discards, Verdict, Cancelled, TypeOK
<1>3. \A c \in Containers : Up(c)' => Up(c) \/ (c = j /\ At(j, "upping"))
    BY JobStepKind DEF Kind, Leaves, Advances, Starts, Passes, Lists, Skips, Stops, Removes,
        EndsRemoval, Rejects, Discards, SameVersions, Up, At, TypeOK
<1> QED
    BY <1>1, <1>2, <1>3 DEF Stray

LEMMA SweepOthers ==
    ASSUME TypeOK, IInv, VInv, NEW j \in Jobs, NEW k \in Jobs \ {j},
           job'[k] = job[k], status'[k] = status[k], missed \subseteq missed',
           Cancelled(j) => Cancelled(j)',
           \A c \in Containers : Stray(c)' => Stray(c) \/ (c = j /\ At(j, "upping"))
    PROVE  SweepInv(k)'
<1>1. SweepInv(k) /\ k \in Containers /\ j \in Containers
    BY DEF VInv, Containers
<1>2. Sweeps(k)'
    <2>1. SUFFICES ASSUME status[k] = "in_progress", Listed(k),
                          NEW c \in Containers, Stray(c)'
                   PROVE  c = k \/ c \in job[k].todo
        BY DEF Sweeps, Listed
    <2>2. CASE Stray(c)
        BY <1>1, <2>1, <2>2 DEF SweepInv, Sweeps
    <2>3. CASE c = j /\ At(j, "upping")
        <3>1. status[j] \in Open
            BY <2>3 DEF IInv, JobInv, Phase, At, Early
        <3>2. status[j] = "in_progress"
            BY <2>1, <2>3, <3>1 DEF Stray, Cancelled, Open
        <3> QED
            BY <2>1, <3>2 DEF IInv, OneActive
    <2> QED
        BY <2>1, <2>2, <2>3
<1>3. Leaving(k)'
    BY <1>1 DEF SweepInv, Leaving
<1>4. Over(k)'
    BY <1>1 DEF SweepInv, Over, Cancelled
<1> QED
    BY <1>2, <1>3, <1>4 DEF SweepInv

LEMMA OneReignsKept ==
    ASSUME TypeOK, IInv, VInv, [Next]_vars, NEW j \in Jobs,
           \A c \in Containers : Stray(c)' => Stray(c) \/ (c = j /\ At(j, "upping"))
    PROVE  OneReigns'
<1>1. ASSUME NEW c \in Containers, Reigns(c)'
      PROVE  Reigns(c) \/ (c \in Jobs /\ At(c, "complete") /\ status[c] = "in_progress")
    BY <1>1, FinishedByComplete DEF Reigns, Containers
<1>2. ASSUME NEW c \in Containers, Reigns(c)', Stray(c)'
      PROVE  Stray(c)
    <2>1. SUFFICES ASSUME c = j, At(j, "upping") PROVE FALSE
        BY <1>2
    <2>2. status[j] \in Open
        BY <2>1 DEF IInv, JobInv, Phase, At, Early
    <2>3. j # Old
        BY RollingAssumption
    <2> QED
        BY <1>1, <1>2, <2>1, <2>2, <2>3 DEF Reigns, At, Open
<1>3. ASSUME NEW c \in Containers, NEW d \in Containers, Stray(d),
             c \in Jobs, At(c, "complete"), status[c] = "in_progress"
      PROVE  c = d
    <2>1. job[c].todo = {}
        BY <1>3 DEF IInv, JobInv, Phase, At, Removing
    <2>2. Sweeps(c) /\ Listed(c)
        BY <1>3 DEF VInv, SweepInv, Listed, At
    <2> QED
        BY <1>3, <2>1, <2>2 DEF Sweeps
<1> QED
    BY <1>1, <1>2, <1>3 DEF OneReigns, VInv

(* The steps before the containers are listed.                             *)
LEMMA SweepEarly ==
    ASSUME NEW j \in Jobs, status[j] = "in_progress", status' = status,
           job'[j].code # "cancel", job'[j].pc \notin {"discard", "final", "done"},
           ~Listed(j)'
    PROVE  SweepInv(j)'
BY DEF SweepInv, Sweeps, Leaving, Over

LEMMA SweepMove ==
    ASSUME NEW j \in Jobs, NEW pc \in Early \cup {"list", "reject", "failing"},
           NEW code, NEW todo, NEW cur, NEW tries, Move(j, pc, code, todo, cur, tries),
           status[j] = "in_progress", status' = status, code # "cancel",
           pc \in {"up", "upping"} => job[j].plan # "ports"
    PROVE  SweepInv(j)'
BY SweepEarly DEF Move, Listed, Early, Removing

LEMMA SweepOwn ==
    ASSUME TypeOK, IInv, VInv, NEW j \in Jobs, JobStep(j)
    PROVE  SweepInv(j)'
<1> USE DEF history
<1>1. CASE Cancelled(j)
    <2>1. status'[j] = "cancelled"
        BY <1>1, JobStepKind DEF Kind, Leaves, Advances, Starts, Passes, Lists, Skips, Stops,
            Removes, EndsRemoval, Rejects, Discards, Verdict, Cancelled, TypeOK
    <2> QED
        BY <2>1 DEF SweepInv, Sweeps, Leaving, Over, Cancelled
<1>2. CASE ~Cancelled(j)
    <2>0. /\ Phase(j) /\ Sweeps(j) /\ Leaving(j) /\ j \in Containers
          /\ job[j].code # "cancel" /\ missed \subseteq missed'
          /\ status \in [Jobs -> Statuses]
        BY <1>2, JobStepRest DEF IInv, JobInv, VInv, SweepInv, Over, Containers, TypeOK
    <2>1. \A c \in Containers : Stray(c)' => Stray(c) \/ (c = j /\ At(j, "upping"))
        BY StraysShrink
    <2>2. job[j].pc \in Early \cup {"list", "reject"} => status[j] = "in_progress"
        BY <1>2, <2>0 DEF Phase, Open, Cancelled
    <2>3. CASE Begin(j)
        BY <1>2, <2>0, <2>2, <2>3, GotoMoves, ThrowMoves, SweepMove DEF Begin, At, Labels, Early
    <2>4. CASE Start(j)
        BY <1>2, <2>0, <2>2, <2>4, CommandMoves, SweepMove, ZenonT(60) DEF Start, At, Labels, Early
    <2>5. CASE Launch(j)
        BY <1>2, <2>0, <2>2, <2>5, GotoMoves, ThrowMoves, SweepMove DEF Launch, At, Labels, Early
    <2>21. CASE Renew(j)
        BY <1>2, <2>0, <2>2, <2>21, GotoMoves, SweepMove DEF Renew, At, Labels, Early
    <2>6. CASE Build(j)
        BY <1>2, <2>0, <2>2, <2>6, CommandMoves, SweepMove DEF Build, At, Labels, Early
    <2>7. CASE HealthCheck(j)
        <3>1. status' = status /\ status[j] = "in_progress"
            BY <2>2, <2>7 DEF HealthCheck, Command, Passed, At, Early
        <3>2. \E pc \in {"list", "inspect", "failing", "reject"}, code \in {job[j].code, "error"} :
                \E todo, cur, tries : Move(j, pc, code, todo, cur, tries)
            <4>1. CASE Passed(j)
                BY <4>1, PassedMoves
            <4>2. CASE Command(j, TRUE, "inspect")
                BY <1>2, <4>2, CommandMoves DEF Labels
            <4>3. CASE EndCheck(j, "reject")
                BY <4>3, EndCheckMoves DEF Labels
            <4> QED
                BY <2>7, <4>1, <4>2, <4>3 DEF HealthCheck
        <3> QED
            BY <2>0, <3>1, <3>2, SweepMove DEF Early
    <2>8. CASE Inspect(j)
        BY <1>2, <2>0, <2>2, <2>8, PassedMoves, EndCheckMoves, AttemptMoves, ThrowMoves,
            SweepMove DEF Inspect, At, Labels, Early
    <2>9. CASE Redeliver(j)
        <3>1. Move(j, "failing", "worker", {}, Old, 0) /\ UNCHANGED <<status, container, missed>>
            BY <2>9, ThrowMoves DEF Redeliver
        <3> QED
            BY <3>1 DEF Move, SweepInv, Sweeps, Leaving, Over, Listed, Removing
    <2>10. CASE Compose(j)
        <3>1. \/ Move(j, "failing", "error", {}, Old, 0)
              \/ Move(j, "upping", job[j].code, job[j].todo, job[j].cur, job[j].tries)
            BY <1>2, <2>10, CommandMoves DEF Compose, Labels
        <3>2. UNCHANGED <<status, container, missed>> /\ At(j, "up")
            BY <2>10, CommandMoves DEF Compose, Labels
        <3>3. Sweeps(j)'
            BY <2>0, <2>1, <3>1, <3>2 DEF Move, Sweeps, Listed, At, Removing
        <3> QED
            BY <2>0, <2>2, <3>1, <3>2, <3>3 DEF Move, SweepInv, Leaving, Over, At, Early
    <2>11. CASE ComposeEnd(j)
        <3> DEFINE next == IF job[j].plan = "ports" THEN "complete" ELSE "health"
        <3>1. \/ Move(j, "failing", "error", {}, Old, 0)
              \/ Move(j, next, job[j].code, job[j].todo, job[j].cur, job[j].tries)
            BY <1>2, <2>11, GotoMoves, ThrowMoves DEF ComposeEnd, Labels
        <3>2. UNCHANGED <<status, missed>> /\ At(j, "upping")
            BY <2>11 DEF ComposeEnd
        <3>3. Sweeps(j)'
            BY <2>0, <2>1, <3>1, <3>2 DEF Move, Sweeps, Listed, At, Removing
        <3> QED
            BY <2>0, <2>2, <3>1, <3>2, <3>3 DEF Move, SweepInv, Leaving, Over, At, Early
    <2>12. CASE List(j)
        <3>1. /\ job'[j].pc = "remove" /\ job'[j].code = job[j].code
              /\ \/ job'[j].todo = {c \in Containers : Up(c)} \ {j}
                 \/ missed' = missed \cup ({c \in Containers : Up(c)} \ {j})
            BY <2>12, DoomMoves, GotoMoves DEF List, Move, Labels
        <3>2. UNCHANGED <<status, container>> /\ At(j, "list")
            BY <2>12 DEF List
        <3>3. Sweeps(j)'
            BY <3>1, <3>2 DEF Sweeps, Stray, Up
        <3> QED
            BY <2>0, <2>2, <3>1, <3>2, <3>3 DEF SweepInv, Leaving, Over, At
    <2>13. CASE Remove(j)
        <3>1. PICK c \in job[j].todo :
                /\ At(j, "remove") /\ UNCHANGED <<status, container>>
                /\ \/ job' = [job EXCEPT ![j].pc = "stopping", ![j].cur = c]
                   \/ /\ job' = [job EXCEPT ![j].todo = @ \ {c}]
                      /\ c \in missed'
            BY <1>2, <2>13, SMTT(60) DEF Remove
        <3>2. /\ job'[j].code = job[j].code /\ job'[j].pc \in Removing
              /\ job'[j].todo = job[j].todo \/ (job'[j].todo = job[j].todo \ {c} /\ c \in missed')
            BY <3>1, LoopMoves, ZenonT(60) DEF Move, At, Removing
        <3>3. Sweeps(j)'
            BY <2>0, <2>1, <3>1, <3>2 DEF Sweeps, Listed, At, Removing, Stray
        <3>4. Leaving(j)'
            BY <2>0, <2>1, <3>1, <3>2 DEF Leaving, At, Removing, Stray
        <3> QED
            BY <2>0, <3>2, <3>3, <3>4 DEF SweepInv, Over, Removing
    <2>14. CASE Removed(j)
        <3> DEFINE c == job[j].cur
        <3>1. /\ At(j, "stopping") /\ UNCHANGED <<status, missed>>
              /\ job'[j].code = job[j].code /\ job'[j].pc = "remove"
              /\ job'[j].todo = job[j].todo \ {c}
            BY <2>14, LoopMoves DEF Removed, Move
        <3>2. c \in Containers /\ container'[c] = "none"
            BY <2>14 DEF Removed, TypeOK, JobState
        <3>3. Sweeps(j)'
            BY <2>0, <2>1, <3>1, <3>2 DEF Sweeps, Listed, At, Removing, Stray, Up
        <3>4. Leaving(j)'
            BY <2>0, <2>1, <3>1, <3>2 DEF Leaving, At, Stray, Up
        <3> QED
            BY <2>0, <3>1, <3>3, <3>4 DEF SweepInv, Over
    <2>15. CASE RemoveEnd(j)
        <3> DEFINE next == IF job[j].plan = "ports" THEN "up" ELSE "complete"
        <3>1. next \in Labels
            BY DEF Labels
        <3>2. Move(j, next, job[j].code, job[j].todo, job[j].cur, job[j].tries)
            BY <2>15, <3>1, GotoMoves DEF RemoveEnd
        <3>3. UNCHANGED <<status, container, missed>> /\ At(j, "remove") /\ job[j].todo = {}
            BY <2>15 DEF RemoveEnd
        <3>4. Sweeps(j)'
            BY <2>0, <2>1, <3>2, <3>3 DEF Move, Sweeps, Listed, At, Removing
        <3>5. Leaving(j)'
            BY <2>0, <2>1, <3>2, <3>3 DEF Move, Leaving, At
        <3> QED
            BY <2>0, <3>2, <3>4, <3>5 DEF Move, SweepInv, Over
    <2>16. CASE Reject(j)
        <3>1. status'[j] = "failed"
            BY <1>2, <2>0, <2>16 DEF Reject
        <3>2. {j} \in SUBSET Containers
            BY <2>0
        <3>3. \/ Move(j, "remove", job[j].code, {j}, job[j].cur, job[j].tries)
              \/ Move(j, "failing", "error", {}, Old, 0)
            BY <1>2, <2>16, <3>2, DoomMoves, ThrowMoves DEF Reject
        <3> QED
            BY <2>0, <3>1, <3>3 DEF Move, SweepInv, Sweeps, Leaving, Over
    <2>17. CASE Complete(j)
        <3>1. \/ Move(j, "final", job[j].code, job[j].todo, job[j].cur, job[j].tries)
              \/ Move(j, "failing", "error", {}, Old, 0)
            BY <1>2, <2>17, GotoMoves, ThrowMoves DEF Complete, Labels
        <3>2. /\ At(j, "complete") /\ UNCHANGED <<container, missed>>
              /\ \/ status'[j] = "finished"
                 \/ status' = status /\ status[j] # "in_progress"
            BY <1>2, <2>0, <2>17 DEF Complete, Ended
        <3>3. Leaving(j)'
            BY <2>0, <2>1, <3>1, <3>2 DEF Move, Leaving, Phase, At, Removing
        <3> QED
            BY <2>0, <3>1, <3>2, <3>3 DEF Move, SweepInv, Sweeps, Over
    <2>18. CASE Failed(j)
        <3>1. \E pc \in {"discard", "final", "done"} :
                /\ Move(j, pc, job[j].code, job[j].todo, job[j].cur, job[j].tries)
                /\ pc # "discard" => j \in missed'
            BY <1>2, <2>0, <2>18, GotoMoves DEF Failed, After, Labels
        <3>2. status'[j] # "in_progress"
            BY <2>0, <2>18 DEF Failed
        <3> QED
            BY <2>0, <3>1, <3>2 DEF Move, SweepInv, Sweeps, Leaving, Over, Stray
    <2>19. CASE Discard(j)
        <3>1. \E pc \in {"final", "done"} :
                Move(j, pc, job[j].code, job[j].todo, job[j].cur, job[j].tries)
            BY <2>19, GotoMoves DEF Discard, After, Labels
        <3>2. /\ At(j, "discard") /\ status' = status
              /\ container'[j] = "none" \/ j \in missed'
            BY <2>0, <2>19 DEF Discard, TypeOK
        <3>3. status[j] = "in_progress" => j \in missed'
            BY <2>0, <3>2 DEF VInv, SweepInv, Over, At
        <3> QED
            BY <2>0, <3>1, <3>2, <3>3 DEF Move, SweepInv, Sweeps, Leaving, Over, Stray, Up,
                Listed, Removing
    <2>20. CASE Finally(j)
        <3>1. Move(j, "done", job[j].code, job[j].todo, job[j].cur, job[j].tries)
            BY <2>20, GotoMoves DEF Finally, Labels
        <3>2. At(j, "final") /\ status' = status
            BY <2>20 DEF Finally
        <3>3. status[j] = "in_progress" => j \in missed'
            BY <2>0, <3>2 DEF VInv, SweepInv, Over, At
        <3>4. Leaving(j)'
            BY <2>0, <2>1, <3>1, <3>2 DEF Move, Leaving, Phase, At, Removing
        <3> QED
            BY <2>0, <3>1, <3>2, <3>3, <3>4 DEF Move, SweepInv, Sweeps, Over, Listed, Removing
    <2> QED
        BY <2>3, <2>4, <2>5, <2>6, <2>7, <2>8, <2>9, <2>10, <2>11, <2>12, <2>13, <2>14, <2>15,
            <2>16, <2>17, <2>18, <2>19, <2>20, <2>21 DEF JobStep
<1> QED
    BY <1>1, <1>2

LEMMA VersionsTogether ==
    ASSUME TypeOK, IInv, VInv, [Next]_vars, NEW j \in Jobs,
           \A k \in Jobs \ {j} : job'[k] = job[k] /\ status'[k] = status[k],
           missed \subseteq missed', Cancelled(j) => Cancelled(j)', SweepInv(j)',
           \A c \in Containers : Stray(c)' => Stray(c) \/ (c = j /\ At(j, "upping"))
    PROVE  VInv'
<1>1. \A k \in Jobs \ {j} : SweepInv(k)'
    BY SweepOthers
<1>2. OneReigns'
    BY OneReignsKept
<1> QED
    BY <1>1, <1>2 DEF VInv

LEMMA VersionsInductive == Spec => [](Serial => VInv)
<1>1. Init => VInv
    BY RollingAssumption DEF Init, VInv, OneReigns, SweepInv, Sweeps, Leaving, Over, Stray,
        Reigns, Up, Containers
<1>2. TypeOK /\ (Serial => IInv) /\ (Serial => VInv) /\ [Next]_vars => (Serial => VInv)'
    <2>1. SUFFICES ASSUME TypeOK, Serial, IInv, VInv, [Next]_vars PROVE VInv'
        BY DEF Serial
    <2> USE DEF history
    <2>2. ASSUME NEW j \in Jobs, JobStep(j) PROVE VInv'
        <3>1. \A k \in Jobs \ {j} : job'[k] = job[k] /\ status'[k] = status[k]
            <4>1. Framed(j)
                BY <2>1, <2>2, JobStepKept DEF Kept
            <4> QED
                BY <4>1 DEF Framed
        <3>2. Cancelled(j) => Cancelled(j)'
            BY <2>1, <2>2, JobStepKind DEF Kind, Leaves, Advances, Starts, Passes, Lists, Skips,
                Stops, Removes, EndsRemoval, Rejects, Discards, Verdict, Cancelled, TypeOK
        <3> QED
            BY <2>1, <2>2, <3>1, <3>2, JobStepRest, StraysShrink, SweepOwn, VersionsTogether
    <2>3. ASSUME NEW j \in Jobs, Request(j) PROVE VInv'
        <3>1. /\ \A k \in Jobs \ {j} : job'[k] = job[k] /\ status'[k] = status[k]
              /\ job'[j].pc = "queued" /\ job'[j].code = job[j].code
              /\ status'[j] = "in_progress" /\ At(j, "none")
              /\ UNCHANGED <<container, missed>>
            <4>1. /\ At(j, "none") /\ Goto(j, "queued") /\ UNCHANGED <<container, missed>>
                  /\ status' = [status EXCEPT ![j] = "in_progress"]
                BY <2>3 DEF Request
            <4>2. Move(j, "queued", job[j].code, job[j].todo, job[j].cur, job[j].tries)
                BY <2>1, <4>1, GotoMoves DEF Labels
            <4>3. \A k \in Jobs \ {j} : job'[k] = job[k]
                BY <4>2 DEF Move
            <4>4. job'[j].pc = "queued" /\ job'[j].code = job[j].code
                BY <4>2 DEF Move
            <4>5. status'[j] = "in_progress" /\ \A k \in Jobs \ {j} : status'[k] = status[k]
                BY <2>1, <4>1 DEF TypeOK
            <4> QED
                BY <4>1, <4>3, <4>4, <4>5
        <3>2. ~Cancelled(j)
            BY <2>1, <3>1 DEF IInv, JobInv, Phase, Cancelled
        <3>3. \A c \in Containers : Stray(c)' => Stray(c)
            BY <3>1, <3>2 DEF Stray, Up, Cancelled
        <3>4. SweepInv(j)'
            BY <2>1, <3>1, <3>2 DEF VInv, SweepInv, Sweeps, Leaving, Over, Listed, Removing
        <3> QED
            BY <2>1, <3>1, <3>2, <3>3, <3>4, VersionsTogether
    <2>4. ASSUME NEW j \in Jobs, Crash(j) PROVE VInv'
        <3>1. /\ \A k \in Jobs \ {j} : job'[k] = job[k]
              /\ UNCHANGED <<status, container>> /\ missed \subseteq missed'
            BY <2>1, <2>4, CrashMoves DEF Goes
        <3>2. \/ job'[j].pc = "lost" /\ job'[j].code = "none"
              \/ job'[j].pc = "done" /\ job'[j].code = job[j].code /\ j \in missed'
            <4>1. job[j].code \in {"none", "cancel", "error", "worker"}
                BY <2>1 DEF TypeOK, JobState
            <4> QED
                BY <2>1, <2>4, <4>1, LeaveMoves DEF Crash, Move, Labels
        <3>3. \A c \in Containers : Stray(c)' => Stray(c)
            BY <3>1 DEF Stray, Up, Cancelled
        <3>4. SweepInv(j)'
            BY <2>1, <3>1, <3>2 DEF VInv, SweepInv, Sweeps, Leaving, Over, Listed, Removing,
                Stray, Cancelled
        <3> QED
            BY <2>1, <3>1, <3>3, <3>4, VersionsTogether DEF Cancelled
    <2>5. ASSUME NEW j \in Jobs, Cancel(j) PROVE VInv'
        <3>1. /\ UNCHANGED <<job, container, missed>>
              /\ status'[j] = "cancelled" /\ \A k \in Jobs \ {j} : status'[k] = status[k]
            BY <2>1, <2>5 DEF Cancel, TypeOK
        <3>2. \A c \in Containers : Stray(c)' => Stray(c)
            BY <3>1 DEF Stray, Up, Cancelled, Containers
        <3>3. SweepInv(j)'
            BY <3>1 DEF SweepInv, Sweeps, Leaving, Over, Cancelled
        <3> QED
            BY <2>1, <3>1, <3>2, <3>3, VersionsTogether DEF Cancelled
    <2>6. ASSUME NEW c \in Containers, Examined(c) PROVE VInv'
        <3>1. UNCHANGED <<job, status, missed>> /\ c \in Jobs
            BY <2>6 DEF Examined
        <3>2. \A d \in Containers : Up(d)' => Up(d)
            BY <2>1, <2>6 DEF Examined, Up, TypeOK
        <3>3. \A d \in Containers : Stray(d)' => Stray(d)
            BY <3>1, <3>2 DEF Stray, Cancelled
        <3>4. SweepInv(c)'
            <4>1. SweepInv(c) /\ c \in Containers
                BY <2>1, <3>1 DEF VInv
            <4> QED
                BY <3>1, <3>3, <4>1 DEF SweepInv, Sweeps, Leaving, Over, Listed, Cancelled
        <3> QED
            BY <2>1, <3>1, <3>3, <3>4, VersionsTogether DEF Cancelled
    <2>7. CASE \/ \E j \in Jobs : KillHelper(j)
               \/ CleanerRead \/ CleanerSweep \/ UNCHANGED vars
        <3>1. UNCHANGED <<status, job, container, missed>>
            BY <2>7 DEF KillHelper, CleanerRead, CleanerSweep, vars
        <3>2. \A c : Stray(c)' <=> Stray(c)
            BY <3>1 DEF Stray, Up, Cancelled
        <3> QED
            BY <2>1, <3>1, <3>2 DEF VInv, OneReigns, Reigns, SweepInv, Sweeps, Leaving, Over,
                Listed, Cancelled
    <2> QED
        BY <2>1, <2>2, <2>3, <2>4, <2>5, <2>6, <2>7 DEF Next
<1> QED
    BY <1>1, <1>2, RollingTypeOK, RollingInductive, PTL DEF Spec

(* Once everything has ended at most one version is left, and not that of  *)
(* a failed deployment, but for the cancelled ones and the removals that   *)
(* failed.  About: stop_running_container and failed(), and the jobs of    *)
(* cancelled rows that run on beside the next deployment.                  *)
THEOREM RollingOneVersion == Spec => []OneVersion
<1>1. TypeOK /\ (Serial => IInv) /\ (Serial => VInv) => OneVersion
    <2>1. SUFFICES ASSUME TypeOK, IInv, VInv, Quiet
                   PROVE  /\ \A c, d \in Left : c = d
                          /\ \A j \in Left \cap Jobs : status[j] # "failed"
        BY DEF OneVersion
    <2>2. ASSUME NEW c \in Left
          PROVE  c \in Containers /\ Stray(c)
        BY DEF Left, Stray
    <2>3. ASSUME NEW j \in Left \cap Jobs
          PROVE  status[j] = "finished"
        <3>1. At(j, "done")
            BY <2>1, <2>2 DEF IInv, JobInv, Phase, Quiet, At, Stray, Up
        <3>2. status[j] # "failed"
            BY <2>1, <2>2, <3>1 DEF VInv, SweepInv, Leaving, IInv, JobInv, Phase, At, Removing
        <3>3. status[j] # "in_progress" /\ status[j] # "cancelled"
            BY <2>1, <2>2, <3>1 DEF VInv, SweepInv, Over, At, Stray, Cancelled
        <3>4. status[j] # "none"
            BY <2>1, <3>1 DEF IInv, JobInv, Phase, At
        <3> QED
            BY <2>1, <3>2, <3>3, <3>4 DEF TypeOK, Statuses
    <2>4. \A c \in Left : Reigns(c)
        BY <2>2, <2>3 DEF Reigns, Containers
    <2> QED
        BY <2>1, <2>2, <2>3, <2>4 DEF VInv, OneReigns
<1> QED
    BY <1>1, RollingTypeOK, RollingInductive, VersionsInductive, PTL

-----------------------------------------------------------------------------
(***************************************************************************)
(* The refinement of Release.  What is needed beyond the invariant is that *)
(* an exception ends the job: whoever has met one is in failed() or past   *)
(* it, and a version is discarded only after its row has its verdict.      *)
(***************************************************************************)
Ending == {"failing", "discard", "final", "done"}

Marked == \A j \in Jobs :
    /\ job[j].code # "none" => job[j].pc \in Ending
    /\ At(j, "discard") => status[j] # "in_progress"

(* An exception is met on the way to failed(), and there is no way back.   *)
LEMMA ExceptionEnds ==
    ASSUME TypeOK, NEW j \in Jobs, JobStep(j)
    PROVE  /\ job'[j].code = job[j].code \/ job'[j].pc = "failing"
           /\ job[j].pc \in Ending => job'[j].pc \in Ending \ {"failing"}
           /\ job'[j].pc = "discard" => status'[j] # "in_progress"
<1>0. /\ job \in [Jobs -> JobState] /\ job[j] \in JobState
      /\ status \in [Jobs -> Statuses]
    BY DEF TypeOK
<1>1. \A pc : Goto(j, pc) => job'[j].pc = pc /\ job'[j].code = job[j].code
    BY <1>0 DEF Goto, JobState
<1>2. \A code : Throw(j, code) => job'[j].pc = "failing"
    BY <1>0 DEF Throw, Leave, JobState
<1>3. /\ \A pc : EndCheck(j, pc) => job'[j].pc = pc /\ job'[j].code = job[j].code
      /\ \A D : Doom(j, D) => job'[j].pc = "remove" /\ job'[j].code = job[j].code
    BY <1>0 DEF EndCheck, Doom, JobState
<1> USE DEF At, Ending
<1>4. CASE Begin(j) \/ Redeliver(j)
    BY <1>1, <1>2, <1>4 DEF Begin, Redeliver
<1>5. CASE Start(j) \/ Build(j) \/ Compose(j)
    BY <1>1, <1>2, <1>5 DEF Start, Build, Compose, Command
<1>6. CASE Launch(j) \/ Renew(j) \/ ComposeEnd(j)
    BY <1>1, <1>2, <1>6 DEF Launch, Renew, ComposeEnd
<1>7. CASE HealthCheck(j)
    BY <1>1, <1>2, <1>3, <1>7 DEF HealthCheck, Command, Passed
<1>8. CASE Inspect(j)
    <2>1. CASE job' = [job EXCEPT ![j].pc = "health", ![j].tries = @ + 1]
        BY <1>8, <2>1, AttemptMoves DEF Inspect, Move
    <2> QED
        BY <1>2, <1>3, <1>8, <2>1 DEF Inspect, Passed
<1>9. CASE List(j) \/ RemoveEnd(j)
    BY <1>1, <1>3, <1>9 DEF List, RemoveEnd
<1>10. CASE Reject(j) \/ Complete(j)
    BY <1>1, <1>2, <1>3, <1>10 DEF Reject, Complete
<1>11. CASE Remove(j) \/ Removed(j)
    BY <1>11, LoopMoves DEF Remove, Removed, Move
<1>12. CASE Failed(j)
    <2>1. status'[j] # "in_progress"
        BY <1>0, <1>12 DEF Failed
    <2>2. \E pc \in {"discard", "final", "done"} : Goto(j, pc)
        BY <1>12 DEF Failed, After
    <2> QED
        BY <1>1, <2>1, <2>2
<1>13. CASE Discard(j) \/ Finally(j)
    BY <1>1, <1>13 DEF Discard, Finally, After
<1> QED
    BY <1>4, <1>5, <1>6, <1>7, <1>8, <1>9, <1>10, <1>11, <1>12, <1>13 DEF JobStep

LEMMA MarkedInductive == Spec => []Marked
<1>1. Init => Marked
    BY DEF Init, Marked, At
<1>2. TypeOK /\ Marked /\ [Next]_vars => Marked'
    <2>1. SUFFICES ASSUME TypeOK, Marked, [Next]_vars PROVE Marked'
        OBVIOUS
    <2>2. ASSUME NEW j \in Jobs, JobStep(j) PROVE Marked'
        <3>1. \A k \in Jobs \ {j} : job'[k] = job[k]
            BY <2>1, <2>2, JobStepKind DEF Kind, Leaves, Advances, Starts, Passes,
                Lists, Skips, Stops, Removes, EndsRemoval, Rejects, Discards, Goes
        <3>2. \A k \in Jobs \ {j} : status'[k] = status[k]
            BY <2>1, <2>2, JobStepVerdict DEF TypeOK
        <3>3. job'[j].code # "none" => job'[j].pc \in Ending
            BY <2>1, <2>2, ExceptionEnds DEF Marked, Ending
        <3>4. job'[j].pc = "discard" => status'[j] # "in_progress"
            BY <2>1, <2>2, ExceptionEnds
        <3> QED
            BY <2>1, <3>1, <3>2, <3>3, <3>4 DEF Marked, At
    <2>3. ASSUME NEW j \in Jobs, Request(j) PROVE Marked'
        <3>1. /\ \A k \in Jobs \ {j} : job'[k] = job[k] /\ status'[k] = status[k]
              /\ job'[j].pc = "queued" /\ job'[j].code = job[j].code /\ job[j].pc = "none"
            BY <2>1, <2>3, GotoMoves DEF Request, Move, Labels, At, TypeOK
        <3> QED
            BY <2>1, <3>1 DEF Marked, At, Ending
    <2>4. ASSUME NEW j \in Jobs, Crash(j) PROVE Marked'
        <3>1. job[j].code \in {"none", "cancel", "error", "worker"}
            BY <2>1 DEF TypeOK, JobState
        <3>2. /\ \A k \in Jobs \ {j} : job'[k] = job[k]
              /\ job'[j].pc \in {"lost", "done"} /\ job'[j].code = job[j].code
              /\ job[j].code # "none" => job'[j].pc = "done"
              /\ status' = status
            BY <2>1, <2>4, <3>1, LeaveMoves DEF Crash, Move, Labels
        <3> QED
            BY <2>1, <3>2 DEF Marked, At, Ending
    <2>5. ASSUME NEW j \in Jobs, Cancel(j) PROVE Marked'
        <3>1. job' = job /\ \A k \in Jobs : status'[k] \in {status[k], "cancelled"}
            BY <2>1, <2>5 DEF Cancel, TypeOK
        <3> QED
            BY <2>1, <3>1 DEF Marked, At
    <2>6. CASE \/ \E j \in Jobs : KillHelper(j)
               \/ \E c \in Containers : Examined(c)
               \/ CleanerRead \/ CleanerSweep \/ UNCHANGED vars
        <3>1. UNCHANGED <<job, status>>
            BY <2>6 DEF KillHelper, Examined, CleanerRead, CleanerSweep, vars
        <3> QED
            BY <2>1, <3>1 DEF Marked, At
    <2> QED
        BY <2>1, <2>2, <2>3, <2>4, <2>5, <2>6 DEF Next
<1> QED
    BY <1>1, <1>2, RollingTypeOK, PTL DEF Spec

(***************************************************************************)
(* The sets the abstract specification is told in, under a step of job j.  *)
(***************************************************************************)
LEMMA SetsUnderGoes ==
    ASSUME TypeOK, NEW j \in Jobs, NEW pc, NEW todo, Goes(j, pc, todo),
           job[j].pc # "none", pc # "none"
    PROVE  /\ StopsFirst' = StopsFirst
           /\ (j \in Unstarted <=> j \in Unstarted') => Unstarted' = Unstarted
           /\ j \in Unstarted /\ j \notin Unstarted' => Unstarted' = Unstarted \ {j}
           /\ job'[j].code = job[j].code => Thrown' = Thrown
           /\ (job[j].code # "none" => job'[j].code # "none")
                => Thrown' \in {Thrown, Thrown \cup {j}}
<1>1. \A k \in Jobs \ {j} : job'[k] = job[k]
    BY DEF Goes
<1>2. \A k \in Jobs \ {j} : k \in Unstarted' <=> k \in Unstarted
    BY <1>1 DEF Unstarted
<1>3. \A k \in Jobs \ {j} : k \in Thrown' <=> k \in Thrown
    BY <1>1 DEF Thrown
<1>4. \A k \in Jobs : k \in StopsFirst' <=> k \in StopsFirst
    BY <1>1 DEF StopsFirst, Goes, At
<1>5. /\ Unstarted \subseteq Jobs /\ Unstarted' \subseteq Jobs
      /\ Thrown \subseteq Jobs /\ Thrown' \subseteq Jobs
      /\ StopsFirst \subseteq Jobs /\ StopsFirst' \subseteq Jobs
    BY DEF Unstarted, Thrown, StopsFirst
<1>6. /\ (j \in Unstarted <=> j \in Unstarted') => Unstarted' = Unstarted
      /\ j \in Unstarted /\ j \notin Unstarted' => Unstarted' = Unstarted \ {j}
    BY <1>2, <1>5
<1>7. j \in Thrown <=> job[j].code # "none"
    BY DEF Thrown
<1>8. j \in Thrown' <=> job'[j].code # "none"
    BY DEF Thrown
<1>9. job'[j].code = job[j].code => Thrown' = Thrown
    BY <1>3, <1>5, <1>7, <1>8
<1>10. (job[j].code # "none" => job'[j].code # "none")
            => Thrown' \in {Thrown, Thrown \cup {j}}
    BY <1>3, <1>5, <1>7, <1>8
<1> QED
    BY <1>4, <1>5, <1>6, <1>9, <1>10

(* The versions that run, when one container changes, or none.             *)
LEMMA UpUnderStep ==
    ASSUME TypeOK, NEW c \in Containers
    PROVE  /\ container' = container => UpVersions' = UpVersions
           /\ container' = [container EXCEPT ![c] = "starting"]
                => UpVersions' = UpVersions \cup {c}
           /\ container' = [container EXCEPT ![c] = "none"]
                => UpVersions' = UpVersions \ {c}
<1>1. container \in [Containers -> Health]
    BY DEF TypeOK
<1>2. ASSUME container' = [container EXCEPT ![c] = "starting"]
      PROVE  UpVersions' = UpVersions \cup {c}
    BY <1>1, <1>2 DEF UpVersions, Up
<1>3. ASSUME container' = [container EXCEPT ![c] = "none"]
      PROVE  UpVersions' = UpVersions \ {c}
    BY <1>1, <1>3 DEF UpVersions, Up
<1>4. ASSUME container' = container
      PROVE  UpVersions' = UpVersions
    BY <1>4 DEF UpVersions, Up
<1> QED
    BY <1>2, <1>3, <1>4

(* A version is in the set its deployment's job says.                      *)
LEMMA UnstartedAt ==
    ASSUME NEW j \in Jobs
    PROVE  /\ j \in Unstarted <=>
                \/ job[j].pc \in {"none", "queued", "start", "launch", "build", "up", "upping"}
                \/ job[j].plan = "ports" /\ job[j].pc \in Removing \cup {"list"}
           /\ j \in Unstarted' <=>
                \/ job'[j].pc \in {"none", "queued", "start", "launch", "build", "up", "upping"}
                \/ job'[j].plan = "ports" /\ job'[j].pc \in Removing \cup {"list"}
           /\ j \in Thrown <=> job[j].code # "none"
           /\ j \in StopsFirst <=> job[j].plan = "ports" /\ job[j].pc # "none"
           /\ j \in UpVersions <=> container[j] # "none"
           /\ NoPorts <=> StopsFirst = {}
<1>1. j \in Containers
    BY DEF Containers
<1>2. NoPorts <=> StopsFirst = {}
    BY DEF NoPorts, StopsFirst
<1> QED
    BY <1>1, <1>2 DEF Unstarted, Thrown, StopsFirst, UpVersions, Up, At, Removing

-----------------------------------------------------------------------------
(* The steps, by their kind                                                *)

Refines == Versions!Next \/ UNCHANGED Versions!vars

(* A step that leaves rows, versions and exceptions alone.                 *)
LEMMA StillRefines ==
    ASSUME UNCHANGED <<status, Unstarted, UpVersions, current, Thrown, StopsFirst>>
    PROVE  Refines
BY DEF Refines, Versions!vars

(* A job ends, without a verdict: it has started its version, or never     *)
(* will, or had done so before.                                            *)
LEMMA LeavesRefines ==
    ASSUME TypeOK, \A k \in Jobs : JobInv(k), Marked, NEW j \in Jobs, Leaves(j),
           status' = status, job[j].code # "none" => job'[j].code # "none"
    PROVE  Refines
<1>1. PICK pc \in Out, todo \in {{}, job[j].todo} :
        /\ Goes(j, pc, todo) /\ job[j].pc # "none"
        /\ current' = current
        /\ \/ container' = container
           \/ job[j].pc = "upping" /\ container' = [container EXCEPT ![j] = "starting"]
    BY DEF Leaves
<1>2. pc # "none" /\ job'[j].pc = pc /\ j \in Containers
    BY <1>1 DEF Goes, Out, Containers
<1>3. StopsFirst' = StopsFirst /\ Thrown' \in {Thrown, Thrown \cup {j}}
    BY <1>1, <1>2, SetsUnderGoes
<1>4. j \notin Unstarted'
    BY <1>2, UnstartedAt DEF Out, Removing
<1>5. status[j] # "none"
    BY <1>1 DEF JobInv, Phase, At
<1>6. CASE job[j].pc = "upping" /\ container' = [container EXCEPT ![j] = "starting"]
    <2>1. j \in Unstarted /\ Unstarted' = Unstarted \ {j}
        BY <1>1, <1>2, <1>4, <1>6, SetsUnderGoes, UnstartedAt
    <2>2. UpVersions' = UpVersions \cup {j}
        BY <1>2, <1>6, UpUnderStep
    <2>3. status[j] \in {"in_progress", "cancelled"}
        BY <1>6 DEF JobInv, Phase, Early, Open
    <2>4. j \notin Thrown
        BY <1>6, UnstartedAt DEF Marked, Ending
    <2>5. Versions!Start(j)
        BY <1>1, <1>3, <2>1, <2>2, <2>3, <2>4 DEF Versions!Start, Versions!MayBreak
    <2> QED
        BY <2>5 DEF Refines, Versions!Next
<1>7. CASE container' = container
    <2>1. UpVersions' = UpVersions
        BY <1>2, <1>7, UpUnderStep
    <2>2. CASE j \in Unstarted
        <3>1. Unstarted' = Unstarted \ {j}
            BY <1>1, <1>2, <1>4, <2>2, SetsUnderGoes
        <3>2. Versions!Drop(j)
            BY <1>1, <1>3, <1>5, <2>1, <2>2, <3>1 DEF Versions!Drop, Versions!MayBreak
        <3> QED
            BY <3>2 DEF Refines, Versions!Next
    <2>3. CASE j \notin Unstarted
        <3>1. Unstarted' = Unstarted
            BY <1>1, <1>2, <1>4, <2>3, SetsUnderGoes
        <3>2. CASE Thrown' = Thrown
            BY <1>1, <1>3, <2>1, <3>1, <3>2, StillRefines
        <3>3. CASE Thrown' # Thrown
            <4>1. Thrown' = Thrown \cup {j} /\ j \notin Thrown
                BY <1>3, <3>3
            <4>2. Versions!Break(j)
                BY <1>1, <1>3, <1>5, <2>1, <3>1, <4>1 DEF Versions!Break
            <4> QED
                BY <4>2 DEF Refines, Versions!Next
        <3> QED
            BY <3>2, <3>3
    <2> QED
        BY <2>2, <2>3
<1> QED
    BY <1>1, <1>6, <1>7

(* The verdicts: of a version that runs and is the live one, or of one     *)
(* that was rejected or whose job has met an exception.                    *)
LEMMA VerdictRefines ==
    ASSUME TypeOK, IInv, Marked, Excused, NEW j \in Jobs, JobStep(j), status' # status
    PROVE  Refines
<1>0. job[j].code # "none" => job'[j].code # "none"
    BY ThrowExcused
<1>1. /\ job[j].pc \in {"failing", "reject", "complete"}
      /\ \/ /\ job[j].pc # "complete" /\ status[j] = "in_progress"
            /\ status' = [status EXCEPT ![j] = "failed"]
         \/ /\ job[j].pc = "complete" /\ status[j] = "in_progress"
            /\ status' = [status EXCEPT ![j] = "finished"]
    <2>1. job[j].pc = "reject" /\ ~Cancelled(j) => status[j] = "in_progress"
        BY DEF IInv, JobInv, Phase, Open, Cancelled
    <2> QED
        BY <2>1, JobStepVerdict DEF At
<1>2. Leaves(j) \/ Rejects(j)
    BY JobStepKind DEF Kind, Advances, Starts, Passes, Lists, Skips, Stops, Removes,
        EndsRemoval, Discards
<1>3. /\ container' = container /\ current' = current
      /\ \E pc \in Out \cup {"remove"} : \E todo : Goes(j, pc, todo)
    BY <1>1, <1>2 DEF Leaves, Rejects, SameVersions
<1>4. PICK pc, todo : pc \in Out \cup {"remove"} /\ Goes(j, pc, todo)
    BY <1>3
<1>5. /\ pc # "none" /\ job'[j].pc = pc /\ job'[j].plan = job[j].plan
      /\ job[j].pc # "none" /\ j \in Containers
    BY <1>1, <1>4 DEF Goes, Out, Containers
<1>6. pc = "remove" => job[j].plan # "ports"
    <2>1. CASE Leaves(j)
        BY <1>5, <2>1 DEF Leaves, Goes, Out
    <2>2. CASE Rejects(j)
        BY <2>2 DEF Rejects, IInv, JobInv, Phase
    <2> QED
        BY <1>2, <2>1, <2>2
<1>7. Unstarted' = Unstarted
    <2>1. j \notin Unstarted
        BY <1>1, UnstartedAt DEF Removing
    <2>2. j \notin Unstarted'
        BY <1>4, <1>5, <1>6, UnstartedAt DEF Out, Removing
    <2> QED
        BY <1>4, <1>5, <2>1, <2>2, SetsUnderGoes
<1>8. UpVersions' = UpVersions
    BY <1>3, <1>5, UpUnderStep
<1>9. StopsFirst' = StopsFirst /\ Thrown' \in {Thrown, Thrown \cup {j}}
    BY <1>0, <1>4, <1>5, SetsUnderGoes
<1>10. CASE status' = [status EXCEPT ![j] = "failed"] /\ status[j] = "in_progress"
    <2>1. Versions!Fail(j)
        BY <1>3, <1>7, <1>8, <1>9, <1>10 DEF Versions!Fail, Versions!InProgress,
            Versions!Settle, Versions!MayBreak
    <2> QED
        BY <2>1 DEF Refines, Versions!Next
<1>11. CASE /\ job[j].pc = "complete" /\ status[j] = "in_progress"
            /\ status' = [status EXCEPT ![j] = "finished"]
    <2>1. job[j].plan \in PlanKinds /\ Ready(j) /\ Ahead(j)
        BY DEF TypeOK, JobState, IInv, JobInv
    <2>2. j \in UpVersions
        BY <1>11, <2>1, UnstartedAt DEF Ready, Replacing, PlanKinds, At, Up
    <2>3. current = j \/ j \in StopsFirst
        BY <1>11, <2>1, UnstartedAt DEF Ahead, Replacing
    <2>4. j \notin Thrown
        BY <1>11, UnstartedAt DEF Marked, Ending
    <2>5. Versions!Finish(j)
        BY <1>3, <1>7, <1>8, <1>9, <1>11, <2>2, <2>3, <2>4 DEF Versions!Finish,
            Versions!InProgress, Versions!Settle, Versions!MayBreak
    <2> QED
        BY <2>5 DEF Refines, Versions!Next
<1> QED
    BY <1>1, <1>10, <1>11

(* On the way: no version changes.  A version starts, and one goes live,   *)
(* unless its deployment was cancelled meanwhile.                          *)
LEMMA OnwardRefines ==
    ASSUME TypeOK, IInv, Marked, NEW j \in Jobs, Advances(j) \/ Starts(j) \/ Passes(j),
           job'[j].code = job[j].code \/ job'[j].pc = "failing"
    PROVE  Refines
<1>1. CASE Advances(j)
    <2>1. PICK pc \in Early \cup {"list", "reject"} :
            /\ Goes(j, pc, job[j].todo) /\ status' = status /\ SameVersions
            /\ job[j].pc \in Early
            /\ pc = "list" => job[j].plan = "ports"
            /\ pc \in {"health", "inspect", "reject"} =>
                    \/ job[j].pc = "inspect"
                    \/ job[j].pc = "health" /\ job[j].plan = "checked"
            /\ job[j].pc \in {"health", "inspect"} => pc \in {"health", "inspect", "reject"}
        BY <1>1 DEF Advances
    <2>2. /\ pc # "none" /\ job[j].pc # "none" /\ pc # "failing" /\ job'[j].pc = pc
          /\ job'[j].plan = job[j].plan /\ j \in Containers
        BY <2>1 DEF Goes, Early, Containers
    <2>3. j \in Unstarted <=> j \in Unstarted'
        BY <2>1, <2>2, UnstartedAt DEF Early, Removing
    <2>4. UpVersions' = UpVersions /\ current' = current
        BY <2>1, <2>2, UpUnderStep DEF SameVersions
    <2>5. Unstarted' = Unstarted /\ Thrown' = Thrown /\ StopsFirst' = StopsFirst
        BY <2>1, <2>2, <2>3, SetsUnderGoes
    <2> QED
        BY <2>1, <2>4, <2>5, StillRefines
<1>2. CASE Starts(j)
    <2> DEFINE pc == IF job[j].plan = "ports" THEN "complete" ELSE "health"
    <2>1. /\ job[j].pc = "upping" /\ status' = status /\ Goes(j, pc, job[j].todo)
          /\ container' = [container EXCEPT ![j] = "starting"] /\ current' = current
        BY <1>2 DEF Starts
    <2>2. /\ pc # "none" /\ pc # "failing" /\ job'[j].pc = pc
          /\ job'[j].plan = job[j].plan /\ j \in Containers
        BY <2>1 DEF Goes, Containers
    <2>3. j \in Unstarted /\ j \notin Unstarted'
        BY <2>1, <2>2, UnstartedAt DEF Removing
    <2>4. UpVersions' = UpVersions \cup {j}
        BY <2>1, <2>2, UpUnderStep
    <2>5. Unstarted' = Unstarted \ {j} /\ Thrown' = Thrown /\ StopsFirst' = StopsFirst
        BY <2>1, <2>2, <2>3, SetsUnderGoes
    <2>6. status[j] \in {"in_progress", "cancelled"}
        BY <2>1 DEF IInv, JobInv, Phase, Early, Open
    <2>7. j \notin Thrown
        BY <2>1, UnstartedAt DEF Marked, Ending
    <2>8. Versions!Start(j)
        BY <2>1, <2>3, <2>4, <2>5, <2>6, <2>7 DEF Versions!Start, Versions!MayBreak
    <2> QED
        BY <2>8 DEF Refines, Versions!Next
<1>3. CASE Passes(j)
    <2>1. /\ job[j].pc \in {"health", "inspect"} /\ status' = status
          /\ Goes(j, "list", job[j].todo)
          /\ job[j].pc = "inspect" => container[j] = "healthy"
          /\ job[j].pc = "health" => job[j].plan # "checked"
          /\ container' = container
          /\ current' = IF Cancelled(j) THEN current ELSE j
        BY <1>3 DEF Passes
    <2>2. /\ job'[j].pc = "list" /\ job'[j].plan = job[j].plan /\ j \in Containers
          /\ job[j].plan # "ports" /\ job[j].plan \in PlanKinds
          /\ status[j] \in Open /\ Ready(j) /\ (job[j].pc = "inspect" => job[j].plan = "checked")
        BY <2>1 DEF Goes, Containers, IInv, JobInv, Phase, Early, TypeOK, JobState
    <2>3. j \notin Unstarted /\ j \notin Unstarted'
        BY <2>1, <2>2, UnstartedAt DEF Removing
    <2>4. UpVersions' = UpVersions
        BY <2>1, <2>2, UpUnderStep
    <2>5. Unstarted' = Unstarted /\ Thrown' = Thrown /\ StopsFirst' = StopsFirst
        BY <2>1, <2>2, <2>3, SetsUnderGoes
    <2>6. CASE Cancelled(j)
        BY <2>1, <2>4, <2>5, <2>6, StillRefines
    <2>7. CASE ~Cancelled(j)
        <3>1. status[j] = "in_progress"
            BY <2>2, <2>7 DEF Open, Cancelled
        <3>2. j \in UpVersions
            BY <2>1, <2>2, <3>1, UnstartedAt DEF Ready, PlanKinds, Up
        <3>3. j \notin Thrown /\ j \notin StopsFirst
            BY <2>1, <2>2, UnstartedAt DEF Marked, Ending
        <3>4. Versions!GoLive(j)
            BY <2>1, <2>4, <2>5, <2>7, <3>1, <3>2, <3>3 DEF Versions!GoLive, Versions!InProgress
        <3> QED
            BY <3>4 DEF Refines, Versions!Next
    <2> QED
        BY <2>6, <2>7
<1> QED
    BY <1>1, <1>2, <1>3

(* The removal loop, but for what docker stop and docker rm do.            *)
LEMMA LoopRefines ==
    ASSUME TypeOK, NEW j \in Jobs, Lists(j) \/ Skips(j) \/ Stops(j) \/ EndsRemoval(j),
           job'[j].code = job[j].code \/ job'[j].pc = "failing"
    PROVE  Refines
<1>1. /\ \/ job[j].pc = "list" /\ job'[j].pc = "remove"
         \/ job[j].pc = "remove" /\ job'[j].pc \in Removing
         \/ /\ job[j].pc = "remove"
            /\ job'[j].pc = IF job[j].plan = "ports" THEN "up" ELSE "complete"
      /\ status' = status /\ SameVersions /\ \E pc, todo : Goes(j, pc, todo)
    BY DEF Lists, Skips, Stops, EndsRemoval, Goes, Removing
<1>2. PICK pc, todo : Goes(j, pc, todo)
    BY <1>1
<1>3. pc = job'[j].pc /\ job'[j].plan = job[j].plan /\ j \in Containers
    BY <1>2 DEF Goes, Containers
<1>4. pc # "none" /\ pc # "failing" /\ job[j].pc # "none"
    BY <1>1, <1>3 DEF Removing
<1>5. j \in Unstarted <=> j \in Unstarted'
    BY <1>1, <1>3, UnstartedAt DEF Removing
<1>6. UpVersions' = UpVersions /\ current' = current
    BY <1>1, <1>3, UpUnderStep DEF SameVersions
<1>7. Unstarted' = Unstarted /\ Thrown' = Thrown /\ StopsFirst' = StopsFirst
    BY <1>2, <1>3, <1>4, <1>5, SetsUnderGoes
<1> QED
    BY <1>1, <1>6, <1>7, StillRefines

(* A container is removed: by the list of a job that is entitled to it, or *)
(* by failed() of its own job.                                             *)
LEMMA RetireRefines ==
    ASSUME UNCHANGED <<status, Unstarted, current, Thrown, StopsFirst>>,
           NEW c \in Containers, UpVersions' = UpVersions \ {c},
           c \in Jobs => status[c] # "in_progress",
           c = current => c \in Thrown \/ StopsFirst # {}
    PROVE  Refines
<1>1. CASE c \in UpVersions
    <2>1. Versions!Retire(c)
        BY DEF Versions!Retire, Versions!InProgress
    <2> QED
        BY <1>1, <2>1 DEF Refines, Versions!Next
<1>2. CASE c \notin UpVersions
    <2>1. UpVersions' = UpVersions
        BY <1>2
    <2> QED
        BY <2>1, StillRefines
<1> QED
    BY <1>1, <1>2

LEMMA RemovalRefines ==
    ASSUME TypeOK, IInv, Marked, Excused, NEW j \in Jobs, Removes(j) \/ Discards(j),
           job'[j].code = job[j].code \/ job'[j].pc = "failing"
    PROVE  Refines
<1>1. CASE Removes(j)
    <2> DEFINE c == job[j].cur
    <2>1. /\ job[j].pc = "stopping" /\ status' = status /\ current' = current
          /\ Goes(j, "remove", job[j].todo \ {c})
          /\ container' = [container EXCEPT ![c] = "none"]
        BY <1>1 DEF Removes
    <2>2. job'[j].pc = "remove" /\ job'[j].plan = job[j].plan /\ c \in Containers
        BY <2>1 DEF Goes, TypeOK, JobState
    <2>3. Settled(c) /\ (NoPorts => c # current)
        BY <2>1 DEF IInv, JobInv, Victims
    <2>4. j \in Unstarted <=> j \in Unstarted'
        BY <2>1, <2>2, UnstartedAt DEF Removing
    <2>5. Unstarted' = Unstarted /\ Thrown' = Thrown /\ StopsFirst' = StopsFirst
        BY <2>1, <2>2, <2>4, SetsUnderGoes
    <2>6. UpVersions' = UpVersions \ {c}
        BY <2>1, <2>2, UpUnderStep
    <2>7. c \in Jobs => status[c] # "in_progress"
        BY <2>3, RollingAssumption DEF Settled, Ended
    <2>8. c = current => StopsFirst # {}
        BY <2>3, UnstartedAt
    <2> HIDE DEF c
    <2> QED
        BY <2>1, <2>2, <2>5, <2>6, <2>7, <2>8, RetireRefines
<1>2. CASE Discards(j)
    <2>1. /\ job[j].pc = "discard" /\ status' = status /\ current' = current
          /\ container' = [container EXCEPT ![j] = "none"]
          /\ \E pc \in {"final", "done"} : Goes(j, pc, job[j].todo)
        BY <1>2 DEF Discards
    <2>2. PICK pc \in {"final", "done"} : Goes(j, pc, job[j].todo)
        BY <2>1
    <2>3. job'[j].pc = pc /\ j \in Containers
        BY <2>2 DEF Goes, Containers
    <2>4. j \notin Unstarted /\ j \notin Unstarted'
        BY <2>1, <2>3, UnstartedAt DEF Removing
    <2>5. Unstarted' = Unstarted /\ Thrown' = Thrown /\ StopsFirst' = StopsFirst
        BY <2>1, <2>2, <2>3, <2>4, SetsUnderGoes
    <2>6. UpVersions' = UpVersions \ {j}
        BY <2>1, <2>3, UpUnderStep
    <2>7. status[j] # "in_progress"
        BY <2>1 DEF Marked, At
    <2>8. j \in Thrown
        BY <2>1, UnstartedAt DEF Excused
    <2> QED
        BY <2>1, <2>3, <2>5, <2>6, <2>7, <2>8, RetireRefines
<1> QED
    BY <1>1, <1>2

LEMMA JobStepRefines ==
    ASSUME TypeOK, IInv, Marked, Excused, NEW j \in Jobs, JobStep(j)
    PROVE  Refines
<1>1. job[j].code # "none" => job'[j].code # "none"
    BY ThrowExcused
<1>2. job'[j].code = job[j].code \/ job'[j].pc = "failing"
    BY ExceptionEnds
<1>3. CASE status' # status
    BY <1>3, VerdictRefines
<1>4. CASE status' = status /\ Leaves(j)
    BY <1>1, <1>4, LeavesRefines DEF IInv
<1>5. CASE Advances(j) \/ Starts(j) \/ Passes(j)
    BY <1>2, <1>5, OnwardRefines
<1>6. CASE Lists(j) \/ Skips(j) \/ Stops(j) \/ EndsRemoval(j)
    BY <1>2, <1>6, LoopRefines
<1>7. CASE Removes(j) \/ Discards(j)
    BY <1>2, <1>7, RemovalRefines
<1>8. Rejects(j) => status' # status
    <2>1. Rejects(j) => status[j] \in Open /\ status'[j] = "failed"
        BY DEF Rejects, Verdict, TypeOK, IInv, JobInv, Phase
    <2> QED
        BY <2>1 DEF Open
<1> QED
    BY <1>3, <1>4, <1>5, <1>6, <1>7, <1>8, JobStepKind DEF Kind

(* A deployment begins while no other is in progress.                      *)
LEMMA RequestRefines ==
    ASSUME TypeOK, IInv, Serial, NEW j \in Jobs, Request(j)
    PROVE  Refines
<1>1. /\ Goto(j, "queued") /\ job[j].pc = "none"
      /\ status' = [status EXCEPT ![j] = "in_progress"]
      /\ \A k \in Jobs : status[k] # "in_progress"
      /\ UNCHANGED <<container, current>>
    BY DEF Request, At, Serial, history
<1>2. /\ \A k \in Jobs \ {j} : job'[k] = job[k]
      /\ job'[j].pc = "queued" /\ job'[j].plan = job[j].plan /\ job'[j].code = job[j].code
    BY <1>1, GotoMoves DEF Move, Labels
<1>3. status[j] = "none"
    BY <1>1 DEF IInv, JobInv, Phase, At
<1>4. UpVersions' = UpVersions /\ Thrown' = Thrown
    BY <1>1, <1>2 DEF UpVersions, Up, Thrown
<1>5. Unstarted' = Unstarted
    BY <1>1, <1>2 DEF Unstarted
<1>6. StopsFirst' \in {StopsFirst, StopsFirst \cup {j}}
    BY <1>1, <1>2 DEF StopsFirst, At
<1>7. Versions!Begin(j)
    BY <1>1, <1>3, <1>4, <1>5, <1>6 DEF Versions!Begin, Versions!InProgress, Versions!Settle
<1> QED
    BY <1>7 DEF Refines, Versions!Next

LEMMA CancelRefines ==
    ASSUME NEW j \in Jobs, Cancel(j)
    PROVE  Refines
<1>1. /\ status[j] \notin {"none", "cancelled"}
      /\ status' = [status EXCEPT ![j] = "cancelled"]
      /\ UNCHANGED <<job, container, current>>
    BY DEF Cancel, Ended, history
<1>2. UNCHANGED <<Unstarted, UpVersions, Thrown, StopsFirst>>
    BY <1>1 DEF Unstarted, UpVersions, Up, Thrown, StopsFirst, At
<1>3. Versions!Cancel(j)
    BY <1>1, <1>2 DEF Versions!Cancel, Versions!Settle
<1> QED
    BY <1>3 DEF Refines, Versions!Next

LEMMA CrashRefines ==
    ASSUME TypeOK, IInv, Marked, NEW j \in Jobs, Crash(j)
    PROVE  Refines
<1>1. job[j].code \in {"none", "cancel", "error", "worker"}
    BY DEF TypeOK, JobState
<1>2. job'[j].code = job[j].code
    BY <1>1, LeaveMoves DEF Crash, Move, Labels
<1>3. Leaves(j)
    BY CrashMoves DEF Leaves, Out
<1>4. status' = status
    BY DEF Crash
<1> QED
    BY <1>2, <1>3, <1>4, LeavesRefines DEF IInv

LEMMA NextRefines ==
    ASSUME TypeOK, Serial, IInv, Marked, Excused, [Next]_vars
    PROVE  Refines
<1>1. CASE \E j \in Jobs : JobStep(j)
    BY <1>1, JobStepRefines
<1>2. CASE \E j \in Jobs : Request(j)
    BY <1>2, RequestRefines
<1>3. CASE \E j \in Jobs : Crash(j)
    BY <1>3, CrashRefines
<1>4. CASE \E j \in Jobs : Cancel(j)
    BY <1>4, CancelRefines
<1>5. ASSUME NEW c \in Containers, Examined(c) PROVE Refines
    <2>1. /\ UNCHANGED <<status, job, current>> /\ container[c] # "none"
          /\ \E h \in {"healthy", "unhealthy"} : container' = [container EXCEPT ![c] = h]
        BY <1>5 DEF Examined, history
    <2>2. UpVersions' = UpVersions
        BY <2>1 DEF UpVersions, Up, TypeOK
    <2>3. UNCHANGED <<Unstarted, Thrown, StopsFirst>>
        BY <2>1 DEF Unstarted, Thrown, StopsFirst, At
    <2> QED
        BY <2>1, <2>2, <2>3, StillRefines
<1>6. CASE \/ \E j \in Jobs : KillHelper(j)
           \/ CleanerRead \/ CleanerSweep \/ UNCHANGED vars
    <2>1. UNCHANGED <<status, job, container, current>>
        BY <1>6 DEF KillHelper, CleanerRead, CleanerSweep, vars, history
    <2>2. UNCHANGED <<Unstarted, UpVersions, Thrown, StopsFirst>>
        BY <2>1 DEF Unstarted, UpVersions, Up, Thrown, StopsFirst, At
    <2> QED
        BY <2>1, <2>2, StillRefines
<1> QED
    BY <1>1, <1>2, <1>3, <1>4, <1>5, <1>6 DEF Next

(* As long as one deployment at a time is in progress, the versions go     *)
(* through the life cycle of Release, whatever fails, crashes or is        *)
(* cancelled: none starts twice or comes back, one goes live only while    *)
(* its deployment is in progress, a deployment is finished only with its   *)
(* version live, nobody removes the version of a deployment in progress,   *)
(* and a live one is removed by its own failed() only.  About: everything  *)
(* that starts, passes or removes a container or settles a row.            *)
THEOREM RollingImplementsRelease == Serial => (Spec => ImplementsRelease)
<1>0. SUFFICES ASSUME Serial PROVE Spec => ImplementsRelease
    OBVIOUS
<1>1. Init => Versions!Init
    <2>1. SUFFICES ASSUME Init PROVE Versions!Init
        OBVIOUS
    <2>2. \A j \in Jobs : job[j].pc = "none" /\ job[j].code = "none"
        BY <2>1 DEF Init
    <2>3. Unstarted = Jobs /\ Thrown = {} /\ StopsFirst = {}
        BY <2>2 DEF Unstarted, Thrown, StopsFirst, At
    <2>4. UpVersions = {Old}
        BY <2>1 DEF Init, UpVersions, Up, Containers
    <2> QED
        BY <2>1, <2>3, <2>4 DEF Init, Versions!Init
<1>2. TypeOK /\ (Serial => IInv) /\ Marked /\ Excused /\ [Next]_vars
        => [Versions!Next]_Versions!vars
    BY <1>0, NextRefines DEF Refines
<1> QED
    BY <1>1, <1>2, RollingTypeOK, RollingInductive, MarkedInductive, ExcusedInductive, PTL
        DEF Spec, ImplementsRelease, Versions!Spec

(* What Release says of single versions, in the words of RollingUpdate.    *)
OnlyForward ==
    /\ \A j \in Jobs : status[j] = "in_progress" /\ Up(j) => Up(j)'
    /\ \A j \in Jobs : j \notin Unstarted => j \notin Unstarted' /\ (Up(j)' => Up(j))
    /\ current' # current =>
            current' \in Jobs /\ status[current'] = "in_progress" /\ Up(current')

LEMMA ReleaseForward ==
    ASSUME Refines
    PROVE  OnlyForward
<1>0. /\ \A j \in Jobs : (j \in UpVersions <=> Up(j)) /\ (j \in UpVersions' <=> Up(j)')
      /\ Old \notin Jobs
    BY RollingAssumption DEF UpVersions, Containers
<1> DEFINE Forward ==
        /\ \A j \in Jobs : status[j] = "in_progress" /\ j \in UpVersions => j \in UpVersions'
        /\ \A j \in Jobs : j \notin Unstarted =>
                j \notin Unstarted' /\ (j \in UpVersions' => j \in UpVersions)
        /\ current' # current =>
                current' \in Jobs /\ status[current'] = "in_progress" /\ current' \in UpVersions
<1>1. ASSUME NEW d \in Jobs,
             Versions!Begin(d) \/ Versions!Break(d) \/ Versions!Fail(d) \/ Versions!Cancel(d)
      PROVE  Forward
    BY <1>1 DEF Versions!Begin, Versions!Break, Versions!Fail, Versions!Cancel
<1>2. ASSUME NEW d \in Jobs, Versions!Start(d) \/ Versions!Drop(d)
      PROVE  Forward
    BY <1>2 DEF Versions!Start, Versions!Drop
<1>3. ASSUME NEW d \in Jobs, Versions!GoLive(d) \/ Versions!Finish(d)
      PROVE  Forward
    BY <1>3 DEF Versions!GoLive, Versions!Finish, Versions!InProgress
<1>4. ASSUME NEW c \in UpVersions, Versions!Retire(c)
      PROVE  Forward
    BY <1>4 DEF Versions!Retire, Versions!InProgress
<1>5. ASSUME UNCHANGED Versions!vars
      PROVE  Forward
    <2>1. UpVersions' = UpVersions /\ Unstarted' = Unstarted /\ current' = current
        BY <1>5 DEF Versions!vars
    <2> QED
        BY <2>1
<1> HIDE DEF Forward
<1>6. Forward
    BY <1>1, <1>2, <1>3, <1>4, <1>5 DEF Refines, Versions!Next
<1> QED
    BY <1>0, <1>6 DEF OnlyForward, Forward

(* Whatever fails, crashes or is cancelled, as long as one deployment at a *)
(* time is in progress: the version of one in progress is removed by       *)
(* nobody, a version that is gone, or was given up before it started,      *)
(* never runs again, and the live version changes only to one that runs    *)
(* and whose deployment is in progress.  About: the lists, redeliveries    *)
(* and late health checks of the jobs that are left behind.                *)
THEOREM VersionsMoveOn == Serial => (Spec => [][OnlyForward]_vars)
<1>0. SUFFICES ASSUME Serial PROVE Spec => [][OnlyForward]_vars
    OBVIOUS
<1>1. TypeOK /\ (Serial => IInv) /\ Marked /\ Excused /\ [Next]_vars => [OnlyForward]_vars
    BY <1>0, NextRefines, ReleaseForward
<1> QED
    BY <1>1, RollingTypeOK, RollingInductive, MarkedInductive, ExcusedInductive, PTL DEF Spec
=============================================================================
