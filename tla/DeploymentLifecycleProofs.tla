---------------------- MODULE DeploymentLifecycleProofs ----------------------
(***************************************************************************)
(* DeploymentQueue implements DeploymentLifecycle, for every value of its  *)
(* constants: its initial states map to initial states, and every step     *)
(* maps to a step or a stutter.                                            *)
(***************************************************************************)
EXTENDS DeploymentQueueProofs

(* A job was dispatched for row d: it waits, will come back, runs, or is   *)
(* about to be sent.                                                       *)
HasJob(d) ==
    \/ jobs[d] > 0 \/ lost[d] > 0
    \/ \E a \in Actors : \/ at[a].own = d
                         \/ at[a].cur = d /\ at[a].pc = "dispatch"

(* A row with a job has been put in progress, and was never queued again.  *)
JobsOfStarted == \A d \in Deployments : HasJob(d) => status[d] \notin {"none", "queued"}

(* Every dispatch follows an update to in_progress by the same process,    *)
(* and only the insert writes queued: a job is never one of a row that     *)
(* still waits its turn.                                                   *)
LEMMA JobsOfStartedRows == Spec => []JobsOfStarted
<1>1. Init => JobsOfStarted
  BY Facts DEF Init, JobsOfStarted, HasJob, Idle
<1>2. TypeOK /\ JobsOfStarted /\ [Next]_vars => JobsOfStarted'
  <2> SUFFICES ASSUME TypeOK, JobsOfStarted, [Next]_vars,
                      NEW d \in Deployments, HasJob(d)'
               PROVE  status'[d] \notin {"none", "queued"}
    BY DEF JobsOfStarted
  <2>0. /\ status \in [Deployments -> Statuses]
        /\ jobs \in [Deployments -> Nat] /\ lost \in [Deployments -> Nat]
        /\ at \in [Actors -> ActorState]
        /\ HasJob(d) => status[d] \notin {"none", "queued"}
        /\ d # 0 /\ HasJob(d)'
    BY Facts DEF TypeOK, JobsOfStarted
  <2>1. ASSUME NEW a \in Actors, CreateRow(a) PROVE status'[d] \notin {"none", "queued"}
    BY <2>0, <2>1 DEF CreateRow, HasJob, Actors, ActorState, Idle, Rows
  <2>2. ASSUME NEW a \in Actors, Decide(a) PROVE status'[d] \notin {"none", "queued"}
    BY <2>0, <2>2 DEF Decide, HasJob, Actors, ActorState, Idle
  <2>3. ASSUME NEW a \in Actors, Promote(a) PROVE status'[d] \notin {"none", "queued"}
    <3>1. /\ UNCHANGED <<jobs, lost>>
          /\ status' = [status EXCEPT ![at[a].cur] = "in_progress"]
          /\ \A b \in Actors \ {a} : at'[b] = at[b]
          /\ at'[a].cur = at[a].cur /\ at'[a].own = at[a].own
      BY <2>0, <2>3 DEF Promote, ActorState
    <3>2. HasJob(d) \/ at[a].cur = d
      BY <2>0, <3>1, SMTT(40) DEF HasJob
    <3> QED
      BY <2>0, <3>1, <3>2
  <2>4. ASSUME NEW a \in Actors, Dispatch(a) PROVE status'[d] \notin {"none", "queued"}
    <3>1. /\ UNCHANGED <<status, lost>> /\ jobs' = [jobs EXCEPT ![at[a].cur] = @ + 1]
          /\ \A b \in Actors \ {a} : at'[b] = at[b]
          /\ at'[a].cur = 0 /\ at'[a].own = at[a].own /\ at[a].pc = "dispatch"
      BY <2>0, <2>4, DispatchChanges DEF TypeOK
    <3>2. CASE at[a].cur = d
      BY <2>0, <3>1, <3>2 DEF HasJob
    <3>3. CASE at[a].cur # d
      <4>1. jobs'[d] = jobs[d]
        BY <2>0, <3>1, <3>3
      <4>2. HasJob(d)
        BY <2>0, <3>1, <4>1, SMTT(40) DEF HasJob
      <4> QED
        BY <2>0, <3>1, <4>2
    <3> QED
      BY <3>2, <3>3
  <2>5. ASSUME NEW a \in Actors, ScanRow(a) PROVE status'[d] \notin {"none", "queued"}
    <3>1. PICK e \in at[a].todo :
            /\ at[a].pc = "scan"
            /\ at' = IF next_queuable(row[e])
                     THEN [at EXCEPT ![a].todo = @ \ {e}, ![a].cur = e, ![a].pc = "promote"]
                     ELSE [at EXCEPT ![a].todo = @ \ {e}]
      BY <2>5, Zenon DEF ScanRow
    <3>2. status' = status /\ jobs' = jobs /\ lost' = lost
      BY <2>5, Zenon DEF ScanRow
    <3>3. \A b \in Actors \ {a} : at'[b] = at[b]
      BY <2>0, <3>1
    <3>4. at'[a].pc # "dispatch" /\ at'[a].own = at[a].own
      BY <2>0, <3>1 DEF ActorState
    <3>5. HasJob(d)
      BY <2>0, <3>2, <3>3, <3>4 DEF HasJob
    <3> QED
      BY <2>0, <3>2, <3>5
  <2>6. ASSUME NEW a \in Actors, ScanEnd(a) PROVE status'[d] \notin {"none", "queued"}
    BY <2>0, <2>6 DEF ScanEnd, HasJob, Actors, ActorState, Idle
  <2>7. ASSUME NEW a \in Actors, Crash(a) PROVE status'[d] \notin {"none", "queued"}
    <3>1. /\ status' = status /\ jobs' = jobs
          /\ lost'[d] = lost[d] + IF Reserved(a, d) THEN 1 ELSE 0
          /\ \A b \in Actors \ {a} : at'[b] = at[b]
          /\ at'[a] = Idle
      BY <2>0, <2>7 DEF Crash
    <3>2. Reserved(a, d) => HasJob(d)
      BY DEF Reserved, HasJob
    <3>3. HasJob(d)
      BY <2>0, <3>1, <3>2 DEF HasJob, Idle
    <3> QED
      BY <2>0, <3>1, <3>3
  <2>8. ASSUME NEW w \in Workers, Reserve(w) PROVE status'[d] \notin {"none", "queued"}
    BY <2>0, <2>8 DEF Reserve, HasJob, Actors, ActorState, Idle
  <2>9. ASSUME NEW w \in Workers, Redeliver(w) PROVE status'[d] \notin {"none", "queued"}
    BY <2>0, <2>9 DEF Redeliver, HasJob, Actors, ActorState, Idle
  <2>10. ASSUME NEW w \in Workers, Start(w) PROVE status'[d] \notin {"none", "queued"}
    BY <2>0, <2>10 DEF Start, HasJob, Actors, ActorState, Idle
  <2>11. ASSUME NEW w \in Workers, Claim(w) PROVE status'[d] \notin {"none", "queued"}
    BY <2>0, <2>11 DEF Claim, HasJob, Actors, ActorState, Idle
  <2>12. ASSUME NEW w \in Workers, Work(w) PROVE status'[d] \notin {"none", "queued"}
    BY <2>0, <2>12, SMTT(60) DEF Work, HasJob, Actors, ActorState, Idle
  <2>13. ASSUME NEW w \in Workers, Settle(w) PROVE status'[d] \notin {"none", "queued"}
    BY <2>0, <2>13 DEF Settle, HasJob, Actors, ActorState, Idle
  <2>14. ASSUME NEW w \in Workers, WriteStatus(w) PROVE status'[d] \notin {"none", "queued"}
    BY <2>0, <2>14 DEF WriteStatus, HasJob, Actors, ActorState, Idle, Verdict
  <2>15. ASSUME NEW w \in Workers, FanOutOne(w) PROVE status'[d] \notin {"none", "queued"}
    <3>1. /\ UNCHANGED <<status, jobs, lost>>
          /\ w \in Actors /\ \A b \in Actors \ {w} : at'[b] = at[b]
      BY <2>0, <2>15 DEF FanOutOne, Actors
    <3>2. at'[w].pc # "dispatch" /\ at'[w].own = at[w].own
      BY <2>0, <2>15, <3>1 DEF FanOutOne, ActorState
    <3>3. HasJob(d)
      BY <2>0, <3>1, <3>2 DEF HasJob
    <3> QED
      BY <2>0, <3>1, <3>3
  <2>16. ASSUME NEW w \in Workers, QueueNext(w) PROVE status'[d] \notin {"none", "queued"}
    BY <2>0, <2>16 DEF QueueNext, HasJob, Actors, ActorState, Idle
  <2>17. ASSUME NEW w \in Workers, EffectsThrow(w) PROVE status'[d] \notin {"none", "queued"}
    BY <2>0, <2>17 DEF EffectsThrow, HasJob, Actors, ActorState, Idle
  <2>18. ASSUME NEW c \in Clients, NextAfterCancel(c) PROVE status'[d] \notin {"none", "queued"}
    BY <2>0, <2>18 DEF NextAfterCancel, HasJob, Actors, ActorState, Idle
  <2>19. ASSUME NEW c \in Clients, ApiCancelWrite(c) PROVE status'[d] \notin {"none", "queued"}
    BY <2>0, <2>19 DEF ApiCancelWrite, HasJob, Actors, ActorState, Idle
  <2>20. ASSUME NEW c \in Clients, SweepOne(c) PROVE status'[d] \notin {"none", "queued"}
    BY <2>0, <2>20 DEF SweepOne, HasJob, Actors, ActorState, Idle, Verdict
  <2>21. ASSUME NEW c \in Clients, RequestDeployment(c) PROVE status'[d] \notin {"none", "queued"}
    BY <2>0, <2>21 DEF RequestDeployment, HasJob, Actors, ActorState, Idle
  <2>22. ASSUME NEW c \in Clients, OpenDeployment(c) PROVE status'[d] \notin {"none", "queued"}
    BY <2>0, <2>22 DEF OpenDeployment, HasJob, Actors, ActorState, Idle
  <2>23. ASSUME NEW c \in Clients, ForceStart(c) PROVE status'[d] \notin {"none", "queued"}
    BY <2>0, <2>23 DEF ForceStart, HasJob, Actors, ActorState, Idle
  <2>24. ASSUME NEW c \in Clients, CancelClick(c) PROVE status'[d] \notin {"none", "queued"}
    BY <2>0, <2>24 DEF CancelClick, HasJob, Actors, ActorState, Idle
  <2>25. ASSUME NEW c \in Clients, LeavePage(c) PROVE status'[d] \notin {"none", "queued"}
    BY <2>0, <2>25 DEF LeavePage, HasJob, Actors, ActorState, Idle
  <2>26. ASSUME NEW c \in Clients, ApiCancelTest(c) PROVE status'[d] \notin {"none", "queued"}
    BY <2>0, <2>26 DEF ApiCancelTest, HasJob, Actors, ActorState, Idle
  <2>27. ASSUME NEW c \in Clients, SweepBegin(c) PROVE status'[d] \notin {"none", "queued"}
    BY <2>0, <2>27 DEF SweepBegin, HasJob, Actors, ActorState, Idle
  <2>28. CASE Restart
    <3>1. /\ status'[d] = IF status[d] \in Active THEN "failed" ELSE status[d]
          /\ jobs' = jobs /\ lost'[d] = lost[d] + Cardinality({a \in Actors : Reserved(a, d)})
          /\ \A a \in Actors : at'[a] = Idle
      BY <2>0, <2>28 DEF Restart
    <3>2. {a \in Actors : Reserved(a, d)} = {} => lost'[d] = lost[d]
      BY <2>0, <3>1, FS_EmptySet, SMTT(60)
    <3>3. {a \in Actors : Reserved(a, d)} # {} => HasJob(d)
      BY DEF Reserved, HasJob
    <3>4. lost'[d] > 0 \/ jobs'[d] > 0
      BY <2>0, <3>1 DEF HasJob, Idle
    <3>5. HasJob(d)
      BY <2>0, <3>1, <3>2, <3>3, <3>4 DEF HasJob
    <3> QED
      BY <2>0, <3>1, <3>5 DEF Active, Statuses
  <2>29. CASE UNCHANGED vars
    BY <2>0, <2>29 DEF vars, HasJob
  <2> QED
    BY <2>1, <2>2, <2>3, <2>4, <2>5, <2>6, <2>7, <2>8, <2>9, <2>10, <2>11, <2>12, <2>13, <2>14, <2>15, <2>16, <2>17, <2>18, <2>19, <2>20, <2>21, <2>22, <2>23, <2>24, <2>25, <2>26, <2>27, <2>28, <2>29 DEF Next, Helper, WorkerStep, ClientStep, ClientChoice
<1>3. QED
  BY <1>1, <1>2, TypeCorrect, PTL DEF Spec

-----------------------------------------------------------------------------

(* One row under the mapping. *)
Mapped(d) ==
    \/ status[d] = "none" /\ status'[d] = "queued" /\ Held(d)'
    \/ status[d] \notin {"none", "cancelled"} /\ status'[d] = status[d] /\ Held(d)'
    \/ Held(d) /\ status'[d] = status[d] /\ ~Held(d)'
    \/ Held(d) /\ status[d] # "none" /\ status'[d] \in {"in_progress", "failed"}
    \/ /\ Held(d) /\ status[d] \notin {"none", "queued"}
       /\ status'[d] = "finished" /\ (Held(d)' => Held(d))
    \/ status[d] # "none" /\ status'[d] = "cancelled" /\ (Held(d)' => Held(d))
    \/ status[d] \in {"queued", "in_progress"} /\ status'[d] = "failed" /\ ~Held(d)'
    \/ status'[d] = status[d] /\ (Held(d)' <=> Held(d))

LEMMA MappedIsStep ==
    ASSUME NEW d \in Deployments, Mapped(d) PROVE Lifecycle!RowStep(d)
  BY DEF Mapped, Lifecycle!RowStep, Lifecycle!Insert, Lifecycle!Hold, Lifecycle!Release,
         Lifecycle!Move, Lifecycle!Finish, Lifecycle!Cancel, Lifecycle!Abandon,
         Lifecycle!Stays, Lifecycle!Drops

(* A step that writes no status of row d and takes hold of d only as a     *)
(* snapshot or a job may.                                                  *)
LEMMA Reads ==
    ASSUME NEW a \in Actors, NEW d \in Deployments,
           \A b \in Actors \ {a} : at'[b] = at[b],
           status'[d] = status[d],
           Holds(a, d)' => Holds(a, d) \/ status[d] \notin {"none", "cancelled"}
    PROVE  Mapped(d)
<1>1. /\ Held(d)' => Held(d) \/ Holds(a, d)'
      /\ Holds(a, d) => Held(d)
  BY OneActor
<1>2. status'[d] = status[d]
  OBVIOUS
<1>3. Holds(a, d)' => Holds(a, d) \/ status[d] \notin {"none", "cancelled"}
  OBVIOUS
<1>4. CASE Held(d)' /\ ~Held(d)
  BY <1>1, <1>2, <1>3, <1>4 DEF Mapped
<1>5. CASE Held(d) /\ ~Held(d)'
  BY <1>2, <1>5 DEF Mapped
<1>6. CASE Held(d)' <=> Held(d)
  BY <1>2, <1>6 DEF Mapped
<1> QED
  BY <1>4, <1>5, <1>6

(* Every writer of the status column moves its row as the life cycle says, *)
(* and leaves the others alone.                                            *)
LEMMA EveryRowMoves ==
    ASSUME TypeOK, JobsOfStarted, References, Next, NEW d \in Deployments
    PROVE  Mapped(d)
<1>0. /\ status \in [Deployments -> Statuses]
      /\ at \in [Actors -> ActorState]
      /\ \A a \in Actors : Refers(a) \subseteq Rows
      /\ d # 0 /\ Busy
      /\ HasJob(d) => status[d] \notin {"none", "queued"}
  BY Facts, SMTT(60) DEF TypeOK, JobsOfStarted, Busy, References
<1>1. ASSUME NEW a \in Actors, CreateRow(a) PROVE Mapped(d)
  <2>1. PICK e \in Deployments \ Rows :
          /\ at[a].pc = "create"
          /\ status' = [status EXCEPT ![e] = "queued"]
          /\ at' = [at EXCEPT ![a].pc = "decide", ![a].cur = e]
    BY <1>1, Zenon DEF CreateRow
  <2>2. \A b \in Actors \ {a} : at'[b] = at[b]
    BY <1>0, <2>1
  <2>3. /\ at'[a].pc = "decide" /\ at'[a].cur = e
        /\ at'[a].own = at[a].own /\ at'[a].todo = at[a].todo
    BY <1>0, <2>1 DEF ActorState
  <2>4. CASE d = e
    <3>1. status[d] = "none" /\ status'[d] = "queued"
      BY <1>0, <2>1, <2>4 DEF Rows
    <3>2. Holds(a, d)'
      BY <2>3, <2>4 DEF Holds
    <3> QED
      BY <2>2, <3>1, <3>2, OneActor DEF Mapped
  <2>5. CASE d # e
    <3>1. status'[d] = status[d]
      BY <1>0, <2>1, <2>5
    <3>2. Holds(a, d)' => Holds(a, d)
      BY <2>1, <2>3, <2>5 DEF Holds
    <3> QED
      BY <2>2, <3>1, <3>2, Reads
  <2> QED
    BY <2>4, <2>5
<1>2. ASSUME NEW a \in Actors, Decide(a) PROVE Mapped(d)
  <2>1. a \in Actors /\ \A b \in Actors \ {a} : at'[b] = at[b]
    BY <1>0, <1>2 DEF Decide, Actors
  <2>2. status'[d] = status[d]
    BY <1>2 DEF Decide
  <2>3. Holds(a, d)' => Holds(a, d)
    BY <1>0, <1>2, <2>1 DEF Decide, Holds, ActorState, Idle
  <2> QED
    BY <2>1, <2>2, <2>3, Reads
<1>3. ASSUME NEW a \in Actors, Promote(a) PROVE Mapped(d)
  <2>1. a \in Actors /\ \A b \in Actors \ {a} : at'[b] = at[b]
    BY <1>0, <1>3 DEF Promote, Actors
  <2>2. \/ /\ status'[d] = status[d] /\ (Holds(a, d)' <=> Holds(a, d))
        \/ Holds(a, d) /\ status[d] # "none" /\ status'[d] = "in_progress"
    BY <1>0, <1>3, <2>1, SMTT(40) DEF Promote, Holds, ActorState, Refers, Rows
  <2> QED
    BY <1>0, <2>1, <2>2, OneActor, Zenon DEF Mapped
<1>4. ASSUME NEW a \in Actors, Dispatch(a) PROVE Mapped(d)
  <2>1. a \in Actors /\ \A b \in Actors \ {a} : at'[b] = at[b]
    BY <1>0, <1>4 DEF Dispatch, Actors
  <2>2. /\ status'[d] = status[d]
        /\ Holds(a, d)' <=> Holds(a, d)
    BY <1>0, <1>4, DispatchChanges, SMTT(40) DEF Holds
  <2> QED
    BY <1>0, <2>1, <2>2, OneActor, ZenonT(60) DEF Mapped
<1>5. ASSUME NEW a \in Actors, ScanRow(a) PROVE Mapped(d)
  <2>1. PICK e \in at[a].todo :
          /\ at[a].pc = "scan"
          /\ at' = IF next_queuable(row[e])
                   THEN [at EXCEPT ![a].todo = @ \ {e}, ![a].cur = e, ![a].pc = "promote"]
                   ELSE [at EXCEPT ![a].todo = @ \ {e}]
    BY <1>5, Zenon DEF ScanRow
  <2>2. status' = status
    BY <1>5, Zenon DEF ScanRow
  <2>3. \A b \in Actors \ {a} : at'[b] = at[b]
    BY <1>0, <2>1
  <2>4. at'[a].todo = at[a].todo \ {e} /\ at'[a].own = at[a].own
    BY <1>0, <2>1 DEF ActorState
  <2>5. \/ at'[a].pc = "promote" /\ at'[a].cur = e
        \/ at'[a].pc = "scan"
    BY <1>0, <2>1 DEF ActorState
  <2>6. Holds(a, d)' => Holds(a, d)
    BY <2>1, <2>4, <2>5 DEF Holds
  <2> QED
    BY <2>2, <2>3, <2>6, Reads
<1>6. ASSUME NEW a \in Actors, ScanEnd(a) PROVE Mapped(d)
  <2>1. a \in Actors /\ \A b \in Actors \ {a} : at'[b] = at[b]
    BY <1>0, <1>6 DEF ScanEnd, Actors
  <2>2. status'[d] = status[d]
    BY <1>6 DEF ScanEnd
  <2>3. Holds(a, d)' => Holds(a, d)
    BY <1>0, <1>6, <2>1 DEF ScanEnd, Holds, ActorState, Idle
  <2> QED
    BY <2>1, <2>2, <2>3, Reads
<1>7. ASSUME NEW a \in Actors, Crash(a) PROVE Mapped(d)
  BY <1>0, <1>7 DEF Crash, Mapped, Held, Actors, ActorState, Idle, Busy
<1>8. ASSUME NEW w \in Workers, Reserve(w) PROVE Mapped(d)
  <2>1. w \in Actors /\ \A b \in Actors \ {w} : at'[b] = at[b]
    BY <1>0, <1>8 DEF Reserve, Actors
  <2>2. status'[d] = status[d]
    BY <1>8 DEF Reserve
  <2>3. Holds(w, d)' => Holds(w, d)
    BY <1>0, <1>8, <2>1 DEF Reserve, Holds, ActorState, Idle
  <2> QED
    BY <2>1, <2>2, <2>3, Reads
<1>9. ASSUME NEW w \in Workers, Redeliver(w) PROVE Mapped(d)
  <2>1. w \in Actors /\ \A b \in Actors \ {w} : at'[b] = at[b]
    BY <1>0, <1>9 DEF Redeliver, Actors
  <2>2. status'[d] = status[d]
    BY <1>9 DEF Redeliver
  <2>3. Holds(w, d)' => Holds(w, d)
    BY <1>0, <1>9, <2>1 DEF Redeliver, Holds, ActorState, Idle
  <2> QED
    BY <2>1, <2>2, <2>3, Reads
<1>10. ASSUME NEW w \in Workers, Start(w) PROVE Mapped(d)
  <2>1. w \in Actors /\ \A b \in Actors \ {w} : at'[b] = at[b]
    BY <1>0, <1>10 DEF Start, Actors
  <2>2. /\ status'[d] = status[d]
        /\ Holds(w, d)' => status[d] \notin {"none", "cancelled"} \/ Holds(w, d)
    BY <1>0, <1>10, <2>1, SMTT(40) DEF Start, Holds, ActorState, Refers, Rows, Idle
  <2> QED
    BY <1>0, <2>1, <2>2, OneActor, Zenon DEF Mapped
<1>11. ASSUME NEW w \in Workers, Claim(w) PROVE Mapped(d)
  <2>1. w \in Actors /\ \A b \in Actors \ {w} : at'[b] = at[b]
    BY <1>0, <1>11 DEF Claim, Actors
  <2>2. \/ /\ status'[d] = status[d] /\ (Holds(w, d)' <=> Holds(w, d))
        \/ Holds(w, d) /\ status[d] # "none" /\ status'[d] = "in_progress"
    BY <1>0, <1>11, <2>1, SMTT(40) DEF Claim, Holds, ActorState, Refers, Rows
  <2> QED
    BY <1>0, <2>1, <2>2, OneActor, Zenon DEF Mapped
<1>12. ASSUME NEW w \in Workers, Work(w) PROVE Mapped(d)
  <2>1. w \in Actors /\ \A b \in Actors \ {w} : at'[b] = at[b]
    BY <1>0, <1>12 DEF Work, Actors
  <2>2. status'[d] = status[d]
    BY <1>12 DEF Work
  <2>3. Holds(w, d)' => Holds(w, d)
    BY <1>0, <1>12, <2>1 DEF Work, Holds, ActorState, Idle
  <2> QED
    BY <2>1, <2>2, <2>3, Reads
<1>13. ASSUME NEW w \in Workers, Settle(w) PROVE Mapped(d)
  <2>1. w \in Actors /\ \A b \in Actors \ {w} : at'[b] = at[b]
    BY <1>0, <1>13 DEF Settle, Actors
  <2>2. /\ status'[d] = status[d]
        /\ Holds(w, d)' => status[d] \notin {"none", "cancelled"} \/ Holds(w, d)
    BY <1>0, <1>13, <2>1, SMTT(40) DEF Settle, Holds, ActorState, Refers, Rows, Idle, Terminal
  <2> QED
    BY <1>0, <2>1, <2>2, OneActor, Zenon DEF Mapped
<1>14. ASSUME NEW w \in Workers, WriteStatus(w) PROVE Mapped(d)
  <2>1. w \in Actors /\ \A b \in Actors \ {w} : at'[b] = at[b]
    BY <1>0, <1>14 DEF WriteStatus, Actors
  <2>2. /\ at[w].pc = "write" /\ at'[w].pc = "effects"
        /\ at'[w].own = at[w].own /\ at'[w].cur = at[w].cur /\ at'[w].todo = at[w].todo
    BY <1>0, <1>14, <2>1 DEF WriteStatus, ActorState
  <2>3. status' = [status EXCEPT ![at[w].own] = Verdict(at[w].goal)]
    BY <1>14 DEF WriteStatus
  <2>4. Holds(w, d)' => Holds(w, d)
    BY <2>2 DEF Holds
  <2>5. CASE at[w].own = d
    <3>1. Holds(w, d)
      BY <2>2, <2>5 DEF Holds
    <3>2. status[d] \notin {"none", "queued"}
      BY <1>0, <2>1, <2>5 DEF HasJob
    <3>3. status'[d] \in {"finished", "failed", "cancelled"}
      BY <1>0, <2>3, <2>5 DEF Verdict
    <3>4. Held(d)
      BY <2>1, <3>1, OneActor
    <3> QED
      BY <3>2, <3>3, <3>4 DEF Mapped
  <2>6. CASE at[w].own # d
    <3>1. status'[d] = status[d]
      BY <1>0, <2>3, <2>6
    <3> QED
      BY <2>1, <2>4, <3>1, Reads
  <2> QED
    BY <2>5, <2>6
<1>15. ASSUME NEW w \in Workers, FanOutOne(w) PROVE Mapped(d)
  <2>1. w \in Actors /\ \A b \in Actors \ {w} : at'[b] = at[b]
    BY <1>0, <1>15 DEF FanOutOne, Actors
  <2>2. status'[d] = status[d]
    BY <1>15 DEF FanOutOne
  <2>3. Holds(w, d)' => Holds(w, d)
    BY <1>0, <1>15, <2>1 DEF FanOutOne, Holds, ActorState, Idle
  <2> QED
    BY <2>1, <2>2, <2>3, Reads
<1>16. ASSUME NEW w \in Workers, QueueNext(w) PROVE Mapped(d)
  <2>1. w \in Actors /\ \A b \in Actors \ {w} : at'[b] = at[b]
    BY <1>0, <1>16 DEF QueueNext, Actors
  <2>2. status'[d] = status[d]
    BY <1>16 DEF QueueNext
  <2>3. Holds(w, d)' => Holds(w, d) \/ status[d] \notin {"none", "cancelled"}
    BY <1>0, <1>16, <2>1 DEF QueueNext, Holds, ActorState, Idle, Snapshot, On
  <2> QED
    BY <2>1, <2>2, <2>3, Reads
<1>17. ASSUME NEW w \in Workers, EffectsThrow(w) PROVE Mapped(d)
  <2>1. w \in Actors /\ \A b \in Actors \ {w} : at'[b] = at[b]
    BY <1>0, <1>17 DEF EffectsThrow, Actors
  <2>2. status'[d] = status[d]
    BY <1>17 DEF EffectsThrow
  <2>3. Holds(w, d)' => Holds(w, d)
    BY <1>0, <1>17, <2>1 DEF EffectsThrow, Holds, ActorState, Idle
  <2> QED
    BY <2>1, <2>2, <2>3, Reads
<1>18. ASSUME NEW c \in Clients, NextAfterCancel(c) PROVE Mapped(d)
  <2>1. c \in Actors /\ \A b \in Actors \ {c} : at'[b] = at[b]
    BY <1>0, <1>18 DEF NextAfterCancel, Actors
  <2>2. /\ status'[d] = status[d]
        /\ Holds(c, d)' => status[d] \notin {"none", "cancelled"}
    <3>1. PICK s : at' = [at EXCEPT ![c].pc = "scan", ![c].todo = Snapshot(s), ![c].cur = 0]
      BY <1>18 DEF NextAfterCancel
    <3>2. d \in Snapshot(s) => status[d] = "queued"
      BY DEF Snapshot, On
    <3>3. at'[c].cur = 0 /\ at'[c].pc = "scan" /\ at'[c].todo = Snapshot(s)
      BY <1>0, <2>1, <3>1 DEF ActorState
    <3>4. status' = status
      BY <1>18 DEF NextAfterCancel
    <3> QED
      BY <1>0, <3>2, <3>3, <3>4 DEF Holds
  <2> QED
    BY <1>0, <2>1, <2>2, OneActor, Zenon DEF Mapped
<1>19. ASSUME NEW c \in Clients, ApiCancelWrite(c) PROVE Mapped(d)
  <2>1. c \in Actors /\ \A b \in Actors \ {c} : at'[b] = at[b]
    BY <1>0, <1>19 DEF ApiCancelWrite, Actors
  <2>2. /\ ~Holds(c, d)'
        /\ \/ status'[d] = status[d]
           \/ status[d] # "none" /\ status'[d] = "cancelled"
    BY <1>0, <1>19, <2>1, SMTT(40) DEF ApiCancelWrite, Holds, ActorState, Refers, Rows, Idle, Busy
  <2> QED
    BY <1>0, <2>1, <2>2, OneActor, Zenon DEF Mapped
<1>20. ASSUME NEW c \in Clients, SweepOne(c) PROVE Mapped(d)
  <2>1. c \in Actors /\ \A b \in Actors \ {c} : at'[b] = at[b]
    BY <1>0, <1>20 DEF SweepOne, Actors
  <2>2. \/ /\ status'[d] = status[d]
           /\ Holds(c, d)' => Holds(c, d)
        \/ /\ status[d] # "none" /\ Holds(c, d)
           /\ status'[d] = "failed"
        \/ /\ status[d] # "none" /\ status'[d] = "cancelled"
           /\ Holds(c, d)' => Holds(c, d)
    <3>1. PICK e \in at[c].todo :
            /\ at[c].pc = "sweep"
            /\ status' = [status EXCEPT ![e] = Verdict(at[c].goal)]
            /\ at' = IF at[c].todo = {e} THEN [at EXCEPT ![c] = Idle]
                     ELSE [at EXCEPT ![c].todo = @ \ {e}]
      BY <1>20, Zenon DEF SweepOne
    <3>2. /\ at[c] \in ActorState /\ at[c].todo \subseteq Deployments
          /\ e \in Deployments /\ status[e] # "none" /\ at[c].goal # "complete"
      <4>1. at[c] \in ActorState /\ e \in Refers(c) /\ at[c].todo \subseteq Deployments
        BY <1>0, <2>1, <3>1 DEF Refers, ActorState
      <4>2. at[c].goal # "complete"
        BY <1>0, <2>1, <3>1 DEF Busy
      <4> QED
        BY <1>0, <2>1, <4>1, <4>2 DEF Rows
    <3>3. Holds(c, d)' => Holds(c, d)
      BY <1>0, <2>1, <3>1, <3>2, SMTT(40) DEF Holds, Idle, ActorState
    <3>4. CASE d = e
      BY <1>0, <3>1, <3>2, <3>3, <3>4 DEF Holds, Verdict
    <3>5. CASE d # e
      BY <1>0, <3>1, <3>2, <3>3, <3>5
    <3> QED
      BY <3>4, <3>5
  <2> QED
    BY <1>0, <2>1, <2>2, OneActor, Zenon DEF Mapped
<1>21. ASSUME NEW c \in Clients, RequestDeployment(c) PROVE Mapped(d)
  <2>1. c \in Actors /\ \A b \in Actors \ {c} : at'[b] = at[b]
    BY <1>0, <1>21 DEF RequestDeployment, Actors
  <2>2. status'[d] = status[d]
    BY <1>21 DEF RequestDeployment
  <2>3. Holds(c, d)' => Holds(c, d)
    BY <1>0, <1>21, <2>1 DEF RequestDeployment, Holds, ActorState, Idle
  <2> QED
    BY <2>1, <2>2, <2>3, Reads
<1>22. ASSUME NEW c \in Clients, OpenDeployment(c) PROVE Mapped(d)
  <2>1. c \in Actors /\ \A b \in Actors \ {c} : at'[b] = at[b]
    BY <1>0, <1>22 DEF OpenDeployment, Actors
  <2>2. status'[d] = status[d]
    BY <1>22 DEF OpenDeployment
  <2>3. Holds(c, d)' => Holds(c, d) \/ status[d] \notin {"none", "cancelled"}
    BY <1>0, <1>22, <2>1 DEF OpenDeployment, Holds, ActorState, Idle, Active
  <2> QED
    BY <2>1, <2>2, <2>3, Reads
<1>23. ASSUME NEW c \in Clients, ForceStart(c) PROVE Mapped(d)
  <2>1. c \in Actors /\ \A b \in Actors \ {c} : at'[b] = at[b]
    BY <1>0, <1>23 DEF ForceStart, Actors
  <2>2. \/ /\ status'[d] = status[d] /\ (Holds(c, d)' <=> Holds(c, d))
        \/ Holds(c, d) /\ status[d] # "none" /\ status'[d] = "in_progress"
    BY <1>0, <1>23, <2>1, SMTT(40) DEF ForceStart, Holds, ActorState, Refers, Rows
  <2> QED
    BY <1>0, <2>1, <2>2, OneActor, Zenon DEF Mapped
<1>24. ASSUME NEW c \in Clients, CancelClick(c) PROVE Mapped(d)
  <2>1. c \in Actors /\ \A b \in Actors \ {c} : at'[b] = at[b]
    BY <1>0, <1>24 DEF CancelClick, Actors
  <2>2. /\ Holds(c, d)' => Holds(c, d)
        /\ \/ status'[d] = status[d]
           \/ status[d] # "none" /\ status'[d] = "cancelled"
    BY <1>0, <1>24, <2>1, SMTT(40) DEF CancelClick, Holds, ActorState, Refers, Rows, Busy
  <2> QED
    BY <1>0, <2>1, <2>2, OneActor, Zenon DEF Mapped
<1>25. ASSUME NEW c \in Clients, LeavePage(c) PROVE Mapped(d)
  <2>1. c \in Actors /\ \A b \in Actors \ {c} : at'[b] = at[b]
    BY <1>0, <1>25 DEF LeavePage, Actors
  <2>2. status'[d] = status[d]
    BY <1>25 DEF LeavePage
  <2>3. Holds(c, d)' => Holds(c, d)
    BY <1>0, <1>25, <2>1 DEF LeavePage, Holds, ActorState, Idle
  <2> QED
    BY <2>1, <2>2, <2>3, Reads
<1>26. ASSUME NEW c \in Clients, ApiCancelTest(c) PROVE Mapped(d)
  <2>1. c \in Actors /\ \A b \in Actors \ {c} : at'[b] = at[b]
    BY <1>0, <1>26 DEF ApiCancelTest, Actors
  <2>2. status'[d] = status[d]
    BY <1>26 DEF ApiCancelTest
  <2>3. Holds(c, d)' => Holds(c, d)
    BY <1>0, <1>26, <2>1 DEF ApiCancelTest, Holds, ActorState, Idle
  <2> QED
    BY <2>1, <2>2, <2>3, Reads
<1>27. ASSUME NEW c \in Clients, SweepBegin(c) PROVE Mapped(d)
  <2>1. c \in Actors /\ \A b \in Actors \ {c} : at'[b] = at[b]
    BY <1>0, <1>27 DEF SweepBegin, Actors
  <2>2. status'[d] = status[d]
    BY <1>27 DEF SweepBegin
  <2>3. Holds(c, d)' => Holds(c, d) \/ status[d] \notin {"none", "cancelled"}
    BY <1>0, <1>27, <2>1 DEF SweepBegin, Holds, ActorState, Idle, Active
  <2> QED
    BY <2>1, <2>2, <2>3, Reads
<1>28. CASE Restart
  BY <1>0, <1>28 DEF Restart, Mapped, Held, Active, Idle
<1> QED
  BY <1>1, <1>2, <1>3, <1>4, <1>5, <1>6, <1>7, <1>8, <1>9, <1>10, <1>11, <1>12, <1>13, <1>14, <1>15, <1>16, <1>17, <1>18, <1>19, <1>20, <1>21, <1>22, <1>23, <1>24, <1>25, <1>26, <1>27, <1>28 DEF Next, Helper, WorkerStep, ClientStep, ClientChoice

(* The queue implements the abstract life cycle of its rows under the      *)
(* mapping of held to the rows somebody has read and not yet written:      *)
(* every update of the status column, in applications.php,                 *)
(* ApplicationDeploymentJob, DeploymentNavbar, DeployController, the       *)
(* sweeps and app:init, is one of its moves.                               *)
THEOREM QueueImplementsLifecycle == Spec => ImplementsLifecycle
<1>1. Init => Lifecycle!Init
  BY DEF Init, Lifecycle!Init, Held, Idle, Deployments
<1>2. TypeOK /\ TypeOK' /\ JobsOfStarted /\ References /\ [Next]_vars
        => [Lifecycle!Next]_Lifecycle!vars
  <2> SUFFICES ASSUME TypeOK, TypeOK', JobsOfStarted, References, [Next]_vars
               PROVE  [Lifecycle!Next]_Lifecycle!vars
    OBVIOUS
  <2>1. CASE Next
    <3>1. \A d \in Deployments : Lifecycle!RowStep(d)
      BY <2>1, EveryRowMoves, MappedIsStep
    <3>2. status' \in [Deployments -> Lifecycle!Statuses]
      BY DEF TypeOK, Statuses, Active, Terminal, Lifecycle!Statuses
    <3> QED
      BY <3>1, <3>2 DEF Lifecycle!Next
  <2>2. CASE UNCHANGED vars
    BY <2>2 DEF vars, Lifecycle!vars, Held
  <2> QED
    BY <2>1, <2>2
<1>3. QED
  BY <1>1, <1>2, TypeCorrect, JobsOfStartedRows, ReferencesExist, PTL
     DEF Spec, ImplementsLifecycle, Lifecycle!Spec
=============================================================================
