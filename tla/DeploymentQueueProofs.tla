------------------------ MODULE DeploymentQueueProofs ------------------------
(***************************************************************************)
(* Theorems of DeploymentQueue, for every value of its constants.          *)
(***************************************************************************)
EXTENDS DeploymentQueue, FiniteSetTheorems, TLAPS

USE DEF Deployments

(* The last conjunct of TypeOK: who acts on a row or a job has one. *)
Busy ==
    \A a \in Actors :
        /\ at[a].pc \in RowLabels => at[a].cur # 0
        /\ at[a].pc \in JobLabels \/ at[a].dests # {} \/ at[a].goal = "unhealthy"
              => at[a].own # 0
        /\ at[a].pc \in {"idle", "start", "claim", "work"} => at[a].goal = "none"
        /\ at[a].pc = "sweep" => at[a].goal \in {"cancelled", "failed"}

(* What every action needs of the constants: there is a request, Idle is   *)
(* an actor's state, and the helpers return sets of rows and of servers.   *)
LEMMA Facts ==
    /\ NoRequest \in Request
    /\ Idle \in ActorState
    /\ MaxClicks \in Nat
    /\ \A d \in Deployments : d # 0
    /\ \A s : Snapshot(s) \in SUBSET Deployments
    /\ TypeOK => \A d \in Deployments : /\ FanOut(d) \in SUBSET Servers
                                      /\ CancelScope(d) \in SUBSET Servers
                                      /\ row[d].app \in Apps
<1>1. NoRequest \in Request
  <2>1. PICK app \in Apps : TRUE
    BY ConstantsAssumption
  <2>2. [app |-> app, pr |-> 0, commit |-> HeadCommit, server |-> MainServer[app],
         onlyThis |-> TRUE, force |-> TRUE, nqa |-> TRUE] \in Request
    BY <2>1, ConstantsAssumption DEF Request
  <2> QED
    BY <2>2 DEF NoRequest
<1>5. \A d \in Deployments : d # 0
  BY ConstantsAssumption
<1>2. Idle \in ActorState
  BY <1>1 DEF Idle, ActorState, Labels, Goals
<1>3. \A s : Snapshot(s) \in SUBSET Deployments
  BY DEF Snapshot, On, Rows
<1>4. ASSUME TypeOK, NEW d \in Deployments
      PROVE  /\ FanOut(d) \in SUBSET Servers
             /\ CancelScope(d) \in SUBSET Servers
             /\ row[d].app \in Apps
  <2>1. /\ row[d].app \in Apps /\ row[d].server \in Servers
        /\ Extra[row[d].app] \in SUBSET Servers
        /\ BuildServers[row[d].app] \in SUBSET Servers
        /\ MainServer[row[d].app] \in Servers
    BY <1>4, ConstantsAssumption DEF TypeOK, Request
  <2> QED
    BY <2>1 DEF FanOut, CancelScope
<1> QED
  BY <1>1, <1>2, <1>3, <1>4, <1>5, ConstantsAssumption

(* What Dispatch does to its actor. *)
LEMMA DispatchChanges ==
    ASSUME TypeOK, NEW a \in Actors, Dispatch(a)
    PROVE  /\ UNCHANGED <<status, lost>> /\ jobs' = [jobs EXCEPT ![at[a].cur] = @ + 1]
           /\ \A b \in Actors \ {a} : at'[b] = at[b]
           /\ at'[a].cur = 0 /\ at'[a].own = at[a].own /\ at'[a].todo = at[a].todo
           /\ at'[a].goal = at[a].goal /\ at'[a].dests \subseteq at[a].dests
           /\ at'[a].pc \in {"scan", "effects"}
           /\ at[a].pc = "dispatch"
<1>1. at \in [Actors -> ActorState]
  BY DEF TypeOK
<1>2. /\ UNCHANGED <<status, lost>> /\ jobs' = [jobs EXCEPT ![at[a].cur] = @ + 1]
      /\ at[a].pc = "dispatch"
  BY DEF Dispatch
<1>3. \A b \in Actors \ {a} : at'[b] = at[b]
  BY <1>1, ZenonT(40) DEF Dispatch
<1>4. /\ at'[a].cur = 0 /\ at'[a].own = at[a].own
      /\ at'[a].todo = at[a].todo /\ at'[a].goal = at[a].goal
  <2>1. \E p, t : at' = [at EXCEPT ![a].pc = p, ![a].dests = t, ![a].cur = 0, ![a].req = NoRequest]
    BY DEF Dispatch
  <2> QED
    BY <1>1, <2>1 DEF ActorState
<1>5. at'[a].pc \in {"scan", "effects"}
  BY <1>1, ZenonT(40) DEF Dispatch, ActorState
<1>6. at'[a].dests \subseteq at[a].dests
  BY <1>1, ZenonT(40) DEF Dispatch, ActorState
<1> QED
  BY <1>2, <1>3, <1>4, <1>5, <1>6

(* What the other actions that move an actor without a write do to it.     *)
LEMMA ScanRowChanges ==
    ASSUME TypeOK, NEW a \in Actors, ScanRow(a)
    PROVE  /\ UNCHANGED <<status, row, jobs, lost, clicks, dropped>>
           /\ \A b \in Actors \ {a} : at'[b] = at[b]
           /\ at[a].pc = "scan" /\ at'[a].own = at[a].own
           /\ \E e \in at[a].todo :
                /\ at'[a].todo = at[a].todo \ {e}
                /\ \/ at'[a].pc = "promote" /\ at'[a].cur = e
                   \/ at'[a].pc = "scan" /\ at'[a].cur = at[a].cur
<1>1. at \in [Actors -> ActorState] /\ UNCHANGED <<status, row, jobs, lost, clicks, dropped>>
  BY Zenon DEF TypeOK, ScanRow
<1>2. PICK e \in at[a].todo :
        /\ at[a].pc = "scan"
        /\ at' = IF next_queuable(row[e])
                 THEN [at EXCEPT ![a].todo = @ \ {e}, ![a].cur = e, ![a].pc = "promote"]
                 ELSE [at EXCEPT ![a].todo = @ \ {e}]
  BY Zenon DEF ScanRow
<1>3. \A b \in Actors \ {a} : at'[b] = at[b]
  BY <1>1, <1>2
<1>4. /\ at'[a].own = at[a].own /\ at'[a].todo = at[a].todo \ {e}
      /\ \/ at'[a].pc = "promote" /\ at'[a].cur = e
         \/ at'[a].pc = "scan" /\ at'[a].cur = at[a].cur
  BY <1>1, <1>2 DEF ActorState
<1> QED
  BY <1>1, <1>2, <1>3, <1>4

LEMMA SettleChanges ==
    ASSUME TypeOK, NEW w \in Workers, Settle(w)
    PROVE  /\ UNCHANGED <<status, row, jobs, lost, clicks, dropped>>
           /\ \A b \in Actors \ {w} : at'[b] = at[b]
           /\ at[w].pc = "settle"
           /\ \/ /\ at'[w] = Idle
                 /\ status[at[w].own] \in Terminal \cup {"cancelled"}
              \/ /\ at'[w].own = at[w].own /\ at'[w].cur = at[w].cur
                 /\ at'[w].todo = at[w].todo
                 /\ \/ at'[w].pc = "settle"
                    \/ /\ at'[w].pc = "write"
                       /\ status[at[w].own] \notin Terminal \cup {"cancelled"}
<1>1. /\ at \in [Actors -> ActorState] /\ w \in Actors /\ at[w].pc = "settle"
      /\ UNCHANGED <<status, row, jobs, lost, clicks, dropped>>
  BY DEF TypeOK, Settle, Actors
<1>2. \/ /\ at' = [at EXCEPT ![w] = Idle]
         /\ status[at[w].own] \in Terminal \cup {"cancelled"}
      \/ at' = [at EXCEPT ![w].goal = "complete"]
      \/ at' = [at EXCEPT ![w].goal = "failed"]
      \/ /\ at' = [at EXCEPT ![w].pc = "write"]
         /\ status[at[w].own] \notin Terminal \cup {"cancelled"}
  BY DEF Settle
<1>3. \A b \in Actors \ {w} : at'[b] = at[b]
  BY <1>1, <1>2
<1>4. CASE /\ at' = [at EXCEPT ![w] = Idle]
           /\ status[at[w].own] \in Terminal \cup {"cancelled"}
  BY <1>1, <1>3, <1>4
<1>5. CASE at' = [at EXCEPT ![w].goal = "complete"]
  BY <1>1, <1>3, <1>5 DEF ActorState
<1>6. CASE at' = [at EXCEPT ![w].goal = "failed"]
  BY <1>1, <1>3, <1>6 DEF ActorState
<1>7. CASE /\ at' = [at EXCEPT ![w].pc = "write"]
           /\ status[at[w].own] \notin Terminal \cup {"cancelled"}
  BY <1>1, <1>3, <1>7 DEF ActorState
<1> QED
  BY <1>2, <1>4, <1>5, <1>6, <1>7

LEMMA FanOutChanges ==
    ASSUME TypeOK, NEW w \in Workers, FanOutOne(w)
    PROVE  /\ UNCHANGED <<status, row, jobs, lost, clicks, dropped>>
           /\ \A b \in Actors \ {w} : at'[b] = at[b]
           /\ at[w].pc = "effects" /\ at'[w].pc \in {"create", "effects"}
           /\ at'[w].own = at[w].own /\ at'[w].cur = at[w].cur
           /\ at'[w].todo = at[w].todo
<1>1. at \in [Actors -> ActorState] /\ w \in Actors
  BY DEF TypeOK, Actors
<1>2. /\ at[w].pc = "effects" /\ UNCHANGED <<status, row, jobs, lost, clicks, dropped>>
      /\ \/ \E r : at' = [at EXCEPT ![w].pc = "create", ![w].req = r]
         \/ \E s : at' = [at EXCEPT ![w].dests = @ \ {s}]
  BY DEF FanOutOne
<1>3. \A b \in Actors \ {w} : at'[b] = at[b]
  BY <1>1, <1>2
<1>4. at'[w].own = at[w].own /\ at'[w].cur = at[w].cur /\ at'[w].todo = at[w].todo
  BY <1>1, <1>2 DEF ActorState
<1>5. at'[w].pc \in {"create", "effects"}
  BY <1>1, <1>2 DEF ActorState
<1> QED
  BY <1>2, <1>3, <1>4, <1>5

LEMMA QueueNextChanges ==
    ASSUME TypeOK, NEW w \in Workers, QueueNext(w)
    PROVE  /\ UNCHANGED <<status, row, jobs, lost, clicks, dropped>>
           /\ \A b \in Actors \ {w} : at'[b] = at[b]
           /\ at[w].pc = "effects" /\ at'[w].pc = "scan"
           /\ at'[w].own = at[w].own /\ at'[w].cur = at[w].cur
           /\ \A d \in at'[w].todo : d \in Rows /\ status[d] = "queued"
<1>1. at \in [Actors -> ActorState] /\ w \in Actors
  BY DEF TypeOK, Actors
<1>2. PICK s : at' = [at EXCEPT ![w].pc = "scan", ![w].todo = Snapshot(s)]
  BY DEF QueueNext
<1>3. \A b \in Actors \ {w} : at'[b] = at[b]
  BY <1>1, <1>2
<1>4. /\ at'[w].own = at[w].own /\ at'[w].cur = at[w].cur /\ at'[w].pc = "scan"
      /\ at'[w].todo = Snapshot(s)
  BY <1>1, <1>2 DEF ActorState
<1>5. \A d \in Snapshot(s) : d \in Rows /\ status[d] = "queued"
  BY DEF Snapshot, On
<1>6. at[w].pc = "effects" /\ UNCHANGED <<status, row, jobs, lost, clicks, dropped>>
  BY DEF QueueNext
<1> QED
  BY <1>3, <1>4, <1>5, <1>6

(* Every variable keeps its type, an actor at a label of a row or of a job *)
(* holds one, and only a worker that has ended its deployment has a        *)
(* verdict: no label of ApplicationDeploymentJob is reached without its    *)
(* row.                                                                    *)
THEOREM TypeCorrect == Spec => []TypeOK
<1>1. Init => TypeOK
  BY Facts, ConstantsAssumption DEF Init, TypeOK, Idle, Statuses, RowLabels, JobLabels
<1>2. TypeOK /\ [Next]_vars => TypeOK'
  <2> SUFFICES ASSUME TypeOK, [Next]_vars PROVE TypeOK'
    OBVIOUS
  <2>0. /\ status \in [Deployments -> Statuses]
        /\ row \in [Deployments -> Request]
        /\ jobs \in [Deployments -> Nat] /\ lost \in [Deployments -> Nat]
        /\ at \in [Actors -> ActorState]
        /\ clicks \in 0 .. MaxClicks /\ dropped \subseteq Deployments
        /\ Busy
    BY DEF TypeOK, Busy
  <2>1. ASSUME NEW a \in Actors, CreateRow(a) PROVE TypeOK'
    <3>0. a \in Actors /\ at[a] \in ActorState
      BY <2>0 DEF Actors
    <3>1. PICK d \in Deployments :
         /\ status' = [status EXCEPT ![d] = "queued"]
         /\ row' = [row EXCEPT ![d] = at[a].req]
         /\ at' = [at EXCEPT ![a].pc = "decide", ![a].cur = d]
      BY <2>1, <2>0, <3>0, ConstantsAssumption DEF CreateRow, Rows
    <3>2. at' \in [Actors -> ActorState]
      BY <2>0, <3>0, <3>1, Facts, ZenonT(60) DEF ActorState, Labels, Goals, Idle
    <3>3. status' \in [Deployments -> Statuses] /\ row' \in [Deployments -> Request]
      BY <2>0, <3>0, <3>1, Facts, <2>1 DEF CreateRow, ActorState, Statuses, Active, Terminal, Verdict
    <3>4. jobs' \in [Deployments -> Nat] /\ lost' \in [Deployments -> Nat]
      BY <2>0, <3>0, <3>1, Facts, <2>1 DEF CreateRow, ActorState, Busy, RowLabels
    <3>5. clicks' \in 0 .. MaxClicks /\ dropped' \subseteq Deployments
      BY <2>0, <3>0, <3>1, Facts, <2>1 DEF CreateRow, ActorState, DiesWith, Busy, RowLabels, JobLabels
    <3>6. Busy'
      BY <2>0, <3>0, <3>1, Facts, <2>1, SMTT(60) DEF Busy, RowLabels, JobLabels, ActorState, Idle
    <3> QED BY <3>2, <3>3, <3>4, <3>5, <3>6 DEF TypeOK, Busy
  <2>2. ASSUME NEW a \in Actors, Decide(a) PROVE TypeOK'
    <3>0. a \in Actors /\ at[a] \in ActorState
      BY <2>0 DEF Actors
    <3>2. at' \in [Actors -> ActorState]
      <4>1. CASE at[a].req.nqa \/ next_queuable(at[a].req)
        BY <2>0, <3>0, <2>2, Facts, <4>1, SMTT(60) DEF Decide, ActorState, Labels, Goals, Idle
      <4>2. CASE ~(at[a].req.nqa \/ next_queuable(at[a].req))
        BY <2>0, <3>0, <2>2, Facts, <4>2 DEF Decide, ActorState, Labels, Goals, Idle
      <4> QED BY <4>1, <4>2, <2>2
    <3>3. status' \in [Deployments -> Statuses] /\ row' \in [Deployments -> Request]
      BY <2>0, <3>0, <2>2, Facts, <2>2 DEF Decide, ActorState, Statuses, Active, Terminal, Verdict
    <3>4. jobs' \in [Deployments -> Nat] /\ lost' \in [Deployments -> Nat]
      BY <2>0, <3>0, <2>2, Facts, <2>2 DEF Decide, ActorState, Busy, RowLabels
    <3>5. clicks' \in 0 .. MaxClicks /\ dropped' \subseteq Deployments
      BY <2>0, <3>0, <2>2, Facts, <2>2 DEF Decide, ActorState, DiesWith, Busy, RowLabels, JobLabels
    <3>6. Busy'
      <4>1. CASE at[a].req.nqa \/ next_queuable(at[a].req)
        BY <2>0, <3>0, <2>2, Facts, <2>2, <4>1 DEF Decide, Busy, RowLabels, JobLabels, ActorState, Idle
      <4>2. CASE ~(at[a].req.nqa \/ next_queuable(at[a].req))
        BY <2>0, <3>0, <2>2, Facts, <2>2, <4>2, SMTT(60)
            DEF Decide, Busy, RowLabels, JobLabels, ActorState, Idle
      <4> QED BY <4>1, <4>2, <2>2
    <3> QED BY <3>2, <3>3, <3>4, <3>5, <3>6 DEF TypeOK, Busy
  <2>3. ASSUME NEW a \in Actors, Promote(a) PROVE TypeOK'
    <3>0. a \in Actors /\ at[a] \in ActorState
      BY <2>0 DEF Actors
    <3>2. at' \in [Actors -> ActorState]
      BY <2>0, <3>0, <2>3, Facts DEF Promote, ActorState, Labels, Goals, Idle
    <3>3. status' \in [Deployments -> Statuses] /\ row' \in [Deployments -> Request]
      BY <2>0, <3>0, <2>3, Facts, <2>3 DEF Promote, ActorState, Statuses, Active, Terminal, Verdict
    <3>4. jobs' \in [Deployments -> Nat] /\ lost' \in [Deployments -> Nat]
      BY <2>0, <3>0, <2>3, Facts, <2>3 DEF Promote, ActorState, Busy, RowLabels
    <3>5. clicks' \in 0 .. MaxClicks /\ dropped' \subseteq Deployments
      BY <2>0, <3>0, <2>3, Facts, <2>3 DEF Promote, ActorState, DiesWith, Busy, RowLabels, JobLabels
    <3>6. Busy'
      BY <2>0, <3>0, <2>3, Facts, <2>3 DEF Promote, Busy, RowLabels, JobLabels, ActorState, Idle
    <3> QED BY <3>2, <3>3, <3>4, <3>5, <3>6 DEF TypeOK, Busy
  <2>4. ASSUME NEW a \in Actors, Dispatch(a) PROVE TypeOK'
    <3>0. a \in Actors /\ at[a] \in ActorState
      BY <2>0 DEF Actors
    <3>2. at' \in [Actors -> ActorState]
      <4>1. CASE at[a].dests # {}
        <5>1. [at[a] EXCEPT !.pc = "effects", !.dests = @ \ {row[at[a].cur].server},
                            !.cur = 0, !.req = NoRequest] \in ActorState
          BY <3>0, Facts DEF ActorState, Labels
        <5>2. at' = [at EXCEPT ![a] =
                      [at[a] EXCEPT !.pc = "effects", !.dests = @ \ {row[at[a].cur].server},
                                    !.cur = 0, !.req = NoRequest]]
          BY <2>4, <4>1 DEF Dispatch
        <5> QED BY <2>0, <3>0, <5>1, <5>2
      <4>2. CASE at[a].dests = {}
        <5>1. [at[a] EXCEPT !.pc = "scan", !.dests = @ \ {row[at[a].cur].server},
                            !.cur = 0, !.req = NoRequest] \in ActorState
          BY <3>0, Facts DEF ActorState, Labels
        <5>2. at' = [at EXCEPT ![a] =
                      [at[a] EXCEPT !.pc = "scan", !.dests = @ \ {row[at[a].cur].server},
                                    !.cur = 0, !.req = NoRequest]]
          BY <2>4, <4>2 DEF Dispatch
        <5> QED BY <2>0, <3>0, <5>1, <5>2
      <4> QED BY <4>1, <4>2
    <3>3. status' \in [Deployments -> Statuses] /\ row' \in [Deployments -> Request]
      BY <2>0, <3>0, <2>4, Facts, <2>4 DEF Dispatch, ActorState, Statuses, Active, Terminal, Verdict
    <3>4. jobs' \in [Deployments -> Nat] /\ lost' \in [Deployments -> Nat]
      <4>1. jobs' = [jobs EXCEPT ![at[a].cur] = @ + 1] /\ lost' = lost
        BY <2>4 DEF Dispatch
      <4>2. at[a].cur \in Deployments
        BY <2>4, <2>0, <3>0 DEF Dispatch, ActorState, Busy, RowLabels
      <4>3. jobs[at[a].cur] + 1 \in Nat
        BY <2>0, <4>2
      <4> DEFINE n == jobs[at[a].cur] + 1
      <4>4. jobs' = [jobs EXCEPT ![at[a].cur] = n]
        BY <4>1
      <4> HIDE DEF n
      <4>5. n \in Nat
        BY <4>3, SMTT(60) DEF n
      <4> QED BY <2>0, <4>1, <4>2, <4>4, <4>5, SMTT(60)
    <3>5. clicks' \in 0 .. MaxClicks /\ dropped' \subseteq Deployments
      BY <2>0, <2>4 DEF Dispatch
    <3>6. Busy'
      <4>1. /\ \A b \in Actors \ {a} : at'[b] = at[b]
            /\ at'[a].own = at[a].own /\ at'[a].goal = at[a].goal
            /\ at'[a].dests \subseteq at[a].dests
            /\ at[a].pc = "dispatch"
        BY <2>0, <3>0, <2>4, ZenonT(60) DEF Dispatch, ActorState
      <4>2. at'[a].pc = IF at[a].dests # {} THEN "effects" ELSE "scan"
        BY <2>0, <3>0, <2>4 DEF Dispatch, ActorState
      <4>3. at[a].dests # {} \/ at[a].goal = "unhealthy" => at[a].own # 0
        BY <2>0, <4>1 DEF Busy, RowLabels
      <4>4. at'[a].pc \notin {"idle", "start", "claim", "work", "sweep"}
        BY <4>2
      <4>5. /\ at'[a].pc \notin RowLabels
            /\ at'[a].pc \in JobLabels => at[a].dests # {}
        BY <4>2 DEF RowLabels, JobLabels
      <4> QED BY <2>0, <4>1, <4>3, <4>4, <4>5, ZenonT(60) DEF Busy
    <3> QED BY <3>2, <3>3, <3>4, <3>5, <3>6 DEF TypeOK, Busy
  <2>5. ASSUME NEW a \in Actors, ScanRow(a) PROVE TypeOK'
    <3>0. a \in Actors /\ at[a] \in ActorState
      BY <2>0 DEF Actors
    <3>1. PICK d \in Deployments :
         \/ at' = [at EXCEPT ![a].todo = @ \ {d}, ![a].cur = d, ![a].pc = "promote"]
         \/ at' = [at EXCEPT ![a].todo = @ \ {d}]
      BY <2>5, <2>0, <3>0, ConstantsAssumption DEF ScanRow, ActorState
    <3>2. at' \in [Actors -> ActorState]
      <4>1. CASE at' = [at EXCEPT ![a].todo = @ \ {d}, ![a].cur = d, ![a].pc = "promote"]
        <5> DEFINE rest == at[a].todo \ {d}
                   next == [at[a] EXCEPT !.todo = rest, !.cur = d, !.pc = "promote"]
        <5>1. rest \in SUBSET Deployments
          BY <3>0 DEF ActorState
        <5>2. at' = [at EXCEPT ![a] = next]
          BY <4>1
        <5>3. next \in ActorState
          <6> HIDE DEF rest
          <6> QED BY <3>0, <5>1 DEF ActorState, Labels
        <5> HIDE DEF next
        <5> QED BY <2>0, <3>0, <5>2, <5>3
      <4>2. CASE at' = [at EXCEPT ![a].todo = @ \ {d}]
        BY <2>0, <3>0, <3>1, Facts, <4>2 DEF ActorState, Labels, Goals, Idle
      <4> QED BY <4>1, <4>2, <3>1
    <3>3. status' \in [Deployments -> Statuses] /\ row' \in [Deployments -> Request]
      BY <2>0, <3>0, <3>1, Facts, <2>5 DEF ScanRow, ActorState, Statuses, Active, Terminal, Verdict
    <3>4. jobs' \in [Deployments -> Nat] /\ lost' \in [Deployments -> Nat]
      BY <2>0, <3>0, <3>1, Facts, <2>5 DEF ScanRow, ActorState, Busy, RowLabels
    <3>5. clicks' \in 0 .. MaxClicks /\ dropped' \subseteq Deployments
      BY <2>0, <3>0, <3>1, Facts, <2>5 DEF ScanRow, ActorState, DiesWith, Busy, RowLabels, JobLabels
    <3>6. Busy'
      <4>1. CASE at' = [at EXCEPT ![a].todo = @ \ {d}, ![a].cur = d, ![a].pc = "promote"]
        BY <2>0, <3>0, <3>1, Facts, <2>5, <4>1 DEF Busy, RowLabels, JobLabels, ActorState, Idle
      <4>2. CASE at' = [at EXCEPT ![a].todo = @ \ {d}]
        BY <2>0, <3>0, <3>1, Facts, <2>5, <4>2 DEF Busy, RowLabels, JobLabels, ActorState, Idle
      <4> QED BY <4>1, <4>2, <3>1
    <3> QED BY <3>2, <3>3, <3>4, <3>5, <3>6 DEF TypeOK, Busy
  <2>6. ASSUME NEW a \in Actors, ScanEnd(a) PROVE TypeOK'
    <3>0. a \in Actors /\ at[a] \in ActorState
      BY <2>0 DEF Actors
    <3>2. at' \in [Actors -> ActorState]
      BY <2>0, <3>0, <2>6, Facts, SMTT(60) DEF ScanEnd, ActorState, Labels, Goals, Idle
    <3>3. status' \in [Deployments -> Statuses] /\ row' \in [Deployments -> Request]
      BY <2>0, <3>0, <2>6, Facts, <2>6 DEF ScanEnd, ActorState, Statuses, Active, Terminal, Verdict
    <3>4. jobs' \in [Deployments -> Nat] /\ lost' \in [Deployments -> Nat]
      BY <2>0, <3>0, <2>6, Facts, <2>6 DEF ScanEnd, ActorState, Busy, RowLabels
    <3>5. clicks' \in 0 .. MaxClicks /\ dropped' \subseteq Deployments
      BY <2>0, <3>0, <2>6, Facts, <2>6 DEF ScanEnd, ActorState, DiesWith, Busy, RowLabels, JobLabels
    <3>6. Busy'
      BY <2>0, <3>0, <2>6, Facts, <2>6 DEF ScanEnd, Busy, RowLabels, JobLabels, ActorState, Idle
    <3> QED BY <3>2, <3>3, <3>4, <3>5, <3>6 DEF TypeOK, Busy
  <2>7. ASSUME NEW a \in Actors, Crash(a) PROVE TypeOK'
    <3>0. a \in Actors /\ at[a] \in ActorState
      BY <2>0 DEF Actors
    <3>2. at' \in [Actors -> ActorState]
      BY <2>0, <3>0, <2>7, Facts DEF Crash, ActorState, Labels, Goals, Idle
    <3>3. status' \in [Deployments -> Statuses] /\ row' \in [Deployments -> Request]
      BY <2>0, <3>0, <2>7, Facts, <2>7 DEF Crash, ActorState, Statuses, Active, Terminal, Verdict
    <3>4. jobs' \in [Deployments -> Nat] /\ lost' \in [Deployments -> Nat]
      BY <2>0, <3>0, <2>7, Facts, <2>7 DEF Crash, ActorState, Busy, RowLabels
    <3>5. clicks' \in 0 .. MaxClicks /\ dropped' \subseteq Deployments
      BY <2>0, <3>0, <2>7, Facts, <2>7 DEF Crash, ActorState, DiesWith, Busy, RowLabels, JobLabels
    <3>6. Busy'
      BY <2>0, <3>0, <2>7, Facts, <2>7 DEF Crash, Busy, RowLabels, JobLabels, ActorState, Idle
    <3> QED BY <3>2, <3>3, <3>4, <3>5, <3>6 DEF TypeOK, Busy
  <2>8. ASSUME NEW w \in Workers, Reserve(w) PROVE TypeOK'
    <3>0. w \in Actors /\ at[w] \in ActorState
      BY <2>0 DEF Actors
    <3>1. PICK d \in Deployments :
         /\ at' = [at EXCEPT ![w].pc = "start", ![w].own = d]
         /\ jobs' = [jobs EXCEPT ![d] = @ - 1]
         /\ jobs[d] > 0 /\ at[w].pc = "idle"
      BY <2>8, <2>0, <3>0, ConstantsAssumption DEF Reserve
    <3>2. at' \in [Actors -> ActorState]
      BY <2>0, <3>0, <3>1, Facts, ZenonT(60) DEF ActorState, Labels, Goals, Idle
    <3>3. status' \in [Deployments -> Statuses] /\ row' \in [Deployments -> Request]
      BY <2>0, <3>0, <3>1, Facts, <2>8 DEF Reserve, ActorState, Statuses, Active, Terminal, Verdict
    <3>4. jobs' \in [Deployments -> Nat] /\ lost' \in [Deployments -> Nat]
      BY <2>0, <3>0, <3>1, Facts, <2>8 DEF Reserve, ActorState, Busy, RowLabels
    <3>5. clicks' \in 0 .. MaxClicks /\ dropped' \subseteq Deployments
      BY <2>0, <3>0, <3>1, Facts, <2>8 DEF Reserve, ActorState, DiesWith, Busy, RowLabels, JobLabels
    <3>6. Busy'
      BY <2>0, <3>0, <3>1, Facts, <2>8 DEF Busy, RowLabels, JobLabels, ActorState, Idle
    <3> QED BY <3>2, <3>3, <3>4, <3>5, <3>6 DEF TypeOK, Busy
  <2>9. ASSUME NEW w \in Workers, Redeliver(w) PROVE TypeOK'
    <3>0. w \in Actors /\ at[w] \in ActorState
      BY <2>0 DEF Actors
    <3>1. PICK d \in Deployments :
         /\ at' = [at EXCEPT ![w].pc = "settle", ![w].own = d, ![w].goal = "failed"]
         /\ lost' = [lost EXCEPT ![d] = @ - 1]
         /\ lost[d] > 0
      BY <2>9, <2>0, <3>0, ConstantsAssumption DEF Redeliver
    <3>2. at' \in [Actors -> ActorState]
      BY <2>0, <3>0, <3>1, Facts, ZenonT(60) DEF ActorState, Labels, Goals, Idle
    <3>3. status' \in [Deployments -> Statuses] /\ row' \in [Deployments -> Request]
      BY <2>0, <3>0, <3>1, Facts, <2>9 DEF Redeliver, ActorState, Statuses, Active, Terminal, Verdict
    <3>4. jobs' \in [Deployments -> Nat] /\ lost' \in [Deployments -> Nat]
      BY <2>0, <3>0, <3>1, Facts, <2>9 DEF Redeliver, ActorState, Busy, RowLabels
    <3>5. clicks' \in 0 .. MaxClicks /\ dropped' \subseteq Deployments
      BY <2>0, <3>0, <3>1, Facts, <2>9 DEF Redeliver, ActorState, DiesWith, Busy, RowLabels, JobLabels
    <3>6. Busy'
      BY <2>0, <3>0, <3>1, Facts, <2>9 DEF Busy, RowLabels, JobLabels, ActorState, Idle
    <3> QED BY <3>2, <3>3, <3>4, <3>5, <3>6 DEF TypeOK, Busy
  <2>10. ASSUME NEW w \in Workers, Start(w) PROVE TypeOK'
    <3>0. w \in Actors /\ at[w] \in ActorState
      BY <2>0 DEF Actors
    <3>2. at' \in [Actors -> ActorState]
      BY <2>0, <3>0, <2>10, Facts DEF Start, ActorState, Labels, Goals, Idle
    <3>3. status' \in [Deployments -> Statuses] /\ row' \in [Deployments -> Request]
      BY <2>0, <3>0, <2>10, Facts, <2>10 DEF Start, ActorState, Statuses, Active, Terminal, Verdict
    <3>4. jobs' \in [Deployments -> Nat] /\ lost' \in [Deployments -> Nat]
      BY <2>0, <3>0, <2>10, Facts, <2>10 DEF Start, ActorState, Busy, RowLabels
    <3>5. clicks' \in 0 .. MaxClicks /\ dropped' \subseteq Deployments
      BY <2>0, <3>0, <2>10, Facts, <2>10 DEF Start, ActorState, DiesWith, Busy, RowLabels, JobLabels
    <3>6. Busy'
      BY <2>0, <3>0, <2>10, Facts, <2>10 DEF Start, Busy, RowLabels, JobLabels, ActorState, Idle
    <3> QED BY <3>2, <3>3, <3>4, <3>5, <3>6 DEF TypeOK, Busy
  <2>11. ASSUME NEW w \in Workers, Claim(w) PROVE TypeOK'
    <3>0. w \in Actors /\ at[w] \in ActorState
      BY <2>0 DEF Actors
    <3>2. at' \in [Actors -> ActorState]
      BY <2>0, <3>0, <2>11, Facts DEF Claim, ActorState, Labels, Goals, Idle
    <3>3. status' \in [Deployments -> Statuses] /\ row' \in [Deployments -> Request]
      BY <2>0, <3>0, <2>11, Facts, <2>11 DEF Claim, ActorState, Statuses, Active, Terminal, Verdict
    <3>4. jobs' \in [Deployments -> Nat] /\ lost' \in [Deployments -> Nat]
      BY <2>0, <3>0, <2>11, Facts, <2>11 DEF Claim, ActorState, Busy, RowLabels
    <3>5. clicks' \in 0 .. MaxClicks /\ dropped' \subseteq Deployments
      BY <2>0, <3>0, <2>11, Facts, <2>11 DEF Claim, ActorState, DiesWith, Busy, RowLabels, JobLabels
    <3>6. Busy'
      BY <2>0, <3>0, <2>11, Facts, <2>11 DEF Claim, Busy, RowLabels, JobLabels, ActorState, Idle
    <3> QED BY <3>2, <3>3, <3>4, <3>5, <3>6 DEF TypeOK, Busy
  <2>12. ASSUME NEW w \in Workers, Work(w) PROVE TypeOK'
    <3>0. w \in Actors /\ at[w] \in ActorState
      BY <2>0 DEF Actors
    <3>1. PICK g \in Goals :
         /\ at' = [at EXCEPT ![w].pc = "settle", ![w].goal = g]
         /\ at[w].pc = "work"
      BY <2>12, <2>0, <3>0, ConstantsAssumption DEF Work, Goals
    <3>2. at' \in [Actors -> ActorState]
      BY <2>0, <3>0, <3>1, Facts, ZenonT(60) DEF ActorState, Labels, Goals, Idle
    <3>3. status' \in [Deployments -> Statuses] /\ row' \in [Deployments -> Request]
      BY <2>0, <3>0, <3>1, Facts, <2>12 DEF Work, ActorState, Statuses, Active, Terminal, Verdict
    <3>4. jobs' \in [Deployments -> Nat] /\ lost' \in [Deployments -> Nat]
      BY <2>0, <3>0, <3>1, Facts, <2>12 DEF Work, ActorState, Busy, RowLabels
    <3>5. clicks' \in 0 .. MaxClicks /\ dropped' \subseteq Deployments
      BY <2>0, <3>0, <3>1, Facts, <2>12 DEF Work, ActorState, DiesWith, Busy, RowLabels, JobLabels
    <3>6. Busy'
      BY <2>0, <3>0, <3>1, Facts, <2>12 DEF Busy, RowLabels, JobLabels, ActorState, Idle
    <3> QED BY <3>2, <3>3, <3>4, <3>5, <3>6 DEF TypeOK, Busy
  <2>13. ASSUME NEW w \in Workers, Settle(w) PROVE TypeOK'
    <3>0. w \in Actors /\ at[w] \in ActorState
      BY <2>0 DEF Actors
    <3>2. at' \in [Actors -> ActorState]
      BY <2>0, <3>0, <2>13, Facts, ZenonT(60) DEF Settle, ActorState, Labels, Goals, Idle
    <3>3. status' \in [Deployments -> Statuses] /\ row' \in [Deployments -> Request]
      BY <2>0, <3>0, <2>13, Facts, <2>13 DEF Settle, ActorState, Statuses, Active, Terminal, Verdict
    <3>4. jobs' \in [Deployments -> Nat] /\ lost' \in [Deployments -> Nat]
      BY <2>0, <3>0, <2>13, Facts, <2>13 DEF Settle, ActorState, Busy, RowLabels
    <3>5. clicks' \in 0 .. MaxClicks /\ dropped' \subseteq Deployments
      BY <2>0, <2>13, Zenon DEF Settle
    <3>6. Busy'
      <4>1. /\ \A b \in Actors \ {w} : at'[b] = at[b]
            /\ \/ at'[w] = Idle
               \/ at'[w].own = at[w].own /\ at'[w].pc \in {"settle", "write"}
            /\ at[w].pc = "settle"
        BY <2>13, SettleChanges
      <4> QED
        BY <2>0, <3>0, <4>1 DEF Busy, RowLabels, JobLabels, Idle
    <3> QED BY <3>2, <3>3, <3>4, <3>5, <3>6 DEF TypeOK, Busy
  <2>14. ASSUME NEW w \in Workers, WriteStatus(w) PROVE TypeOK'
    <3>0. w \in Actors /\ at[w] \in ActorState
      BY <2>0 DEF Actors
    <3>2. at' \in [Actors -> ActorState]
      <4>1. CASE at[w].goal = "complete"
        <5>1. at[w].own \in Deployments
          BY <2>14, <2>0, <3>0 DEF WriteStatus, ActorState, Busy, JobLabels
        <5>2. FanOut(at[w].own) \in SUBSET Servers
          BY <5>1, Facts
        <5>3. at' = [at EXCEPT ![w].pc = "effects", ![w].dests = FanOut(at[w].own)]
          BY <2>14, <4>1 DEF WriteStatus
        <5> QED BY <2>0, <3>0, <5>2, <5>3 DEF ActorState, Labels
      <4>2. CASE at[w].goal # "complete"
        BY <2>0, <3>0, <2>14, Facts, <4>2, ZenonT(60)
            DEF WriteStatus, ActorState, Labels, Goals, Idle
      <4> QED BY <4>1, <4>2, <2>14
    <3>3. status' \in [Deployments -> Statuses] /\ row' \in [Deployments -> Request]
      BY <2>0, <3>0, <2>14, Facts, <2>14, ZenonT(60)
          DEF WriteStatus, ActorState, Statuses, Active, Terminal, Verdict
    <3>4. jobs' \in [Deployments -> Nat] /\ lost' \in [Deployments -> Nat]
      BY <2>0, <3>0, <2>14, Facts, <2>14 DEF WriteStatus, ActorState, Busy, RowLabels
    <3>5. clicks' \in 0 .. MaxClicks /\ dropped' \subseteq Deployments
      BY <2>0, <3>0, <2>14, Facts, <2>14 DEF WriteStatus, ActorState, DiesWith, Busy, RowLabels, JobLabels
    <3>6. Busy'
      <4>1. CASE at[w].goal = "complete"
        BY <2>0, <3>0, <2>14, Facts, <2>14, <4>1 DEF WriteStatus, Busy, RowLabels, JobLabels, ActorState, Idle
      <4>2. CASE at[w].goal # "complete"
        BY <2>0, <3>0, <2>14, Facts, <2>14, <4>2 DEF WriteStatus, Busy, RowLabels, JobLabels, ActorState, Idle
      <4> QED BY <4>1, <4>2, <2>14
    <3> QED BY <3>2, <3>3, <3>4, <3>5, <3>6 DEF TypeOK, Busy
  <2>15. ASSUME NEW w \in Workers, FanOutOne(w) PROVE TypeOK'
    <3>0. w \in Actors /\ at[w] \in ActorState
      BY <2>0 DEF Actors
    <3>1. PICK s \in Servers :
         /\ \/ \E r \in Request : at' = [at EXCEPT ![w].pc = "create", ![w].req = r]
         \/ at' = [at EXCEPT ![w].dests = @ \ {s}]
      <4>1. at[w].own \in Deployments
        BY <2>15, <2>0, <3>0 DEF FanOutOne, ActorState, Busy, JobLabels
      <4>2. PICK s \in at[w].dests :
              LET r == [app |-> row[at[w].own].app, pr |-> 0, commit |-> HeadCommit,
                        server |-> s, onlyThis |-> FALSE, force |-> FALSE, nqa |-> TRUE]
              IN  \/ at' = [at EXCEPT ![w].pc = "create", ![w].req = r]
                  \/ at' = [at EXCEPT ![w].dests = @ \ {s}]
        BY <2>15 DEF FanOutOne
      <4>3. s \in Servers
        BY <3>0, <4>2 DEF ActorState
      <4>4. [app |-> row[at[w].own].app, pr |-> 0, commit |-> HeadCommit,
             server |-> s, onlyThis |-> FALSE, force |-> FALSE, nqa |-> TRUE] \in Request
        BY <4>1, <4>3, Facts, ConstantsAssumption DEF Request
      <4> QED
        BY <4>2, <4>3, <4>4
    <3>2. at' \in [Actors -> ActorState]
      <4>1. CASE \E r \in Request : at' = [at EXCEPT ![w].pc = "create", ![w].req = r]
        <5>1. PICK r \in Request : at' = [at EXCEPT ![w].pc = "create", ![w].req = r]
          BY <4>1
        <5> QED BY <2>0, <3>0, <5>1 DEF ActorState, Labels
      <4>2. CASE at' = [at EXCEPT ![w].dests = @ \ {s}]
        BY <2>0, <3>0, <3>1, Facts, <4>2 DEF ActorState, Labels, Goals, Idle
      <4> QED BY <4>1, <4>2, <3>1
    <3>3. status' \in [Deployments -> Statuses] /\ row' \in [Deployments -> Request]
      BY <2>0, <3>0, <3>1, Facts, <2>15 DEF FanOutOne, ActorState, Statuses, Active, Terminal, Verdict
    <3>4. jobs' \in [Deployments -> Nat] /\ lost' \in [Deployments -> Nat]
      BY <2>0, <3>0, <3>1, Facts, <2>15 DEF FanOutOne, ActorState, Busy, RowLabels
    <3>5. clicks' \in 0 .. MaxClicks /\ dropped' \subseteq Deployments
      BY <2>0, <3>0, <3>1, Facts, <2>15 DEF FanOutOne, ActorState, DiesWith, Busy, RowLabels, JobLabels
    <3>6. Busy'
      <4>1. CASE \E r \in Request : at' = [at EXCEPT ![w].pc = "create", ![w].req = r]
        <5>1. PICK r \in Request : at' = [at EXCEPT ![w].pc = "create", ![w].req = r]
          BY <4>1
        <5> QED BY <2>0, <3>0, <5>1, <2>15 DEF FanOutOne, Busy, RowLabels, JobLabels
      <4>2. CASE at' = [at EXCEPT ![w].dests = @ \ {s}]
        BY <2>0, <3>0, <3>1, Facts, <2>15, <4>2, SMTT(60)
            DEF Busy, RowLabels, JobLabels, ActorState, Idle
      <4> QED BY <4>1, <4>2, <3>1
    <3> QED BY <3>2, <3>3, <3>4, <3>5, <3>6 DEF TypeOK, Busy
  <2>16. ASSUME NEW w \in Workers, QueueNext(w) PROVE TypeOK'
    <3>0. w \in Actors /\ at[w] \in ActorState
      BY <2>0 DEF Actors
    <3>2. at' \in [Actors -> ActorState]
      BY <2>0, <3>0, <2>16, Facts, ZenonT(60) DEF QueueNext, ActorState, Labels, Goals, Idle
    <3>3. status' \in [Deployments -> Statuses] /\ row' \in [Deployments -> Request]
      BY <2>0, <3>0, <2>16, Facts, <2>16 DEF QueueNext, ActorState, Statuses, Active, Terminal, Verdict
    <3>4. jobs' \in [Deployments -> Nat] /\ lost' \in [Deployments -> Nat]
      BY <2>0, <3>0, <2>16, Facts, <2>16 DEF QueueNext, ActorState, Busy, RowLabels
    <3>5. clicks' \in 0 .. MaxClicks /\ dropped' \subseteq Deployments
      BY <2>0, <3>0, <2>16, Facts, <2>16 DEF QueueNext, ActorState, DiesWith, Busy, RowLabels, JobLabels
    <3>6. Busy'
      BY <2>0, <3>0, <2>16, Facts, <2>16 DEF QueueNext, Busy, RowLabels, JobLabels, ActorState, Idle
    <3> QED BY <3>2, <3>3, <3>4, <3>5, <3>6 DEF TypeOK, Busy
  <2>17. ASSUME NEW w \in Workers, EffectsThrow(w) PROVE TypeOK'
    <3>0. w \in Actors /\ at[w] \in ActorState
      BY <2>0 DEF Actors
    <3>2. at' \in [Actors -> ActorState]
      BY <2>0, <3>0, <2>17, Facts DEF EffectsThrow, ActorState, Labels, Goals, Idle
    <3>3. status' \in [Deployments -> Statuses] /\ row' \in [Deployments -> Request]
      BY <2>0, <3>0, <2>17, Facts, <2>17 DEF EffectsThrow, ActorState, Statuses, Active, Terminal, Verdict
    <3>4. jobs' \in [Deployments -> Nat] /\ lost' \in [Deployments -> Nat]
      BY <2>0, <3>0, <2>17, Facts, <2>17 DEF EffectsThrow, ActorState, Busy, RowLabels
    <3>5. clicks' \in 0 .. MaxClicks /\ dropped' \subseteq Deployments
      BY <2>0, <3>0, <2>17, Facts, <2>17 DEF EffectsThrow, ActorState, DiesWith, Busy, RowLabels, JobLabels
    <3>6. Busy'
      BY <2>0, <3>0, <2>17, Facts, <2>17 DEF EffectsThrow, Busy, RowLabels, JobLabels, ActorState, Idle
    <3> QED BY <3>2, <3>3, <3>4, <3>5, <3>6 DEF TypeOK, Busy
  <2>18. ASSUME NEW c \in Clients, NextAfterCancel(c) PROVE TypeOK'
    <3>0. c \in Actors /\ at[c] \in ActorState
      BY <2>0 DEF Actors
    <3>1. PICK s \in Servers :
         /\ at' = [at EXCEPT ![c].pc = "scan", ![c].todo = Snapshot(s), ![c].cur = 0]
      <4>1. at[c].cur \in Deployments
        BY <2>18, <2>0, <3>0 DEF NextAfterCancel, ActorState, Busy, RowLabels
      <4> QED
        BY <2>18, <4>1, Facts DEF NextAfterCancel
    <3>2. at' \in [Actors -> ActorState]
      BY <2>0, <3>0, <3>1, Facts, ZenonT(60) DEF ActorState, Labels, Goals, Idle
    <3>3. status' \in [Deployments -> Statuses] /\ row' \in [Deployments -> Request]
      BY <2>0, <3>0, <3>1, Facts, <2>18 DEF NextAfterCancel, ActorState, Statuses, Active, Terminal, Verdict
    <3>4. jobs' \in [Deployments -> Nat] /\ lost' \in [Deployments -> Nat]
      BY <2>0, <3>0, <3>1, Facts, <2>18 DEF NextAfterCancel, ActorState, Busy, RowLabels
    <3>5. clicks' \in 0 .. MaxClicks /\ dropped' \subseteq Deployments
      BY <2>0, <3>0, <3>1, Facts, <2>18 DEF NextAfterCancel, ActorState, DiesWith, Busy, RowLabels, JobLabels
    <3>6. Busy'
      BY <2>0, <3>0, <3>1, Facts, <2>18 DEF Busy, RowLabels, JobLabels, ActorState, Idle
    <3> QED BY <3>2, <3>3, <3>4, <3>5, <3>6 DEF TypeOK, Busy
  <2>19. ASSUME NEW c \in Clients, ApiCancelWrite(c) PROVE TypeOK'
    <3>0. c \in Actors /\ at[c] \in ActorState
      BY <2>0 DEF Actors
    <3>2. at' \in [Actors -> ActorState]
      BY <2>0, <3>0, <2>19, Facts DEF ApiCancelWrite, ActorState, Labels, Goals, Idle
    <3>3. status' \in [Deployments -> Statuses] /\ row' \in [Deployments -> Request]
      BY <2>0, <3>0, <2>19, Facts, <2>19 DEF ApiCancelWrite, ActorState, Statuses, Active, Terminal, Verdict
    <3>4. jobs' \in [Deployments -> Nat] /\ lost' \in [Deployments -> Nat]
      BY <2>0, <3>0, <2>19, Facts, <2>19 DEF ApiCancelWrite, ActorState, Busy, RowLabels
    <3>5. clicks' \in 0 .. MaxClicks /\ dropped' \subseteq Deployments
      BY <2>0, <3>0, <2>19, Facts, <2>19 DEF ApiCancelWrite, ActorState, DiesWith, Busy, RowLabels, JobLabels
    <3>6. Busy'
      BY <2>0, <3>0, <2>19, Facts, <2>19 DEF ApiCancelWrite, Busy, RowLabels, JobLabels, ActorState, Idle
    <3> QED BY <3>2, <3>3, <3>4, <3>5, <3>6 DEF TypeOK, Busy
  <2>20. ASSUME NEW c \in Clients, SweepOne(c) PROVE TypeOK'
    <3>0. c \in Actors /\ at[c] \in ActorState
      BY <2>0 DEF Actors
    <3>1. PICK d \in Deployments :
         /\ \/ at' = [at EXCEPT ![c] = Idle]
            \/ at' = [at EXCEPT ![c].todo = @ \ {d}]
         /\ status' = [status EXCEPT ![d] = Verdict(at[c].goal)]
      BY <2>20, <2>0, <3>0, ConstantsAssumption DEF SweepOne, ActorState
    <3>2. at' \in [Actors -> ActorState]
      <4>1. CASE at' = [at EXCEPT ![c] = Idle]
        BY <2>0, <3>0, <3>1, Facts, <4>1 DEF ActorState, Labels, Goals, Idle
      <4>2. CASE at' = [at EXCEPT ![c].todo = @ \ {d}]
        BY <2>0, <3>0, <3>1, Facts, <4>2 DEF ActorState, Labels, Goals, Idle
      <4> QED BY <4>1, <4>2, <3>1
    <3>3. status' \in [Deployments -> Statuses] /\ row' \in [Deployments -> Request]
      BY <2>0, <3>0, <3>1, Facts, <2>20 DEF SweepOne, ActorState, Statuses, Active, Terminal, Verdict
    <3>4. jobs' \in [Deployments -> Nat] /\ lost' \in [Deployments -> Nat]
      BY <2>0, <3>0, <3>1, Facts, <2>20 DEF SweepOne, ActorState, Busy, RowLabels
    <3>5. clicks' \in 0 .. MaxClicks /\ dropped' \subseteq Deployments
      BY <2>0, <3>0, <3>1, Facts, <2>20 DEF SweepOne, ActorState, DiesWith, Busy, RowLabels, JobLabels
    <3>6. Busy'
      <4>1. CASE at' = [at EXCEPT ![c] = Idle]
        BY <2>0, <3>0, <3>1, Facts, <2>20, <4>1 DEF Busy, RowLabels, JobLabels, ActorState, Idle
      <4>2. CASE at' = [at EXCEPT ![c].todo = @ \ {d}]
        BY <2>0, <3>0, <3>1, Facts, <2>20, <4>2 DEF Busy, RowLabels, JobLabels, ActorState, Idle
      <4> QED BY <4>1, <4>2, <3>1
    <3> QED BY <3>2, <3>3, <3>4, <3>5, <3>6 DEF TypeOK, Busy
  <2>21. ASSUME NEW c \in Clients, RequestDeployment(c) PROVE TypeOK'
    <3>0. c \in Actors /\ at[c] \in ActorState
      BY <2>0 DEF Actors
    <3>1. PICK r \in Request :
         /\ at' = [at EXCEPT ![c].pc = "create", ![c].req = r]
      BY <2>21, <2>0, <3>0, ConstantsAssumption DEF RequestDeployment
    <3>2. at' \in [Actors -> ActorState]
      BY <2>0, <3>0, <3>1, Facts, ZenonT(60) DEF ActorState, Labels, Goals, Idle
    <3>3. status' \in [Deployments -> Statuses] /\ row' \in [Deployments -> Request]
      BY <2>0, <3>0, <3>1, Facts, <2>21 DEF RequestDeployment, ActorState, Statuses, Active, Terminal, Verdict
    <3>4. jobs' \in [Deployments -> Nat] /\ lost' \in [Deployments -> Nat]
      BY <2>0, <3>0, <3>1, Facts, <2>21 DEF RequestDeployment, ActorState, Busy, RowLabels
    <3>5. clicks' \in 0 .. MaxClicks /\ dropped' \subseteq Deployments
      BY <2>0, <3>0, <3>1, Facts, <2>21 DEF RequestDeployment, ActorState, DiesWith, Busy, RowLabels, JobLabels
    <3>6. Busy'
      BY <2>0, <3>0, <3>1, Facts, <2>21 DEF Busy, RowLabels, JobLabels, ActorState, Idle
    <3> QED BY <3>2, <3>3, <3>4, <3>5, <3>6 DEF TypeOK, Busy
  <2>22. ASSUME NEW c \in Clients, OpenDeployment(c) PROVE TypeOK'
    <3>0. c \in Actors /\ at[c] \in ActorState
      BY <2>0 DEF Actors
    <3>1. PICK d \in Deployments :
         /\ \/ at' = [at EXCEPT ![c].cur = d, ![c].pc = "view_queued"]
         \/ at' = [at EXCEPT ![c].cur = d, ![c].pc = "view_active"]
      BY <2>22, <2>0, <3>0, ConstantsAssumption DEF OpenDeployment, Rows
    <3>2. at' \in [Actors -> ActorState]
      <4>1. CASE at' = [at EXCEPT ![c].cur = d, ![c].pc = "view_queued"]
        BY <2>0, <3>0, <3>1, Facts, <4>1, ZenonT(60) DEF ActorState, Labels, Goals, Idle
      <4>2. CASE at' = [at EXCEPT ![c].cur = d, ![c].pc = "view_active"]
        BY <2>0, <3>0, <3>1, Facts, <4>2, ZenonT(60) DEF ActorState, Labels, Goals, Idle
      <4> QED BY <4>1, <4>2, <3>1
    <3>3. status' \in [Deployments -> Statuses] /\ row' \in [Deployments -> Request]
      BY <2>0, <3>0, <3>1, Facts, <2>22 DEF OpenDeployment, ActorState, Statuses, Active, Terminal, Verdict
    <3>4. jobs' \in [Deployments -> Nat] /\ lost' \in [Deployments -> Nat]
      BY <2>0, <3>0, <3>1, Facts, <2>22 DEF OpenDeployment, ActorState, Busy, RowLabels
    <3>5. clicks' \in 0 .. MaxClicks /\ dropped' \subseteq Deployments
      BY <2>0, <3>0, <3>1, Facts, <2>22 DEF OpenDeployment, ActorState, DiesWith, Busy, RowLabels, JobLabels
    <3>6. Busy'
      <4>1. CASE at' = [at EXCEPT ![c].cur = d, ![c].pc = "view_queued"]
        BY <2>0, <3>0, <3>1, Facts, <2>22, <4>1 DEF Busy, RowLabels, JobLabels, ActorState, Idle
      <4>2. CASE at' = [at EXCEPT ![c].cur = d, ![c].pc = "view_active"]
        BY <2>0, <3>0, <3>1, Facts, <2>22, <4>2 DEF Busy, RowLabels, JobLabels, ActorState, Idle
      <4> QED BY <4>1, <4>2, <3>1
    <3> QED BY <3>2, <3>3, <3>4, <3>5, <3>6 DEF TypeOK, Busy
  <2>23. ASSUME NEW c \in Clients, ForceStart(c) PROVE TypeOK'
    <3>0. c \in Actors /\ at[c] \in ActorState
      BY <2>0 DEF Actors
    <3>2. at' \in [Actors -> ActorState]
      BY <2>0, <3>0, <2>23, Facts DEF ForceStart, ActorState, Labels, Goals, Idle
    <3>3. status' \in [Deployments -> Statuses] /\ row' \in [Deployments -> Request]
      BY <2>0, <3>0, <2>23, Facts, <2>23 DEF ForceStart, ActorState, Statuses, Active, Terminal, Verdict
    <3>4. jobs' \in [Deployments -> Nat] /\ lost' \in [Deployments -> Nat]
      BY <2>0, <3>0, <2>23, Facts, <2>23 DEF ForceStart, ActorState, Busy, RowLabels
    <3>5. clicks' \in 0 .. MaxClicks /\ dropped' \subseteq Deployments
      BY <2>0, <3>0, <2>23, Facts, <2>23 DEF ForceStart, ActorState, DiesWith, Busy, RowLabels, JobLabels
    <3>6. Busy'
      BY <2>0, <3>0, <2>23, Facts, <2>23 DEF ForceStart, Busy, RowLabels, JobLabels, ActorState, Idle
    <3> QED BY <3>2, <3>3, <3>4, <3>5, <3>6 DEF TypeOK, Busy
  <2>24. ASSUME NEW c \in Clients, CancelClick(c) PROVE TypeOK'
    <3>0. c \in Actors /\ at[c] \in ActorState
      BY <2>0 DEF Actors
    <3>2. at' \in [Actors -> ActorState]
      BY <2>0, <3>0, <2>24, Facts DEF CancelClick, ActorState, Labels, Goals, Idle
    <3>3. status' \in [Deployments -> Statuses] /\ row' \in [Deployments -> Request]
      BY <2>0, <3>0, <2>24, Facts, <2>24 DEF CancelClick, ActorState, Statuses, Active, Terminal, Verdict
    <3>4. jobs' \in [Deployments -> Nat] /\ lost' \in [Deployments -> Nat]
      BY <2>0, <3>0, <2>24, Facts, <2>24 DEF CancelClick, ActorState, Busy, RowLabels
    <3>5. clicks' \in 0 .. MaxClicks /\ dropped' \subseteq Deployments
      BY <2>0, <3>0, <2>24, Facts, <2>24 DEF CancelClick, ActorState, DiesWith, Busy, RowLabels, JobLabels
    <3>6. Busy'
      BY <2>0, <3>0, <2>24, Facts, <2>24 DEF CancelClick, Busy, RowLabels, JobLabels, ActorState, Idle
    <3> QED BY <3>2, <3>3, <3>4, <3>5, <3>6 DEF TypeOK, Busy
  <2>25. ASSUME NEW c \in Clients, LeavePage(c) PROVE TypeOK'
    <3>0. c \in Actors /\ at[c] \in ActorState
      BY <2>0 DEF Actors
    <3>2. at' \in [Actors -> ActorState]
      BY <2>0, <3>0, <2>25, Facts DEF LeavePage, ActorState, Labels, Goals, Idle
    <3>3. status' \in [Deployments -> Statuses] /\ row' \in [Deployments -> Request]
      BY <2>0, <3>0, <2>25, Facts, <2>25 DEF LeavePage, ActorState, Statuses, Active, Terminal, Verdict
    <3>4. jobs' \in [Deployments -> Nat] /\ lost' \in [Deployments -> Nat]
      BY <2>0, <3>0, <2>25, Facts, <2>25 DEF LeavePage, ActorState, Busy, RowLabels
    <3>5. clicks' \in 0 .. MaxClicks /\ dropped' \subseteq Deployments
      BY <2>0, <3>0, <2>25, Facts, <2>25 DEF LeavePage, ActorState, DiesWith, Busy, RowLabels, JobLabels
    <3>6. Busy'
      BY <2>0, <3>0, <2>25, Facts, <2>25 DEF LeavePage, Busy, RowLabels, JobLabels, ActorState, Idle
    <3> QED BY <3>2, <3>3, <3>4, <3>5, <3>6 DEF TypeOK, Busy
  <2>26. ASSUME NEW c \in Clients, ApiCancelTest(c) PROVE TypeOK'
    <3>0. c \in Actors /\ at[c] \in ActorState
      BY <2>0 DEF Actors
    <3>1. PICK d \in Deployments :
         /\ at' = [at EXCEPT ![c].pc = "api_cancel", ![c].cur = d]
      BY <2>26, <2>0, <3>0, ConstantsAssumption DEF ApiCancelTest, Rows
    <3>2. at' \in [Actors -> ActorState]
      BY <2>0, <3>0, <3>1, Facts, ZenonT(60) DEF ActorState, Labels, Goals, Idle
    <3>3. status' \in [Deployments -> Statuses] /\ row' \in [Deployments -> Request]
      BY <2>0, <3>0, <3>1, Facts, <2>26 DEF ApiCancelTest, ActorState, Statuses, Active, Terminal, Verdict
    <3>4. jobs' \in [Deployments -> Nat] /\ lost' \in [Deployments -> Nat]
      BY <2>0, <3>0, <3>1, Facts, <2>26 DEF ApiCancelTest, ActorState, Busy, RowLabels
    <3>5. clicks' \in 0 .. MaxClicks /\ dropped' \subseteq Deployments
      BY <2>0, <3>0, <3>1, Facts, <2>26 DEF ApiCancelTest, ActorState, DiesWith, Busy, RowLabels, JobLabels
    <3>6. Busy'
      BY <2>0, <3>0, <3>1, Facts, <2>26, SMTT(60) DEF Busy, RowLabels, JobLabels, ActorState, Idle
    <3> QED BY <3>2, <3>3, <3>4, <3>5, <3>6 DEF TypeOK, Busy
  <2>27. ASSUME NEW c \in Clients, SweepBegin(c) PROVE TypeOK'
    <3>0. c \in Actors /\ at[c] \in ActorState
      BY <2>0 DEF Actors
    <3>1. PICK D \in SUBSET Deployments, g \in Goals :
         /\ at' = [at EXCEPT ![c].pc = "sweep", ![c].todo = D, ![c].goal = g]
         /\ g \in {"cancelled", "failed"}
      BY <2>27, <2>0, <3>0, ConstantsAssumption DEF SweepBegin, Rows, Goals
    <3>2. at' \in [Actors -> ActorState]
      BY <2>0, <3>0, <3>1, Facts, ZenonT(60) DEF ActorState, Labels, Goals, Idle
    <3>3. status' \in [Deployments -> Statuses] /\ row' \in [Deployments -> Request]
      BY <2>0, <3>0, <3>1, Facts, <2>27 DEF SweepBegin, ActorState, Statuses, Active, Terminal, Verdict
    <3>4. jobs' \in [Deployments -> Nat] /\ lost' \in [Deployments -> Nat]
      BY <2>0, <3>0, <3>1, Facts, <2>27 DEF SweepBegin, ActorState, Busy, RowLabels
    <3>5. clicks' \in 0 .. MaxClicks /\ dropped' \subseteq Deployments
      BY <2>0, <3>0, <3>1, Facts, <2>27 DEF SweepBegin, ActorState, DiesWith, Busy, RowLabels, JobLabels
    <3>6. Busy'
      BY <2>0, <3>0, <3>1, Facts, <2>27 DEF Busy, RowLabels, JobLabels, ActorState, Idle
    <3> QED BY <3>2, <3>3, <3>4, <3>5, <3>6 DEF TypeOK, Busy
  <2>28. CASE Restart
    <3>1. at' \in [Actors -> ActorState] /\ Busy'
      BY <2>28, Facts DEF Restart, Busy, Idle, RowLabels, JobLabels
    <3>2. status' \in [Deployments -> Statuses] /\ row' \in [Deployments -> Request]
      BY <2>28, <2>0 DEF Restart, Statuses, Active, Terminal
    <3>3. jobs' \in [Deployments -> Nat] /\ lost' \in [Deployments -> Nat]
      <4>1. IsFiniteSet(Actors)
        BY ConstantsAssumption, FS_Union DEF Actors
      <4>2. \A d : Cardinality({a \in Actors : Reserved(a, d)}) \in Nat
        BY <4>1, FS_Subset, FS_CardinalityType
      <4>3. ASSUME NEW d \in Deployments
            PROVE  lost[d] + Cardinality({a \in Actors : Reserved(a, d)}) \in Nat
        <5>1. lost[d] \in Nat
          BY <2>0
        <5> HIDE DEF Actors
        <5> QED
          BY <4>2, <5>1
      <4>4. /\ jobs' = jobs
            /\ lost' = [d \in Deployments |->
                            lost[d] + Cardinality({a \in Actors : Reserved(a, d)})]
        BY <2>28, Zenon DEF Restart
      <4> QED BY <2>0, <4>3, <4>4
    <3>4. clicks' \in 0 .. MaxClicks /\ dropped' \subseteq Deployments
      BY <2>28, <2>0, Facts DEF Restart
    <3> QED BY <3>1, <3>2, <3>3, <3>4 DEF TypeOK, Busy
  <2>29. CASE UNCHANGED vars
    BY <2>29 DEF TypeOK, vars
  <2> QED
    BY <2>1, <2>2, <2>3, <2>4, <2>5, <2>6, <2>7, <2>8, <2>9, <2>10, <2>11, <2>12, <2>13, <2>14, <2>15, <2>16, <2>17, <2>18, <2>19, <2>20, <2>21, <2>22, <2>23, <2>24, <2>25, <2>26, <2>27, <2>28, <2>29 DEF Next, Helper, WorkerStep, ClientStep, ClientChoice
<1>3. QED
  BY <1>1, <1>2, PTL DEF Spec

(* A row in progress always has a job, a process that will dispatch or     *)
(* settle it, or one of the two recorded gaps, for any number of           *)
(* applications, servers, clients and workers, and with every fault.  The  *)
(* invariant is inductive with TypeOK alone: every update to in_progress   *)
(* of applications.php is followed by a dispatch of the same process, and  *)
(* a job leaves the queue only to a worker that holds it until it writes a *)
(* verdict.                                                                *)
THEOREM NeverOrphaned == Spec => []NoOrphan
<1>1. Init => NoOrphan
  BY DEF Init, NoOrphan
<1>2. TypeOK /\ NoOrphan /\ [Next]_vars => NoOrphan'
  <2> SUFFICES ASSUME TypeOK, NoOrphan, [Next]_vars,
                      NEW d \in Deployments, status'[d] = "in_progress"
               PROVE  Driven(d)'
    BY DEF NoOrphan
  <2>0. /\ status \in [Deployments -> Statuses]
        /\ jobs \in [Deployments -> Nat] /\ lost \in [Deployments -> Nat]
        /\ at \in [Actors -> ActorState]
        /\ status[d] = "in_progress" => Driven(d)
        /\ Busy
    BY DEF TypeOK, NoOrphan, Busy
  <2>1. ASSUME NEW a \in Actors, CreateRow(a) PROVE Driven(d)'
    BY <2>0, <2>1, ZenonT(40) DEF CreateRow, Driven, Drives, Actors, ActorState, Idle, Rows
  <2>2. ASSUME NEW a \in Actors, Decide(a) PROVE Driven(d)'
    BY <2>0, <2>2 DEF Decide, Driven, Drives, Actors, ActorState, Idle
  <2>3. ASSUME NEW a \in Actors, Promote(a) PROVE Driven(d)'
    BY <2>0, <2>3 DEF Promote, Driven, Drives, Actors, ActorState, Idle
  <2>4. ASSUME NEW a \in Actors, Dispatch(a) PROVE Driven(d)'
    <3>1. /\ jobs' = [jobs EXCEPT ![at[a].cur] = @ + 1] /\ UNCHANGED <<status, lost, dropped>>
          /\ \A b \in Actors \ {a} : at'[b] = at[b]
          /\ at[a].pc = "dispatch"
      BY <2>0, <2>4 DEF Dispatch
    <3>2. CASE at[a].cur = d
      BY <2>0, <3>1, <3>2 DEF Driven
    <3>3. CASE at[a].cur # d
      <4>1. ~Drives(a, d) /\ jobs'[d] = jobs[d]
        BY <2>0, <3>1, <3>3 DEF Drives
      <4> QED
        BY <2>0, <3>1, <4>1 DEF Driven, Drives
    <3> QED
      BY <3>2, <3>3, Zenon
  <2>5. ASSUME NEW a \in Actors, ScanRow(a) PROVE Driven(d)'
    BY <2>0, <2>5 DEF ScanRow, Driven, Drives, Actors, ActorState, Idle
  <2>6. ASSUME NEW a \in Actors, ScanEnd(a) PROVE Driven(d)'
    BY <2>0, <2>6 DEF ScanEnd, Driven, Drives, Actors, ActorState, Idle
  <2>7. ASSUME NEW a \in Actors, Crash(a) PROVE Driven(d)'
    <3>1. /\ UNCHANGED <<status, jobs>> /\ dropped' = dropped \cup DiesWith(a)
          /\ lost' = [e \in Deployments |-> lost[e] + IF Reserved(a, e) THEN 1 ELSE 0]
          /\ \A b \in Actors \ {a} : at'[b] = at[b]
      BY <2>0, <2>7 DEF Crash
    <3>2. ASSUME Drives(a, d) PROVE lost'[d] > 0 \/ d \in dropped'
      <4>1. Reserved(a, d) \/ d \in DiesWith(a)
        BY <3>2, <2>0 DEF Drives, Reserved, DiesWith, Busy
      <4> QED
        BY <2>0, <3>1, <4>1
    <3> QED
      BY <2>0, <3>1, <3>2 DEF Driven, Drives
  <2>8. ASSUME NEW w \in Workers, Reserve(w) PROVE Driven(d)'
    BY <2>0, <2>8 DEF Reserve, Driven, Drives, Actors, ActorState, Idle
  <2>9. ASSUME NEW w \in Workers, Redeliver(w) PROVE Driven(d)'
    BY <2>0, <2>9 DEF Redeliver, Driven, Drives, Actors, ActorState, Idle
  <2>10. ASSUME NEW w \in Workers, Start(w) PROVE Driven(d)'
    BY <2>0, <2>10 DEF Start, Driven, Drives, Actors, ActorState, Idle
  <2>11. ASSUME NEW w \in Workers, Claim(w) PROVE Driven(d)'
    BY <2>0, <2>11 DEF Claim, Driven, Drives, Actors, ActorState, Idle
  <2>12. ASSUME NEW w \in Workers, Work(w) PROVE Driven(d)'
    BY <2>0, <2>12 DEF Work, Driven, Drives, Actors, ActorState, Idle
  <2>13. ASSUME NEW w \in Workers, Settle(w) PROVE Driven(d)'
    <3>1. /\ UNCHANGED <<status, jobs, lost, dropped>>
          /\ \A b \in Actors \ {w} : at'[b] = at[b]
          /\ w \in Actors
      BY <2>0, <2>13 DEF Settle, Actors
    <3>2. ASSUME Drives(w, d) PROVE Drives(w, d)'
      <4>1. at[w].pc = "settle" /\ at[w].own = d
        BY <2>13, <3>2 DEF Settle, Drives
      <4>2. at' = [at EXCEPT ![w].pc = "write"]
        BY <2>13, <3>1, <4>1 DEF Settle, Terminal
      <4> QED
        BY <2>0, <3>1, <4>1, <4>2 DEF Drives
    <3> QED
      BY <2>0, <3>1, <3>2 DEF Driven, Drives
  <2>14. ASSUME NEW w \in Workers, WriteStatus(w) PROVE Driven(d)'
    BY <2>0, <2>14 DEF WriteStatus, Driven, Drives, Actors, ActorState, Idle, Verdict
  <2>15. ASSUME NEW w \in Workers, FanOutOne(w) PROVE Driven(d)'
    BY <2>0, <2>15 DEF FanOutOne, Driven, Drives, Actors, ActorState, Idle
  <2>16. ASSUME NEW w \in Workers, QueueNext(w) PROVE Driven(d)'
    BY <2>0, <2>16 DEF QueueNext, Driven, Drives, Actors, ActorState, Idle
  <2>17. ASSUME NEW w \in Workers, EffectsThrow(w) PROVE Driven(d)'
    BY <2>0, <2>17 DEF EffectsThrow, Driven, Drives, Actors, ActorState, Idle
  <2>18. ASSUME NEW c \in Clients, NextAfterCancel(c) PROVE Driven(d)'
    BY <2>0, <2>18 DEF NextAfterCancel, Driven, Drives, Actors, ActorState, Idle
  <2>19. ASSUME NEW c \in Clients, ApiCancelWrite(c) PROVE Driven(d)'
    BY <2>0, <2>19 DEF ApiCancelWrite, Driven, Drives, Actors, ActorState, Idle
  <2>20. ASSUME NEW c \in Clients, SweepOne(c) PROVE Driven(d)'
    BY <2>0, <2>20 DEF SweepOne, Driven, Drives, Actors, ActorState, Idle, Verdict
  <2>21. ASSUME NEW c \in Clients, RequestDeployment(c) PROVE Driven(d)'
    BY <2>0, <2>21 DEF RequestDeployment, Driven, Drives, Actors, ActorState, Idle
  <2>22. ASSUME NEW c \in Clients, OpenDeployment(c) PROVE Driven(d)'
    BY <2>0, <2>22 DEF OpenDeployment, Driven, Drives, Actors, ActorState, Idle
  <2>23. ASSUME NEW c \in Clients, ForceStart(c) PROVE Driven(d)'
    BY <2>0, <2>23 DEF ForceStart, Driven, Drives, Actors, ActorState, Idle
  <2>24. ASSUME NEW c \in Clients, CancelClick(c) PROVE Driven(d)'
    BY <2>0, <2>24 DEF CancelClick, Driven, Drives, Actors, ActorState, Idle
  <2>25. ASSUME NEW c \in Clients, LeavePage(c) PROVE Driven(d)'
    BY <2>0, <2>25 DEF LeavePage, Driven, Drives, Actors, ActorState, Idle
  <2>26. ASSUME NEW c \in Clients, ApiCancelTest(c) PROVE Driven(d)'
    BY <2>0, <2>26 DEF ApiCancelTest, Driven, Drives, Actors, ActorState, Idle
  <2>27. ASSUME NEW c \in Clients, SweepBegin(c) PROVE Driven(d)'
    BY <2>0, <2>27 DEF SweepBegin, Driven, Drives, Actors, ActorState, Idle
  <2>28. CASE Restart
    BY <2>0, <2>28 DEF Restart, Active, Statuses
  <2>29. CASE UNCHANGED vars
    BY <2>0, <2>29 DEF vars, Driven, Drives
  <2> QED
    BY <2>1, <2>2, <2>3, <2>4, <2>5, <2>6, <2>7, <2>8, <2>9, <2>10, <2>11, <2>12, <2>13, <2>14, <2>15, <2>16, <2>17, <2>18, <2>19, <2>20, <2>21, <2>22, <2>23, <2>24, <2>25, <2>26, <2>27, <2>28, <2>29 DEF Next, Helper, WorkerStep, ClientStep, ClientChoice
<1>3. QED
  BY <1>1, <1>2, TypeCorrect, PTL DEF Spec

(* Actor a holds row d. *)
Holds(a, d) ==
    \/ at[a].cur = d /\ at[a].pc \in {"decide", "promote", "view_queued"}
    \/ d \in at[a].todo /\ ~(at[a].pc = "sweep" /\ at[a].goal = "cancelled")
    \/ at[a].own = d /\ at[a].pc \in {"claim", "write"}

(* What a step of actor a changes of the mapping is what it changes of a. *)
LEMMA OneActor ==
    ASSUME NEW a \in Actors, NEW d \in Deployments, \A b \in Actors \ {a} : at'[b] = at[b]
    PROVE  /\ Holds(a, d) => Held(d)
           /\ Holds(a, d)' => Held(d)'
           /\ Held(d)' => Held(d) \/ Holds(a, d)'
           /\ Held(d) => Held(d)' \/ Holds(a, d)
<1>1. Held(d) <=> \E b \in Actors : Holds(b, d)
  BY DEF Held, Holds
<1>2. Held(d)' <=> \E b \in Actors : Holds(b, d)'
  BY DEF Held, Holds
<1>3. \A b \in Actors \ {a} : Holds(b, d)' <=> Holds(b, d)
  BY DEF Holds
<1> QED
  BY <1>1, <1>2, <1>3, Zenon

(* A cancelled row that no request, scan, page, sweep or job read before   *)
(* its cancellation stays cancelled: handle() and isInTerminalState()      *)
(* refresh the row, and snapshots hold queued or active rows only.         *)
THEOREM CancelledStaysCancelled == Spec => CancelIsFinal
<1> DEFINE Final(d) == status[d] = "cancelled" /\ ~Held(d)
<1>1. TypeOK /\ [Next]_vars => [\A d \in Deployments : Final(d) => Final(d)']_vars
  <2> SUFFICES ASSUME TypeOK, [Next]_vars, NEW d \in Deployments, Final(d)
               PROVE  Final(d)'
    OBVIOUS
  <2>0. /\ status \in [Deployments -> Statuses]
        /\ at \in [Actors -> ActorState]
        /\ status[d] = "cancelled" /\ ~Held(d)
    BY DEF TypeOK
  <2> HIDE DEF Final
  <2> SUFFICES status'[d] = "cancelled" /\ ~Held(d)'
    BY DEF Final
  <2>1. ASSUME NEW a \in Actors, CreateRow(a) PROVE status'[d] = "cancelled" /\ ~Held(d)'
    BY <2>0, <2>1 DEF CreateRow, Held, Actors, ActorState, Idle, Rows
  <2>2. ASSUME NEW a \in Actors, Decide(a) PROVE status'[d] = "cancelled" /\ ~Held(d)'
    BY <2>0, <2>2 DEF Decide, Held, Actors, ActorState, Idle
  <2>3. ASSUME NEW a \in Actors, Promote(a) PROVE status'[d] = "cancelled" /\ ~Held(d)'
    BY <2>0, <2>3 DEF Promote, Held, Actors, ActorState, Idle
  <2>4. ASSUME NEW a \in Actors, Dispatch(a) PROVE status'[d] = "cancelled" /\ ~Held(d)'
    <3>1. /\ UNCHANGED status /\ \A b \in Actors \ {a} : at'[b] = at[b]
          /\ at'[a].cur = 0 /\ at'[a].pc \in {"scan", "effects"}
          /\ at'[a].todo = at[a].todo /\ at[a].pc = "dispatch"
      BY <2>0, <2>4, ZenonT(40) DEF Dispatch, ActorState
    <3> QED
      BY <2>0, <3>1, SMTT(40) DEF Held
  <2>5. ASSUME NEW a \in Actors, ScanRow(a) PROVE status'[d] = "cancelled" /\ ~Held(d)'
    <3>1. status' = status /\ \A b \in Actors \ {a} : at'[b] = at[b]
      BY <2>5, ScanRowChanges
    <3>2. ~Holds(a, d)
      BY <2>0, <2>5, <3>1, OneActor
    <3>3. ~Holds(a, d)'
      BY <2>0, <2>5, <3>2, ScanRowChanges DEF Holds
    <3> QED
      BY <2>0, <3>1, <3>2, <3>3, OneActor
  <2>6. ASSUME NEW a \in Actors, ScanEnd(a) PROVE status'[d] = "cancelled" /\ ~Held(d)'
    BY <2>0, <2>6 DEF ScanEnd, Held, Actors, ActorState, Idle
  <2>7. ASSUME NEW a \in Actors, Crash(a) PROVE status'[d] = "cancelled" /\ ~Held(d)'
    BY <2>0, <2>7 DEF Crash, Held, Actors, ActorState, Idle
  <2>8. ASSUME NEW w \in Workers, Reserve(w) PROVE status'[d] = "cancelled" /\ ~Held(d)'
    BY <2>0, <2>8 DEF Reserve, Held, Actors, ActorState, Idle
  <2>9. ASSUME NEW w \in Workers, Redeliver(w) PROVE status'[d] = "cancelled" /\ ~Held(d)'
    BY <2>0, <2>9 DEF Redeliver, Held, Actors, ActorState, Idle
  <2>10. ASSUME NEW w \in Workers, Start(w) PROVE status'[d] = "cancelled" /\ ~Held(d)'
    BY <2>0, <2>10 DEF Start, Held, Actors, ActorState, Idle
  <2>11. ASSUME NEW w \in Workers, Claim(w) PROVE status'[d] = "cancelled" /\ ~Held(d)'
    BY <2>0, <2>11 DEF Claim, Held, Actors, ActorState, Idle
  <2>12. ASSUME NEW w \in Workers, Work(w) PROVE status'[d] = "cancelled" /\ ~Held(d)'
    BY <2>0, <2>12, SMTT(60) DEF Work, Held, Actors, ActorState, Idle
  <2>13. ASSUME NEW w \in Workers, Settle(w) PROVE status'[d] = "cancelled" /\ ~Held(d)'
    <3>1. status' = status /\ \A b \in Actors \ {w} : at'[b] = at[b]
      BY <2>13, SettleChanges
    <3>2. ~Holds(w, d) /\ w \in Actors
      BY <2>0, <2>13, <3>1, OneActor DEF Actors
    <3>3. ~Holds(w, d)'
      BY <2>0, <2>13, <3>2, SettleChanges DEF Holds, Idle, Terminal
    <3> QED
      BY <2>0, <3>1, <3>2, <3>3, OneActor
  <2>14. ASSUME NEW w \in Workers, WriteStatus(w) PROVE status'[d] = "cancelled" /\ ~Held(d)'
    BY <2>0, <2>14 DEF WriteStatus, Held, Actors, ActorState, Idle
  <2>15. ASSUME NEW w \in Workers, FanOutOne(w) PROVE status'[d] = "cancelled" /\ ~Held(d)'
    <3>1. status' = status /\ \A b \in Actors \ {w} : at'[b] = at[b]
      BY <2>15, FanOutChanges
    <3>2. ~Holds(w, d) /\ w \in Actors
      BY <2>0, <2>15, <3>1, OneActor DEF Actors
    <3>3. ~Holds(w, d)'
      BY <2>0, <2>15, <3>2, FanOutChanges DEF Holds
    <3> QED
      BY <2>0, <3>1, <3>2, <3>3, OneActor
  <2>16. ASSUME NEW w \in Workers, QueueNext(w) PROVE status'[d] = "cancelled" /\ ~Held(d)'
    <3>1. status' = status /\ \A b \in Actors \ {w} : at'[b] = at[b]
      BY <2>16, QueueNextChanges
    <3>2. ~Holds(w, d) /\ w \in Actors
      BY <2>0, <2>16, <3>1, OneActor DEF Actors
    <3>3. ~Holds(w, d)'
      BY <2>0, <2>16, <3>2, QueueNextChanges DEF Holds
    <3> QED
      BY <2>0, <3>1, <3>2, <3>3, OneActor
  <2>17. ASSUME NEW w \in Workers, EffectsThrow(w) PROVE status'[d] = "cancelled" /\ ~Held(d)'
    BY <2>0, <2>17 DEF EffectsThrow, Held, Actors, ActorState, Idle
  <2>18. ASSUME NEW c \in Clients, NextAfterCancel(c) PROVE status'[d] = "cancelled" /\ ~Held(d)'
    <3>1. PICK s : at' = [at EXCEPT ![c].pc = "scan", ![c].todo = Snapshot(s), ![c].cur = 0]
      BY <2>18 DEF NextAfterCancel
    <3>2. d \notin Snapshot(s)
      BY <2>0 DEF Snapshot, On
    <3>3. /\ UNCHANGED status /\ c \in Actors /\ \A b \in Actors \ {c} : at'[b] = at[b]
          /\ at'[c].cur = 0 /\ at'[c].pc = "scan" /\ at'[c].todo = Snapshot(s)
      BY <2>0, <2>18, <3>1 DEF NextAfterCancel, ActorState, Actors
    <3> QED
      BY <2>0, <3>2, <3>3 DEF Held
  <2>19. ASSUME NEW c \in Clients, ApiCancelWrite(c) PROVE status'[d] = "cancelled" /\ ~Held(d)'
    BY <2>0, <2>19 DEF ApiCancelWrite, Held, Actors, ActorState, Idle
  <2>20. ASSUME NEW c \in Clients, SweepOne(c) PROVE status'[d] = "cancelled" /\ ~Held(d)'
    BY <2>0, <2>20 DEF SweepOne, Held, Actors, ActorState, Idle, Verdict
  <2>21. ASSUME NEW c \in Clients, RequestDeployment(c) PROVE status'[d] = "cancelled" /\ ~Held(d)'
    BY <2>0, <2>21 DEF RequestDeployment, Held, Actors, ActorState, Idle
  <2>22. ASSUME NEW c \in Clients, OpenDeployment(c) PROVE status'[d] = "cancelled" /\ ~Held(d)'
    BY <2>0, <2>22 DEF OpenDeployment, Held, Actors, ActorState, Idle, Active, Rows
  <2>23. ASSUME NEW c \in Clients, ForceStart(c) PROVE status'[d] = "cancelled" /\ ~Held(d)'
    BY <2>0, <2>23 DEF ForceStart, Held, Actors, ActorState, Idle
  <2>24. ASSUME NEW c \in Clients, CancelClick(c) PROVE status'[d] = "cancelled" /\ ~Held(d)'
    BY <2>0, <2>24 DEF CancelClick, Held, Actors, ActorState, Idle
  <2>25. ASSUME NEW c \in Clients, LeavePage(c) PROVE status'[d] = "cancelled" /\ ~Held(d)'
    BY <2>0, <2>25 DEF LeavePage, Held, Actors, ActorState, Idle
  <2>26. ASSUME NEW c \in Clients, ApiCancelTest(c) PROVE status'[d] = "cancelled" /\ ~Held(d)'
    BY <2>0, <2>26 DEF ApiCancelTest, Held, Actors, ActorState, Idle
  <2>27. ASSUME NEW c \in Clients, SweepBegin(c) PROVE status'[d] = "cancelled" /\ ~Held(d)'
    BY <2>0, <2>27 DEF SweepBegin, Held, Actors, ActorState, Idle, Active, Rows
  <2>28. CASE Restart
    BY <2>0, <2>28 DEF Restart, Active, Held, Idle
  <2>29. CASE UNCHANGED vars
    BY <2>0, <2>29 DEF vars, Held
  <2> QED
    BY <2>1, <2>2, <2>3, <2>4, <2>5, <2>6, <2>7, <2>8, <2>9, <2>10, <2>11, <2>12, <2>13, <2>14, <2>15, <2>16, <2>17, <2>18, <2>19, <2>20, <2>21, <2>22, <2>23, <2>24, <2>25, <2>26, <2>27, <2>28, <2>29 DEF Next, Helper, WorkerStep, ClientStep, ClientChoice
<1>2. QED
  BY <1>1, TypeCorrect, PTL DEF Spec, CancelIsFinal

(* Actor a pursues row d. *)
Pursues(a, d) ==
    \/ at[a].cur = d /\ at[a].pc \in {"decide", "promote", "dispatch", "view_queued",
                                      "view_active", "api_cancel"}
    \/ d \in at[a].todo
    \/ at[a].own = d /\ at[a].pc \in {"start", "claim", "write"}

LEMMA OnePursuer ==
    ASSUME NEW a \in Actors, NEW d \in Deployments, \A b \in Actors \ {a} : at'[b] = at[b],
           jobs' = jobs, ~Pursued(d)
    PROVE  /\ ~Pursues(a, d)
           /\ ~Pursues(a, d)' => ~Pursued(d)'
<1>1. Pursued(d) <=> jobs[d] > 0 \/ \E b \in Actors : Pursues(b, d)
  BY DEF Pursued, Pursues
<1>2. Pursued(d)' <=> jobs'[d] > 0 \/ \E b \in Actors : Pursues(b, d)'
  BY DEF Pursued, Pursues
<1>3. \A b \in Actors \ {a} : Pursues(b, d)' <=> Pursues(b, d)
  BY DEF Pursues
<1> QED
  BY <1>1, <1>2, <1>3, Zenon

(* A verdict stays once no job of the row waits or begins and nobody acts  *)
(* on the row: transitionToStatus looks before it writes, and every read   *)
(* that selects rows by their status leaves a row with a verdict out.  A   *)
(* job that was lost is redelivered to failed() only, which looks too.     *)
THEOREM VerdictStays == Spec => VerdictIsFinal
<1>1. TypeOK /\ [Next]_vars =>
        [\A d \in Deployments : status[d] \in Terminal /\ ~Pursued(d)
            => status'[d] = status[d] /\ ~Pursued(d)']_vars
  <2> SUFFICES ASSUME TypeOK, [Next]_vars, NEW d \in Deployments,
                      status[d] \in Terminal, ~Pursued(d)
               PROVE  status'[d] = status[d] /\ ~Pursued(d)'
    OBVIOUS
  <2>0. /\ status \in [Deployments -> Statuses]
        /\ jobs \in [Deployments -> Nat]
        /\ at \in [Actors -> ActorState]
        /\ status[d] \in {"finished", "failed"} /\ ~Pursued(d) /\ d # 0
    BY Facts DEF TypeOK, Terminal
  <2>1. ASSUME NEW a \in Actors, CreateRow(a) PROVE status'[d] = status[d] /\ ~Pursued(d)'
    BY <2>0, <2>1, SMTT(60) DEF CreateRow, Pursued, Actors, ActorState, Idle, Rows
  <2>2. ASSUME NEW a \in Actors, Decide(a) PROVE status'[d] = status[d] /\ ~Pursued(d)'
    BY <2>0, <2>2, SMTT(60) DEF Decide, Pursued, Actors, ActorState, Idle
  <2>3. ASSUME NEW a \in Actors, Promote(a) PROVE status'[d] = status[d] /\ ~Pursued(d)'
    BY <2>0, <2>3, SMTT(60) DEF Promote, Pursued, Actors, ActorState, Idle
  <2>4. ASSUME NEW a \in Actors, Dispatch(a) PROVE status'[d] = status[d] /\ ~Pursued(d)'
    <3>1. at[a].cur # d
      BY <2>0, <2>4 DEF Pursued, Dispatch
    <3>2. jobs'[d] = jobs[d] /\ UNCHANGED status /\ \A b \in Actors \ {a} : at'[b] = at[b]
      BY <2>0, <2>4, <3>1, DispatchChanges
    <3>3. /\ at'[a].cur = 0 /\ at'[a].pc \in {"scan", "effects"}
          /\ at'[a].todo = at[a].todo /\ at[a].pc = "dispatch"
      BY <2>0, <2>4, DispatchChanges
    <3> QED
      BY <2>0, <3>2, <3>3, SMTT(40) DEF Pursued
  <2>5. ASSUME NEW a \in Actors, ScanRow(a) PROVE status'[d] = status[d] /\ ~Pursued(d)'
    <3>1. UNCHANGED <<status, jobs>> /\ \A b \in Actors \ {a} : at'[b] = at[b]
      BY <2>5, ScanRowChanges
    <3>2. ~Pursues(a, d)
      BY <2>0, <2>5, <3>1, OnePursuer
    <3>3. ~Pursues(a, d)'
      BY <2>0, <2>5, <3>2, ScanRowChanges DEF Pursues
    <3> QED
      BY <2>0, <3>1, <3>2, <3>3, OnePursuer
  <2>6. ASSUME NEW a \in Actors, ScanEnd(a) PROVE status'[d] = status[d] /\ ~Pursued(d)'
    BY <2>0, <2>6, SMTT(60) DEF ScanEnd, Pursued, Actors, ActorState, Idle
  <2>7. ASSUME NEW a \in Actors, Crash(a) PROVE status'[d] = status[d] /\ ~Pursued(d)'
    BY <2>0, <2>7, SMTT(60) DEF Crash, Pursued, Actors, ActorState, Idle
  <2>8. ASSUME NEW w \in Workers, Reserve(w) PROVE status'[d] = status[d] /\ ~Pursued(d)'
    BY <2>0, <2>8, SMTT(60) DEF Reserve, Pursued, Actors, ActorState, Idle
  <2>9. ASSUME NEW w \in Workers, Redeliver(w) PROVE status'[d] = status[d] /\ ~Pursued(d)'
    BY <2>0, <2>9, SMTT(60) DEF Redeliver, Pursued, Actors, ActorState, Idle
  <2>10. ASSUME NEW w \in Workers, Start(w) PROVE status'[d] = status[d] /\ ~Pursued(d)'
    BY <2>0, <2>10, SMTT(60) DEF Start, Pursued, Actors, ActorState, Idle, Terminal
  <2>11. ASSUME NEW w \in Workers, Claim(w) PROVE status'[d] = status[d] /\ ~Pursued(d)'
    BY <2>0, <2>11, SMTT(60) DEF Claim, Pursued, Actors, ActorState, Idle
  <2>12. ASSUME NEW w \in Workers, Work(w) PROVE status'[d] = status[d] /\ ~Pursued(d)'
    BY <2>0, <2>12, SMTT(60) DEF Work, Pursued, Actors, ActorState, Idle
  <2>13. ASSUME NEW w \in Workers, Settle(w) PROVE status'[d] = status[d] /\ ~Pursued(d)'
    <3>1. UNCHANGED <<status, jobs>> /\ \A b \in Actors \ {w} : at'[b] = at[b]
      BY <2>13, SettleChanges
    <3>2. ~Pursues(w, d) /\ w \in Actors
      BY <2>0, <2>13, <3>1, OnePursuer DEF Actors
    <3>3. ~Pursues(w, d)'
      BY <2>0, <2>13, <3>2, SettleChanges DEF Pursues, Idle, Terminal
    <3> QED
      BY <2>0, <3>1, <3>2, <3>3, OnePursuer
  <2>14. ASSUME NEW w \in Workers, WriteStatus(w) PROVE status'[d] = status[d] /\ ~Pursued(d)'
    BY <2>0, <2>14, SMTT(60) DEF WriteStatus, Pursued, Actors, ActorState, Idle
  <2>15. ASSUME NEW w \in Workers, FanOutOne(w) PROVE status'[d] = status[d] /\ ~Pursued(d)'
    <3>1. UNCHANGED <<status, jobs>> /\ \A b \in Actors \ {w} : at'[b] = at[b]
      BY <2>15, FanOutChanges
    <3>2. ~Pursues(w, d) /\ w \in Actors
      BY <2>0, <2>15, <3>1, OnePursuer DEF Actors
    <3>3. ~Pursues(w, d)'
      BY <2>0, <2>15, <3>2, FanOutChanges DEF Pursues
    <3> QED
      BY <2>0, <3>1, <3>2, <3>3, OnePursuer
  <2>16. ASSUME NEW w \in Workers, QueueNext(w) PROVE status'[d] = status[d] /\ ~Pursued(d)'
    <3>1. UNCHANGED <<status, jobs>> /\ \A b \in Actors \ {w} : at'[b] = at[b]
      BY <2>16, QueueNextChanges
    <3>2. ~Pursues(w, d) /\ w \in Actors
      BY <2>0, <2>16, <3>1, OnePursuer DEF Actors
    <3>3. ~Pursues(w, d)'
      BY <2>0, <2>16, <3>2, QueueNextChanges DEF Pursues, Terminal
    <3> QED
      BY <2>0, <3>1, <3>2, <3>3, OnePursuer
  <2>17. ASSUME NEW w \in Workers, EffectsThrow(w) PROVE status'[d] = status[d] /\ ~Pursued(d)'
    BY <2>0, <2>17, SMTT(60) DEF EffectsThrow, Pursued, Actors, ActorState, Idle
  <2>18. ASSUME NEW c \in Clients, NextAfterCancel(c) PROVE status'[d] = status[d] /\ ~Pursued(d)'
    <3>1. PICK s : at' = [at EXCEPT ![c].pc = "scan", ![c].todo = Snapshot(s), ![c].cur = 0]
      BY <2>18 DEF NextAfterCancel
    <3>2. d \notin Snapshot(s)
      BY <2>0 DEF Snapshot, On, Terminal
    <3>3. /\ UNCHANGED <<status, jobs>> /\ c \in Actors /\ \A b \in Actors \ {c} : at'[b] = at[b]
          /\ at'[c].cur = 0 /\ at'[c].pc = "scan" /\ at'[c].todo = Snapshot(s)
      BY <2>0, <2>18, <3>1 DEF NextAfterCancel, ActorState, Actors
    <3> QED
      BY <2>0, <3>2, <3>3 DEF Pursued
  <2>19. ASSUME NEW c \in Clients, ApiCancelWrite(c) PROVE status'[d] = status[d] /\ ~Pursued(d)'
    BY <2>0, <2>19, SMTT(60) DEF ApiCancelWrite, Pursued, Actors, ActorState, Idle
  <2>20. ASSUME NEW c \in Clients, SweepOne(c) PROVE status'[d] = status[d] /\ ~Pursued(d)'
    BY <2>0, <2>20, SMTT(60) DEF SweepOne, Pursued, Actors, ActorState, Idle, Verdict
  <2>21. ASSUME NEW c \in Clients, RequestDeployment(c) PROVE status'[d] = status[d] /\ ~Pursued(d)'
    BY <2>0, <2>21, SMTT(60) DEF RequestDeployment, Pursued, Actors, ActorState, Idle
  <2>22. ASSUME NEW c \in Clients, OpenDeployment(c) PROVE status'[d] = status[d] /\ ~Pursued(d)'
    BY <2>0, <2>22, SMTT(60) DEF OpenDeployment, Pursued, Actors, ActorState, Idle, Active, Rows, Terminal
  <2>23. ASSUME NEW c \in Clients, ForceStart(c) PROVE status'[d] = status[d] /\ ~Pursued(d)'
    BY <2>0, <2>23, SMTT(60) DEF ForceStart, Pursued, Actors, ActorState, Idle
  <2>24. ASSUME NEW c \in Clients, CancelClick(c) PROVE status'[d] = status[d] /\ ~Pursued(d)'
    BY <2>0, <2>24, SMTT(60) DEF CancelClick, Pursued, Actors, ActorState, Idle
  <2>25. ASSUME NEW c \in Clients, LeavePage(c) PROVE status'[d] = status[d] /\ ~Pursued(d)'
    BY <2>0, <2>25, SMTT(60) DEF LeavePage, Pursued, Actors, ActorState, Idle
  <2>26. ASSUME NEW c \in Clients, ApiCancelTest(c) PROVE status'[d] = status[d] /\ ~Pursued(d)'
    BY <2>0, <2>26, SMTT(60) DEF ApiCancelTest, Pursued, Actors, ActorState, Idle, Active, Terminal
  <2>27. ASSUME NEW c \in Clients, SweepBegin(c) PROVE status'[d] = status[d] /\ ~Pursued(d)'
    BY <2>0, <2>27, SMTT(60) DEF SweepBegin, Pursued, Actors, ActorState, Idle, Active, Rows, Terminal
  <2>28. CASE Restart
    BY <2>0, <2>28 DEF Restart, Active, Pursued, Idle
  <2>29. CASE UNCHANGED vars
    BY <2>0, <2>29 DEF vars, Pursued
  <2> QED
    BY <2>1, <2>2, <2>3, <2>4, <2>5, <2>6, <2>7, <2>8, <2>9, <2>10, <2>11, <2>12, <2>13, <2>14, <2>15, <2>16, <2>17, <2>18, <2>19, <2>20, <2>21, <2>22, <2>23, <2>24, <2>25, <2>26, <2>27, <2>28, <2>29 DEF Next, Helper, WorkerStep, ClientStep, ClientChoice
<1>2. QED
  BY <1>1, TypeCorrect, PTL DEF Spec, VerdictIsFinal

(* The rows an actor knows of. *)
Refers(a) == ({at[a].own, at[a].cur} \ {0}) \cup at[a].todo
(* Every row known to an actor or to the Horizon queue was inserted. *)
References ==
    /\ \A a \in Actors : Refers(a) \subseteq Rows
    /\ \A d \in Deployments : jobs[d] > 0 \/ lost[d] > 0 => d \in Rows

(* No row is deleted while it is active, and every reference is taken from *)
(* the table: a snapshot, a page or a job never names a missing row.       *)
LEMMA ReferencesExist == Spec => []References
<1>1. Init => References
  BY DEF Init, References, Refers, Idle
<1>2. TypeOK /\ References /\ [Next]_vars => References'
  <2> SUFFICES ASSUME TypeOK, References, [Next]_vars
               PROVE  References'
    OBVIOUS
  <2>0. /\ status \in [Deployments -> Statuses]
        /\ jobs \in [Deployments -> Nat] /\ lost \in [Deployments -> Nat]
        /\ at \in [Actors -> ActorState]
    BY DEF TypeOK
  <2>1. ASSUME NEW a \in Actors, CreateRow(a) PROVE References'
    BY <2>0, <2>1 DEF CreateRow, References, Refers, Rows, Actors, ActorState, Idle
  <2>2. ASSUME NEW a \in Actors, Decide(a) PROVE References'
    BY <2>0, <2>2, SMTT(40) DEF Decide, References, Refers, Rows, Actors, ActorState, Idle
  <2>3. ASSUME NEW a \in Actors, Promote(a) PROVE References'
    BY <2>0, <2>3 DEF Promote, References, Refers, Rows, Actors, ActorState, Idle
  <2>4. ASSUME NEW a \in Actors, Dispatch(a) PROVE References'
    <3>1. /\ jobs' = [jobs EXCEPT ![at[a].cur] = @ + 1] /\ UNCHANGED <<status, lost>>
          /\ \A b \in Actors \ {a} : at'[b] = at[b]
          /\ at'[a].own = at[a].own /\ at'[a].cur = 0 /\ at'[a].todo = at[a].todo
      BY <2>0, <2>4, ZenonT(40) DEF Dispatch, ActorState
    <3>2. \A b \in Actors : Refers(b)' \subseteq Rows /\ Rows' = Rows
      BY <3>1 DEF References, Refers, Rows
    <3>3. \A d \in Deployments : jobs'[d] > 0 => jobs[d] > 0 \/ d = at[a].cur
      BY <2>0, <3>1
    <3>4. \A d \in Deployments : jobs'[d] > 0 \/ lost'[d] > 0 => d \in Rows
      <4> SUFFICES ASSUME NEW d \in Deployments, jobs'[d] > 0 \/ lost'[d] > 0
                   PROVE  d \in Rows
        OBVIOUS
      <4>1. d # 0
        BY Facts
      <4> QED
        BY <3>1, <3>3, <4>1 DEF References, Refers
    <3> QED
      BY <3>2, <3>4 DEF References
  <2>5. ASSUME NEW a \in Actors, ScanRow(a) PROVE References'
    BY <2>0, <2>5 DEF ScanRow, References, Refers, Rows, Actors, ActorState, Idle
  <2>6. ASSUME NEW a \in Actors, ScanEnd(a) PROVE References'
    BY <2>0, <2>6 DEF ScanEnd, References, Refers, Rows, Actors, ActorState, Idle
  <2>7. ASSUME NEW a \in Actors, Crash(a) PROVE References'
    <3>1. /\ UNCHANGED <<status, jobs>>
          /\ lost' = [d \in Deployments |-> lost[d] + IF Reserved(a, d) THEN 1 ELSE 0]
          /\ at' = [at EXCEPT ![a] = Idle]
      BY <2>7 DEF Crash
    <3>2. \A b \in Actors : Refers(b)' \subseteq Rows /\ Rows' = Rows
      BY <2>0, <3>1 DEF References, Refers, Rows, Idle
    <3>3. \A d \in Deployments : lost'[d] > 0 => lost[d] > 0 \/ at[a].own = d
      BY <2>0, <3>1 DEF Reserved
    <3>4. \A d \in Deployments : jobs'[d] > 0 \/ lost'[d] > 0 => d \in Rows
      <4> SUFFICES ASSUME NEW d \in Deployments, jobs'[d] > 0 \/ lost'[d] > 0
                   PROVE  d \in Rows
        OBVIOUS
      <4>1. d # 0
        BY Facts
      <4> QED
        BY <3>1, <3>3, <4>1 DEF References, Refers
    <3> QED
      BY <3>2, <3>4 DEF References
  <2>8. ASSUME NEW w \in Workers, Reserve(w) PROVE References'
    BY <2>0, <2>8 DEF Reserve, References, Refers, Rows, Actors, ActorState, Idle
  <2>9. ASSUME NEW w \in Workers, Redeliver(w) PROVE References'
    BY <2>0, <2>9 DEF Redeliver, References, Refers, Rows, Actors, ActorState, Idle
  <2>10. ASSUME NEW w \in Workers, Start(w) PROVE References'
    BY <2>0, <2>10 DEF Start, References, Refers, Rows, Actors, ActorState, Idle
  <2>11. ASSUME NEW w \in Workers, Claim(w) PROVE References'
    BY <2>0, <2>11 DEF Claim, References, Refers, Rows, Actors, ActorState, Idle
  <2>12. ASSUME NEW w \in Workers, Work(w) PROVE References'
    BY <2>0, <2>12, SMTT(30) DEF Work, References, Refers, Rows, Actors, ActorState
  <2>13. ASSUME NEW w \in Workers, Settle(w) PROVE References'
    <3>1. /\ UNCHANGED <<status, jobs, lost>> /\ \A b \in Actors \ {w} : at'[b] = at[b]
          /\ \/ at'[w] = Idle
             \/ /\ at'[w].own = at[w].own /\ at'[w].cur = at[w].cur
                /\ at'[w].todo = at[w].todo
      BY <2>13, SettleChanges
    <3>2. w \in Actors /\ Refers(w)' \subseteq Refers(w)
      BY <3>1 DEF Refers, Idle, Actors
    <3> QED
      BY <3>1, <3>2 DEF References, Refers, Rows
  <2>14. ASSUME NEW w \in Workers, WriteStatus(w) PROVE References'
    BY <2>0, <2>14 DEF WriteStatus, References, Refers, Rows, Actors, ActorState, Idle, Verdict
  <2>15. ASSUME NEW w \in Workers, FanOutOne(w) PROVE References'
    BY <2>0, <2>15, FanOutChanges DEF References, Refers, Rows, Actors
  <2>16. ASSUME NEW w \in Workers, QueueNext(w) PROVE References'
    BY <2>0, <2>16 DEF QueueNext, References, Refers, Rows, Actors, ActorState, Idle, Snapshot, On
  <2>17. ASSUME NEW w \in Workers, EffectsThrow(w) PROVE References'
    BY <2>0, <2>17 DEF EffectsThrow, References, Refers, Rows, Actors, ActorState, Idle
  <2>18. ASSUME NEW c \in Clients, NextAfterCancel(c) PROVE References'
    <3>1. PICK s : at' = [at EXCEPT ![c].pc = "scan", ![c].todo = Snapshot(s), ![c].cur = 0]
      BY <2>18 DEF NextAfterCancel
    <3>2. Snapshot(s) \subseteq Rows
      BY DEF Snapshot, On
    <3>3. /\ UNCHANGED <<status, jobs, lost>>
          /\ \A b \in Actors \ {c} : at'[b] = at[b]
          /\ at'[c].own = at[c].own /\ at'[c].cur = 0 /\ at'[c].todo = Snapshot(s)
      BY <2>0, <2>18, <3>1 DEF NextAfterCancel, ActorState, Actors
    <3> QED
      BY <3>2, <3>3 DEF References, Refers, Rows
  <2>19. ASSUME NEW c \in Clients, ApiCancelWrite(c) PROVE References'
    BY <2>0, <2>19 DEF ApiCancelWrite, References, Refers, Rows, Actors, ActorState, Idle
  <2>20. ASSUME NEW c \in Clients, SweepOne(c) PROVE References'
    BY <2>0, <2>20 DEF SweepOne, References, Refers, Rows, Actors, ActorState, Idle, Verdict
  <2>21. ASSUME NEW c \in Clients, RequestDeployment(c) PROVE References'
    BY <2>0, <2>21 DEF RequestDeployment, References, Refers, Rows, Actors, ActorState, Idle
  <2>22. ASSUME NEW c \in Clients, OpenDeployment(c) PROVE References'
    BY <2>0, <2>22 DEF OpenDeployment, References, Refers, Rows, Actors, ActorState, Idle
  <2>23. ASSUME NEW c \in Clients, ForceStart(c) PROVE References'
    BY <2>0, <2>23 DEF ForceStart, References, Refers, Rows, Actors, ActorState, Idle
  <2>24. ASSUME NEW c \in Clients, CancelClick(c) PROVE References'
    BY <2>0, <2>24 DEF CancelClick, References, Refers, Rows, Actors, ActorState, Idle
  <2>25. ASSUME NEW c \in Clients, LeavePage(c) PROVE References'
    BY <2>0, <2>25 DEF LeavePage, References, Refers, Rows, Actors, ActorState, Idle
  <2>26. ASSUME NEW c \in Clients, ApiCancelTest(c) PROVE References'
    BY <2>0, <2>26 DEF ApiCancelTest, References, Refers, Rows, Actors, ActorState, Idle
  <2>27. ASSUME NEW c \in Clients, SweepBegin(c) PROVE References'
    BY <2>0, <2>27 DEF SweepBegin, References, Refers, Rows, Actors, ActorState, Idle
  <2>28. CASE Restart
    <3>1. Rows' = Rows /\ UNCHANGED jobs /\ at' = [a \in Actors |-> Idle]
      BY <2>0, <2>28 DEF Restart, Rows, Active
    <3>2. \A d \in Deployments : lost'[d] > 0 =>
             lost[d] > 0 \/ \E a \in Actors : Reserved(a, d)
      <4>1. \A d \in Deployments : {a \in Actors : Reserved(a, d)} = {}
                 => lost'[d] = lost[d] + 0
        BY <2>28, FS_EmptySet DEF Restart
      <4> QED
        BY <2>0, <4>1
    <3>3. \A d \in Deployments : jobs'[d] > 0 \/ lost'[d] > 0 => d \in Rows
      <4> SUFFICES ASSUME NEW d \in Deployments, jobs'[d] > 0 \/ lost'[d] > 0
                   PROVE  d \in Rows
        OBVIOUS
      <4>1. d # 0
        BY Facts
      <4> QED
        BY <3>1, <3>2, <4>1 DEF References, Refers, Reserved
    <3>4. \A a \in Actors : Refers(a)' = {}
      BY <3>1 DEF Refers, Idle
    <3> QED
      BY <3>1, <3>3, <3>4 DEF References
  <2>29. CASE UNCHANGED vars
    BY <2>0, <2>29 DEF vars, References, Refers, Rows
  <2> QED
    BY <2>1, <2>2, <2>3, <2>4, <2>5, <2>6, <2>7, <2>8, <2>9, <2>10, <2>11, <2>12, <2>13, <2>14, <2>15, <2>16, <2>17, <2>18, <2>19, <2>20, <2>21, <2>22, <2>23, <2>24, <2>25, <2>26, <2>27, <2>28, <2>29 DEF Next, Helper, WorkerStep, ClientStep, ClientChoice
<1>3. QED
  BY <1>1, <1>2, TypeCorrect, PTL DEF Spec
=============================================================================
