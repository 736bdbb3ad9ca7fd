---------------------- MODULE DeploymentQueueScanProofs ----------------------
(***************************************************************************)
(* No lost wake-up: the scans that follow every status write look at every *)
(* queued row, for every value of the constants of DeploymentQueue with    *)
(* OneHome.  And the limits of a server, of its queue and of its builds,   *)
(* for every value of them.                                                *)
(***************************************************************************)
EXTENDS DeploymentQueueProofs, FunctionTheorems

(* In one home every row, inserted or about to be, is of the main server   *)
(* of its application, nobody fans out, and only a scan has rows to visit. *)
HomeRows ==
    /\ \A d \in Rows : row[d].server = MainServer[row[d].app]
    /\ \A a \in Actors :
        /\ at[a].pc = "create" => at[a].req.server = MainServer[at[a].req.app]
        /\ at[a].pc = "decide" => row[at[a].cur] = at[a].req
        /\ at[a].dests = {}
        /\ at[a].pc \notin {"api_cancel", "sweep"}
        /\ at[a].todo # {} => at[a].pc \in {"scan", "promote", "dispatch"}

HomeInv == OneHome => HomeRows

(* Who acts on a row or runs a job has one that was inserted: the rows are *)
(* created before they are promoted, viewed or dispatched.                 *)
LEMMA RowsInUse ==
    ASSUME TypeOK, References, NEW a \in Actors
    PROVE  /\ at[a].pc \in RowLabels => at[a].cur \in Rows
           /\ at[a].pc \in JobLabels => at[a].own \in Rows
  BY DEF TypeOK, References, Refers

(* The servers agree all along: queue_application_deployment writes the    *)
(* server of the request, and nothing rewrites it.                         *)
LEMMA HomeRowsHold == Spec => []HomeInv
<1>1. Init => HomeInv
  BY DEF Init, HomeInv, HomeRows, Idle, Rows
<1>2. TypeOK /\ References /\ HomeInv /\ [Next]_vars => HomeInv'
  <2> SUFFICES ASSUME TypeOK, References, OneHome, HomeRows, [Next]_vars
               PROVE  HomeRows'
    BY DEF HomeInv
  <2>0. /\ status \in [Deployments -> Statuses]
        /\ row \in [Deployments -> Request]
        /\ at \in [Actors -> ActorState]
    BY DEF TypeOK
  <2>1. ASSUME NEW a \in Actors, CreateRow(a) PROVE HomeRows'
    <3>1. PICK d \in Deployments \ Rows :
            /\ status' = [status EXCEPT ![d] = "queued"]
            /\ row' = [row EXCEPT ![d] = at[a].req]
            /\ at' = [at EXCEPT ![a].pc = "decide", ![a].cur = d]
            /\ at[a].pc = "create"
      BY <2>1 DEF CreateRow
    <3>2. /\ Rows' = Rows \cup {d} /\ row'[d] = at[a].req
          /\ \A e \in Rows : row'[e] = row[e]
      BY <2>0, <3>1 DEF Rows
    <3>3. \A e \in Rows' : row'[e].server = MainServer[row'[e].app]
      BY <3>1, <3>2 DEF HomeRows
    <3>4. ASSUME NEW b \in Actors
          PROVE  /\ at'[b].pc = "create" => at'[b].req.server = MainServer[at'[b].req.app]
                 /\ at'[b].pc = "decide" => row'[at'[b].cur] = at'[b].req
                 /\ at'[b].dests = {}
                 /\ at'[b].pc \notin {"api_cancel", "sweep"}
                 /\ at'[b].todo # {} => at'[b].pc \in {"scan", "promote", "dispatch"}
      <4>1. CASE b = a
        BY <2>0, <3>1, <3>2, <4>1 DEF HomeRows, ActorState
      <4>2. CASE b # a
        <5>1. at'[b] = at[b]
          BY <2>0, <3>1, <4>2
        <5> QED
          BY <3>2, <5>1, RowsInUse DEF HomeRows, RowLabels
      <4> QED
        BY <4>1, <4>2
    <3> QED
      BY <3>3, <3>4 DEF HomeRows
  <2>2. ASSUME NEW a \in Actors, Decide(a) PROVE HomeRows'
    BY <2>0, <2>2 DEF Decide, HomeRows, Rows, Actors, ActorState, Idle
  <2>3. ASSUME NEW a \in Actors, Promote(a) PROVE HomeRows'
    <3>1. at[a].cur \in Rows /\ Rows' = Rows /\ row' = row
      BY <2>0, <2>3, RowsInUse DEF Promote, Rows, Actors, RowLabels
    <3> QED
      BY <2>0, <2>3, <3>1 DEF Promote, HomeRows, Actors, ActorState
  <2>4. ASSUME NEW a \in Actors, Dispatch(a) PROVE HomeRows'
    <3>1. /\ UNCHANGED <<status, row>> /\ \A b \in Actors \ {a} : at'[b] = at[b]
          /\ at'[a].pc = "scan" /\ at'[a].dests = {} /\ at'[a].todo = at[a].todo
      <4>1. at[a].dests = {}
        BY DEF HomeRows
      <4>2. {} \ {row[at[a].cur].server} = {}
        OBVIOUS
      <4> QED
        BY <2>0, <2>4, <4>1, <4>2 DEF Dispatch, ActorState
    <3> QED
      BY <2>0, <3>1 DEF HomeRows, Rows
  <2>5. ASSUME NEW a \in Actors, ScanRow(a) PROVE HomeRows'
    <3>1. /\ UNCHANGED <<status, row>> /\ \A b \in Actors \ {a} : at'[b] = at[b]
          /\ at[a].pc = "scan" /\ at'[a].pc \in {"scan", "promote"}
      BY <2>5, ScanRowChanges
    <3>2. at'[a].dests = at[a].dests
      BY <2>0, <2>5 DEF ScanRow, ActorState
    <3> QED
      BY <3>1, <3>2 DEF HomeRows, Rows
  <2>6. ASSUME NEW a \in Actors, ScanEnd(a) PROVE HomeRows'
    BY <2>0, <2>6 DEF ScanEnd, HomeRows, Rows, Actors, ActorState, Idle
  <2>7. ASSUME NEW a \in Actors, Crash(a) PROVE HomeRows'
    BY <2>7 DEF Crash, OneHome
  <2>8. ASSUME NEW w \in Workers, Reserve(w) PROVE HomeRows'
    BY <2>0, <2>8 DEF Reserve, HomeRows, Rows, Actors, ActorState, Idle
  <2>9. ASSUME NEW w \in Workers, Redeliver(w) PROVE HomeRows'
    BY <2>0, <2>9 DEF Redeliver, HomeRows, Rows, Actors, ActorState, Idle
  <2>10. ASSUME NEW w \in Workers, Start(w) PROVE HomeRows'
    BY <2>0, <2>10 DEF Start, HomeRows, Rows, Actors, ActorState, Idle
  <2>11. ASSUME NEW w \in Workers, Claim(w) PROVE HomeRows'
    <3>1. at[w].own \in Rows /\ Rows' = Rows /\ row' = row
      BY <2>0, <2>11, RowsInUse DEF Claim, Rows, Actors, JobLabels
    <3> QED
      BY <2>0, <2>11, <3>1 DEF Claim, HomeRows, Actors, ActorState
  <2>12. ASSUME NEW w \in Workers, Work(w) PROVE HomeRows'
    BY <2>0, <2>12, SMTT(60) DEF Work, HomeRows, Rows, Actors, ActorState, Idle
  <2>13. ASSUME NEW w \in Workers, Settle(w) PROVE HomeRows'
    <3>1. /\ UNCHANGED <<status, row>> /\ \A b \in Actors \ {w} : at'[b] = at[b]
          /\ at[w].pc = "settle" /\ w \in Actors
          /\ \/ at'[w] = Idle
             \/ at'[w].todo = at[w].todo /\ at'[w].pc \in {"settle", "write"}
      BY <2>13, SettleChanges DEF Actors
    <3>2. at'[w].dests \in {at[w].dests, {}}
      BY <2>0, <2>13, <3>1 DEF Settle, ActorState, Idle
    <3> QED
      BY <3>1, <3>2 DEF HomeRows, Rows, Idle
  <2>14. ASSUME NEW w \in Workers, WriteStatus(w) PROVE HomeRows'
    <3>1. at[w].own \in Rows /\ Rows' = Rows /\ row' = row
      BY <2>0, <2>14, RowsInUse DEF WriteStatus, Rows, Actors, JobLabels, Verdict
    <3>2. FanOut(at[w].own) = {}
      BY <3>1, Facts DEF OneHome, FanOut, Rows
    <3>3. at' = [at EXCEPT ![w].pc = "effects", ![w].dests = {}]
      BY <2>14, <3>2 DEF WriteStatus
    <3>4. w \in Actors /\ at[w].todo = {}
      BY <2>14 DEF WriteStatus, HomeRows, Actors
    <3>5. /\ at'[w].pc = "effects" /\ at'[w].dests = {} /\ at'[w].todo = {}
          /\ \A b \in Actors \ {w} : at'[b] = at[b]
      BY <2>0, <3>3, <3>4 DEF ActorState
    <3>6. \A b \in Actors \ {w} : at[b].pc = "decide" => at[b].cur \in Rows
      BY RowsInUse DEF RowLabels
    <3> QED
      BY <3>1, <3>5, <3>6 DEF HomeRows
  <2>15. ASSUME NEW w \in Workers, FanOutOne(w) PROVE HomeRows'
    BY <2>0, <2>15 DEF FanOutOne, HomeRows, Rows, Actors, ActorState, Idle
  <2>16. ASSUME NEW w \in Workers, QueueNext(w) PROVE HomeRows'
    BY <2>0, <2>16 DEF QueueNext, HomeRows, Rows, Actors, ActorState, Idle
  <2>17. ASSUME NEW w \in Workers, EffectsThrow(w) PROVE HomeRows'
    BY <2>17 DEF EffectsThrow, OneHome
  <2>18. ASSUME NEW c \in Clients, NextAfterCancel(c) PROVE HomeRows'
    BY <2>0, <2>18 DEF NextAfterCancel, HomeRows, Rows, Actors, ActorState, Idle
  <2>19. ASSUME NEW c \in Clients, ApiCancelWrite(c) PROVE HomeRows'
    BY <2>0, <2>19 DEF ApiCancelWrite, HomeRows, Rows, Actors, ActorState, Idle
  <2>20. ASSUME NEW c \in Clients, SweepOne(c) PROVE HomeRows'
    BY <2>0, <2>20 DEF SweepOne, HomeRows, Rows, Actors, ActorState, Idle, Verdict
  <2>21. ASSUME NEW c \in Clients, RequestDeployment(c) PROVE HomeRows'
    <3>1. PICK r \in ClientRequests : at' = [at EXCEPT ![c].pc = "create", ![c].req = r]
      BY <2>21 DEF RequestDeployment
    <3>2. UNCHANGED <<status, row>> /\ c \in Actors /\ r.server = MainServer[r.app]
      BY <2>21 DEF RequestDeployment, Actors, OneHome
    <3>3. at[c].todo = {}
      BY <2>21, <3>2 DEF RequestDeployment, HomeRows
    <3>4. /\ at'[c].pc = "create" /\ at'[c].req = r /\ at'[c].dests = at[c].dests
          /\ at'[c].todo = {} /\ \A b \in Actors \ {c} : at'[b] = at[b]
      BY <2>0, <3>1, <3>2, <3>3 DEF ActorState
    <3> QED
      BY <3>2, <3>4 DEF HomeRows, Rows
  <2>22. ASSUME NEW c \in Clients, OpenDeployment(c) PROVE HomeRows'
    BY <2>0, <2>22 DEF OpenDeployment, HomeRows, Rows, Actors, ActorState, Idle
  <2>23. ASSUME NEW c \in Clients, ForceStart(c) PROVE HomeRows'
    <3>1. at[c].cur \in Rows /\ Rows' = Rows /\ row' = row
      BY <2>0, <2>23, RowsInUse DEF ForceStart, Rows, Actors, RowLabels
    <3> QED
      BY <2>0, <2>23, <3>1 DEF ForceStart, HomeRows, Actors, ActorState
  <2>24. ASSUME NEW c \in Clients, CancelClick(c) PROVE HomeRows'
    <3>1. at[c].cur \in Rows /\ Rows' = Rows /\ row' = row
      BY <2>0, <2>24, RowsInUse DEF CancelClick, Rows, Actors, RowLabels
    <3> QED
      BY <2>0, <2>24, <3>1 DEF CancelClick, HomeRows, Actors, ActorState
  <2>25. ASSUME NEW c \in Clients, LeavePage(c) PROVE HomeRows'
    BY <2>0, <2>25 DEF LeavePage, HomeRows, Rows, Actors, ActorState, Idle
  <2>26. ASSUME NEW c \in Clients, ApiCancelTest(c) PROVE HomeRows'
    BY <2>26 DEF ApiCancelTest, OneHome
  <2>27. ASSUME NEW c \in Clients, SweepBegin(c) PROVE HomeRows'
    BY <2>27 DEF SweepBegin, OneHome
  <2>28. CASE Restart
    BY <2>28 DEF Restart, OneHome
  <2>29. CASE UNCHANGED vars
    BY <2>0, <2>29 DEF vars, HomeRows, Rows
  <2> QED
    BY <2>1, <2>2, <2>3, <2>4, <2>5, <2>6, <2>7, <2>8, <2>9, <2>10, <2>11, <2>12, <2>13, <2>14, <2>15, <2>16, <2>17, <2>18, <2>19, <2>20, <2>21, <2>22, <2>23, <2>24, <2>25, <2>26, <2>27, <2>28, <2>29 DEF Next, Helper, WorkerStep, ClientStep, ClientChoice
<1>3. QED
  BY <1>1, <1>2, TypeCorrect, ReferencesExist, PTL DEF Spec

(* QueueServed, row by row. *)
Served(d) == \/ On(row[d].server, "in_progress") # {}
             \/ \E a \in Actors : WillTest(a, d)
HomeServed == OneHome => QueueServed

(* next_queuable refuses a row only because of a row in progress on the    *)
(* same server: the end of that one looks at the queue again.              *)
LEMMA BlockedByProgress ==
    ASSUME TypeOK, OneHome, HomeRows, NEW d \in Rows, ~next_queuable(row[d])
    PROVE  On(row[d].server, "in_progress") # {}
<1>1. CASE \E e \in Rows : status[e] = "in_progress" /\ SameSlot(row[e], row[d])
  BY <1>1 DEF SameSlot, HomeRows, On
<1>2. CASE ~(Cardinality(On(row[d].server, "in_progress")) < ConcurrentBuilds[row[d].server])
  <2>1. ConcurrentBuilds[row[d].server] \in Nat \ {0}
    BY ConstantsAssumption DEF TypeOK, Rows, Request
  <2>2. Cardinality({}) = 0
    BY FS_EmptySet
  <2> QED
    BY <1>2, <2>1, <2>2
<1> QED
  BY <1>1, <1>2 DEF next_queuable

(* A step of one actor that ends no deployment leaves a row served, unless *)
(* it was that actor that was going to test it.                            *)
LEMMA ServedFrame ==
    ASSUME TypeOK, References, NEW d \in Rows, Served(d), NEW a \in Actors,
           \A e \in Rows : row'[e] = row[e],
           \A e \in Rows : status[e] = "in_progress" => status'[e] = "in_progress",
           \A b \in Actors \ {a} : at'[b] = at[b],
           WillTest(a, d) => Served(d)'
    PROVE  Served(d)'
<1>1. CASE On(row[d].server, "in_progress") # {}
  BY <1>1 DEF Served, On, Rows
<1>2. ASSUME NEW b \in Actors \ {a}, WillTest(b, d)
      PROVE  WillTest(b, d)'
  BY <1>2, RowsInUse DEF WillTest, RowLabels, JobLabels
<1> QED
  BY <1>1, <1>2 DEF Served

(* In one home, a queued row always has a deployment in progress on its    *)
(* server or an actor about to test it: no interleaving of requests with   *)
(* queue_next_deployment and next_after_cancel leaves it behind.           *)
THEOREM NoWakeupLost == Spec => []NoLostWakeup
<1>1. Init => HomeServed
  BY DEF Init, HomeServed, QueueServed, Rows
<1>2. TypeOK /\ References /\ HomeInv /\ HomeServed /\ [Next]_vars => HomeServed'
  <2> SUFFICES ASSUME TypeOK, References, HomeRows, OneHome, QueueServed, [Next]_vars,
                      NEW d \in Deployments, status'[d] = "queued"
               PROVE  Served(d)'
    BY DEF HomeInv, HomeServed, QueueServed, Served, Rows
  <2>0. /\ status \in [Deployments -> Statuses]
        /\ row \in [Deployments -> Request]
        /\ at \in [Actors -> ActorState]
        /\ status[d] = "queued" => Served(d) /\ d \in Rows
    BY DEF TypeOK, QueueServed, Served, Rows
  <2>1. ASSUME NEW a \in Actors, CreateRow(a) PROVE Served(d)'
    <3>1. PICK e \in Deployments \ Rows :
            /\ status' = [status EXCEPT ![e] = "queued"]
            /\ row' = [row EXCEPT ![e] = at[a].req]
            /\ at' = [at EXCEPT ![a].pc = "decide", ![a].cur = e]
            /\ at[a].pc = "create"
      BY <2>1 DEF CreateRow
    <3>2. CASE d = e
      BY <2>0, <3>1, <3>2 DEF Served, WillTest, ActorState
    <3>3. CASE d # e
      <4>1. d \in Rows /\ Served(d)
        BY <2>0, <3>1, <3>3 DEF Rows
      <4>2. /\ \A f \in Rows : row'[f] = row[f] /\ status'[f] = status[f]
            /\ \A b \in Actors \ {a} : at'[b] = at[b]
        BY <2>0, <3>1
      <4>3. ~WillTest(a, d)
        BY <3>1 DEF WillTest, HomeRows
      <4> QED
        BY <4>1, <4>2, <4>3, ServedFrame
    <3> QED
      BY <3>2, <3>3
  <2>2. ASSUME NEW a \in Actors, Decide(a) PROVE Served(d)'
    <3>1. /\ UNCHANGED <<status, row>> /\ a \in Actors
          /\ \A b \in Actors \ {a} : at'[b] = at[b]
      BY <2>0, <2>2 DEF Decide, Actors
    <3>2. d \in Rows /\ Served(d)
      BY <2>0, <3>1
    <3>3. ASSUME WillTest(a, d) PROVE Served(d)'
      <4>1. d = at[a].cur /\ row[d] = at[a].req /\ at[a].pc = "decide"
        BY <2>2, <3>3 DEF Decide, WillTest, HomeRows
      <4>2. CASE next_queuable(at[a].req) \/ at[a].req.nqa
        BY <2>0, <2>2, <4>1, <4>2 DEF Decide, Served, WillTest, ActorState
      <4>3. CASE ~next_queuable(at[a].req)
        BY <3>1, <3>2, <4>1, <4>3, BlockedByProgress DEF Served, On, Rows
      <4> QED
        BY <4>2, <4>3
    <3> QED
      BY <3>1, <3>2, <3>3, ServedFrame
  <2>3. ASSUME NEW a \in Actors, Promote(a) PROVE Served(d)'
    BY <2>0, <2>3, SMTT(60) DEF Promote, Served, WillTest, On, Rows, Actors, ActorState, Idle
  <2>4. ASSUME NEW a \in Actors, Dispatch(a) PROVE Served(d)'
    <3>1. /\ UNCHANGED <<status, row>> /\ a \in Actors
          /\ \A b \in Actors \ {a} : at'[b] = at[b]
      BY <2>0, <2>4 DEF Dispatch, Actors
    <3>2. d \in Rows /\ Served(d)
      BY <2>0, <3>1
    <3>3. ASSUME WillTest(a, d) PROVE Served(d)'
      <4>1. d \in at[a].todo
        BY <2>4, <3>3 DEF Dispatch, WillTest
      <4>2. at'[a].todo = at[a].todo
        <5>1. at' = [at EXCEPT ![a].pc = IF at[a].dests # {} THEN "effects" ELSE "scan",
                               ![a].dests = @ \ {row[at[a].cur].server},
                               ![a].cur = 0, ![a].req = NoRequest]
          BY <2>4, ZenonT(60) DEF Dispatch
        <5> DEFINE D == at[a].dests \ {row[at[a].cur].server}
                   L == IF at[a].dests # {} THEN "effects" ELSE "scan"
        <5>2. at' = [at EXCEPT ![a].pc = L, ![a].dests = D, ![a].cur = 0,
                               ![a].req = NoRequest]
          BY <5>1, <2>0
        <5> HIDE DEF D, L
        <5> QED
          BY <2>0, <5>2, SMTT(60) DEF ActorState
      <4> QED
        BY <4>1, <4>2, SMTT(60) DEF Served, WillTest
    <3> QED
      BY <3>1, <3>2, <3>3, ServedFrame
  <2>5. ASSUME NEW a \in Actors, ScanRow(a) PROVE Served(d)'
    <3>1. /\ UNCHANGED <<status, row>> /\ a \in Actors
          /\ \A b \in Actors \ {a} : at'[b] = at[b]
      BY <2>0, <2>5 DEF ScanRow, Actors
    <3>2. d \in Rows /\ Served(d)
      BY <2>0, <3>1
    <3>3. ASSUME WillTest(a, d) PROVE Served(d)'
      <4>1. d \in at[a].todo /\ at[a].pc = "scan"
        BY <2>5, <3>3 DEF ScanRow, WillTest
      <4>2. PICK e \in at[a].todo :
              \/ at' = [at EXCEPT ![a].todo = @ \ {e}, ![a].cur = e, ![a].pc = "promote"]
              \/ (~next_queuable(row[e]) /\ at' = [at EXCEPT ![a].todo = @ \ {e}])
        BY <2>5 DEF ScanRow
      <4>3. CASE d # e
        <5>1. at'[a].todo = at[a].todo \ {e}
          BY <2>0, <4>2 DEF ActorState
        <5>2. d \in at'[a].todo
          BY <4>1, <4>3, <5>1
        <5> QED
          BY <5>2 DEF Served, WillTest
      <4>4. CASE d = e /\ next_queuable(row[e])
        <5>1. at' = [at EXCEPT ![a].todo = @ \ {e}, ![a].cur = e, ![a].pc = "promote"]
          BY <4>2, <4>4
        <5>2. at'[a].cur = d /\ at'[a].pc = "promote"
          BY <2>0, <4>4, <5>1 DEF ActorState
        <5> QED
          BY <5>2 DEF Served, WillTest
      <4>5. CASE d = e /\ ~next_queuable(row[e])
        BY <3>1, <3>2, <4>5, BlockedByProgress DEF Served, On, Rows
      <4> QED
        BY <4>3, <4>4, <4>5
    <3> QED
      BY <3>1, <3>2, <3>3, ServedFrame
  <2>6. ASSUME NEW a \in Actors, ScanEnd(a) PROVE Served(d)'
    <3>1. /\ UNCHANGED <<status, row>> /\ a \in Actors
          /\ \A b \in Actors \ {a} : at'[b] = at[b]
      BY <2>0, <2>6 DEF ScanEnd, Actors
    <3>2. d \in Rows /\ Served(d)
      BY <2>0, <3>1
    <3>3. ~WillTest(a, d)
      BY <2>6, <3>1 DEF ScanEnd, WillTest, HomeRows
    <3> QED
      BY <3>1, <3>2, <3>3, ServedFrame
  <2>7. ASSUME NEW a \in Actors, Crash(a) PROVE Served(d)'
    BY <2>7 DEF Crash, OneHome
  <2>8. ASSUME NEW w \in Workers, Reserve(w) PROVE Served(d)'
    <3>1. /\ UNCHANGED <<status, row>> /\ w \in Actors
          /\ \A b \in Actors \ {w} : at'[b] = at[b]
      BY <2>0, <2>8 DEF Reserve, Actors
    <3>2. d \in Rows /\ Served(d)
      BY <2>0, <3>1
    <3>3. ~WillTest(w, d)
      BY <2>8, <3>1 DEF Reserve, WillTest, HomeRows
    <3> QED
      BY <3>1, <3>2, <3>3, ServedFrame
  <2>9. ASSUME NEW w \in Workers, Redeliver(w) PROVE Served(d)'
    <3>1. /\ UNCHANGED <<status, row>> /\ w \in Actors
          /\ \A b \in Actors \ {w} : at'[b] = at[b]
      BY <2>0, <2>9 DEF Redeliver, Actors
    <3>2. d \in Rows /\ Served(d)
      BY <2>0, <3>1
    <3>3. ~WillTest(w, d)
      BY <2>9, <3>1 DEF Redeliver, WillTest, HomeRows
    <3> QED
      BY <3>1, <3>2, <3>3, ServedFrame
  <2>10. ASSUME NEW w \in Workers, Start(w) PROVE Served(d)'
    <3>1. /\ UNCHANGED <<status, row>> /\ w \in Actors
          /\ \A b \in Actors \ {w} : at'[b] = at[b]
      BY <2>0, <2>10 DEF Start, Actors
    <3>2. d \in Rows /\ Served(d)
      BY <2>0, <3>1
    <3>3. ~WillTest(w, d)
      BY <2>10, <3>1 DEF Start, WillTest, HomeRows
    <3> QED
      BY <3>1, <3>2, <3>3, ServedFrame
  <2>11. ASSUME NEW w \in Workers, Claim(w) PROVE Served(d)'
    BY <2>0, <2>11, SMTT(60) DEF Claim, Served, WillTest, On, Rows, Actors, ActorState, Idle
  <2>12. ASSUME NEW w \in Workers, Work(w) PROVE Served(d)'
    <3>1. /\ UNCHANGED <<status, row>> /\ w \in Actors
          /\ \A b \in Actors \ {w} : at'[b] = at[b]
      BY <2>0, <2>12 DEF Work, Actors
    <3>2. d \in Rows /\ Served(d)
      BY <2>0, <3>1
    <3>3. ~WillTest(w, d)
      BY <2>12, <3>1 DEF Work, WillTest, HomeRows
    <3> QED
      BY <3>1, <3>2, <3>3, ServedFrame
  <2>13. ASSUME NEW w \in Workers, Settle(w) PROVE Served(d)'
    <3>1. /\ UNCHANGED <<status, row>> /\ w \in Actors
          /\ \A b \in Actors \ {w} : at'[b] = at[b]
      BY <2>0, <2>13 DEF Settle, Actors
    <3>2. d \in Rows /\ Served(d)
      BY <2>0, <3>1
    <3>3. ~WillTest(w, d)
      BY <2>13, <3>1 DEF Settle, WillTest, HomeRows
    <3> QED
      BY <3>1, <3>2, <3>3, ServedFrame
  <2>14. ASSUME NEW w \in Workers, WriteStatus(w) PROVE Served(d)'
    <3>1. /\ w \in Actors /\ at[w].pc = "write" /\ row' = row
          /\ status' = [status EXCEPT ![at[w].own] = Verdict(at[w].goal)]
          /\ \A b \in Actors \ {w} : at'[b] = at[b]
          /\ at'[w].pc = "effects" /\ at'[w].own = at[w].own
      BY <2>0, <2>14 DEF WriteStatus, Actors, ActorState
    <3>2. at[w].own \in Rows /\ row[at[w].own].server = MainServer[row[at[w].own].app]
      BY <3>1, RowsInUse DEF JobLabels, HomeRows
    <3>3. d \in Rows /\ Served(d)
      BY <2>0, <3>1 DEF Verdict
    <3>4. ASSUME NEW e \in On(row[d].server, "in_progress")
          PROVE  Served(d)'
      <4>1. CASE e = at[w].own
        BY <3>1, <3>2, <4>1 DEF On, Served, WillTest
      <4>2. CASE e # at[w].own
        BY <2>0, <3>1, <4>2 DEF On, Served, Rows
      <4> QED
        BY <4>1, <4>2
    <3>5. ASSUME NEW b \in Actors, WillTest(b, d)
          PROVE  Served(d)'
      <4>1. b # w
        BY <3>1, <3>5 DEF WillTest, HomeRows
      <4> QED
        BY <3>1, <3>5, <4>1 DEF Served, WillTest
    <3> QED
      BY <3>3, <3>4, <3>5 DEF Served
  <2>15. ASSUME NEW w \in Workers, FanOutOne(w) PROVE Served(d)'
    BY <2>15 DEF FanOutOne, HomeRows, Actors
  <2>16. ASSUME NEW w \in Workers, QueueNext(w) PROVE Served(d)'
    <3>1. /\ UNCHANGED <<status, row>> /\ w \in Actors
          /\ \A b \in Actors \ {w} : at'[b] = at[b]
      BY <2>0, <2>16 DEF QueueNext, Actors
    <3>2. d \in Rows /\ Served(d)
      BY <2>0, <3>1
    <3>3. ASSUME WillTest(w, d) PROVE Served(d)'
      <4>1. MainServer[row[at[w].own].app] = row[d].server
        BY <2>16, <3>1, <3>3 DEF QueueNext, WillTest, HomeRows
      <4>2. d \in Snapshot(MainServer[row[at[w].own].app])
        BY <3>1, <3>2, <4>1 DEF Snapshot, On
      <4>3. at'[w].todo = Snapshot(MainServer[row[at[w].own].app])
        BY <2>0, <2>16, <3>1 DEF QueueNext
      <4> QED
        BY <3>1, <4>2, <4>3 DEF Served, WillTest
    <3> QED
      BY <3>1, <3>2, <3>3, ServedFrame
  <2>17. ASSUME NEW w \in Workers, EffectsThrow(w) PROVE Served(d)'
    BY <2>17 DEF EffectsThrow, OneHome
  <2>18. ASSUME NEW c \in Clients, NextAfterCancel(c) PROVE Served(d)'
    <3>1. /\ UNCHANGED <<status, row>> /\ c \in Actors
          /\ \A b \in Actors \ {c} : at'[b] = at[b]
      BY <2>0, <2>18 DEF NextAfterCancel, Actors
    <3>2. d \in Rows /\ Served(d)
      BY <2>0, <3>1
    <3>3. ASSUME WillTest(c, d) PROVE Served(d)'
      <4>1. at[c].pc = "next" /\ row[at[c].cur].server = row[d].server
        BY <2>18, <3>1, <3>3 DEF NextAfterCancel, WillTest, HomeRows
      <4>2. BuildServers[row[at[c].cur].app] = {}
        BY <3>1, <4>1, RowsInUse, Facts DEF OneHome, RowLabels, Rows
      <4>3. at'[c].todo = Snapshot(row[d].server)
        BY <2>0, <2>18, <3>1, <4>1, <4>2 DEF NextAfterCancel, CancelScope
      <4>4. d \in Snapshot(row[d].server)
        BY <3>1, <3>2 DEF Snapshot, On
      <4> QED
        BY <3>1, <4>3, <4>4 DEF Served, WillTest
    <3> QED
      BY <3>1, <3>2, <3>3, ServedFrame
  <2>19. ASSUME NEW c \in Clients, ApiCancelWrite(c) PROVE Served(d)'
    BY <2>19 DEF ApiCancelWrite, HomeRows, Actors
  <2>20. ASSUME NEW c \in Clients, SweepOne(c) PROVE Served(d)'
    BY <2>20, SMTT(60) DEF SweepOne, HomeRows, Actors
  <2>21. ASSUME NEW c \in Clients, RequestDeployment(c) PROVE Served(d)'
    <3>1. /\ UNCHANGED <<status, row>> /\ c \in Actors
          /\ \A b \in Actors \ {c} : at'[b] = at[b]
      BY <2>0, <2>21 DEF RequestDeployment, Actors
    <3>2. d \in Rows /\ Served(d)
      BY <2>0, <3>1
    <3>3. ~WillTest(c, d)
      BY <2>21, <3>1 DEF RequestDeployment, WillTest, HomeRows
    <3> QED
      BY <3>1, <3>2, <3>3, ServedFrame
  <2>22. ASSUME NEW c \in Clients, OpenDeployment(c) PROVE Served(d)'
    <3>1. /\ UNCHANGED <<status, row>> /\ c \in Actors
          /\ \A b \in Actors \ {c} : at'[b] = at[b]
      BY <2>0, <2>22 DEF OpenDeployment, Actors
    <3>2. d \in Rows /\ Served(d)
      BY <2>0, <3>1
    <3>3. ~WillTest(c, d)
      BY <2>22, <3>1 DEF OpenDeployment, WillTest, HomeRows
    <3> QED
      BY <3>1, <3>2, <3>3, ServedFrame
  <2>23. ASSUME NEW c \in Clients, ForceStart(c) PROVE Served(d)'
    BY <2>0, <2>23 DEF ForceStart, Served, WillTest, On, Rows, Actors, ActorState, Idle
  <2>24. ASSUME NEW c \in Clients, CancelClick(c) PROVE Served(d)'
    BY <2>0, <2>24 DEF CancelClick, Served, WillTest, On, Rows, Actors, ActorState, Idle
  <2>25. ASSUME NEW c \in Clients, LeavePage(c) PROVE Served(d)'
    <3>1. /\ UNCHANGED <<status, row>> /\ c \in Actors
          /\ \A b \in Actors \ {c} : at'[b] = at[b]
      BY <2>0, <2>25 DEF LeavePage, Actors
    <3>2. d \in Rows /\ Served(d)
      BY <2>0, <3>1
    <3>3. ~WillTest(c, d)
      BY <2>25, <3>1 DEF LeavePage, WillTest, HomeRows
    <3> QED
      BY <3>1, <3>2, <3>3, ServedFrame
  <2>26. ASSUME NEW c \in Clients, ApiCancelTest(c) PROVE Served(d)'
    BY <2>26 DEF ApiCancelTest, OneHome
  <2>27. ASSUME NEW c \in Clients, SweepBegin(c) PROVE Served(d)'
    BY <2>27 DEF SweepBegin, OneHome
  <2>28. CASE Restart
    BY <2>28 DEF Restart, OneHome
  <2>29. CASE UNCHANGED vars
    BY <2>0, <2>29 DEF vars, Served, On, Rows, WillTest
  <2> QED
    BY <2>1, <2>2, <2>3, <2>4, <2>5, <2>6, <2>7, <2>8, <2>9, <2>10, <2>11, <2>12, <2>13, <2>14, <2>15, <2>16, <2>17, <2>18, <2>19, <2>20, <2>21, <2>22, <2>23, <2>24, <2>25, <2>26, <2>27, <2>28, <2>29 DEF Next, Helper, WorkerStep, ClientStep, ClientChoice
<1>3. HomeServed => NoLostWakeup
  BY DEF HomeServed, NoLostWakeup
<1>4. QED
  BY <1>1, <1>2, <1>3, TypeCorrect, ReferencesExist, HomeRowsHold, PTL DEF Spec

-----------------------------------------------------------------------------
(* The limit of the queue.  A step does one of three things to what the    *)
(* limit counts: nothing that grows, an insert, or the start of an insert  *)
(* after the count.                                                        *)

NoExtras == \A app \in Apps : Extra[app] = {}

Quiet ==
    /\ row' = row
    /\ \A d \in Deployments : status'[d] = "queued" => status[d] = "queued"
    /\ \A b \in Actors :
        /\ at'[b].pc = "create" => at[b].pc = "create" /\ at'[b].req = at[b].req
        /\ NoExtras /\ at[b].dests = {} => at'[b].dests = {}

Inserts(a) ==
    /\ at[a].pc = "create" /\ at'[a].pc # "create" /\ at'[a].dests = at[a].dests
    /\ \A b \in Actors \ {a} : at'[b] = at[b]
    /\ \E d \in Deployments \ Rows :
        /\ status' = [status EXCEPT ![d] = "queued"]
        /\ row' = [row EXCEPT ![d] = at[a].req]

Accepts(a) ==
    /\ ~QueueFull(at'[a].req.server) /\ UNCHANGED <<status, row>>
    /\ at'[a].dests = at[a].dests /\ (a \in Workers => at[a].dests # {})
    /\ at'[a].pc = "create" /\ at[a].pc # "create"
    /\ \A b \in Actors \ {a} : at'[b] = at[b]

LEMMA QueueSteps ==
    ASSUME TypeOK, [Next]_vars
    PROVE  Quiet \/ \E a \in Actors : Inserts(a) \/ Accepts(a)
<1>0. /\ status \in [Deployments -> Statuses]
      /\ at \in [Actors -> ActorState]
  BY DEF TypeOK
<1>1. ASSUME NEW a \in Actors, CreateRow(a) PROVE Inserts(a)
  <2>1. PICK d \in Deployments \ Rows :
          /\ status' = [status EXCEPT ![d] = "queued"]
          /\ row' = [row EXCEPT ![d] = at[a].req]
          /\ at' = [at EXCEPT ![a].pc = "decide", ![a].cur = d]
          /\ at[a].pc = "create"
    BY <1>1 DEF CreateRow
  <2>2. /\ at'[a].pc = "decide" /\ at'[a].dests = at[a].dests
        /\ \A b \in Actors \ {a} : at'[b] = at[b]
    BY <1>0, <2>1 DEF ActorState
  <2> QED
    BY <2>1, <2>2 DEF Inserts
<1>2. ASSUME NEW a \in Actors, Decide(a) PROVE Quiet
  BY <1>0, <1>2 DEF Decide, Quiet, ActorState, Actors, Idle
<1>3. ASSUME NEW a \in Actors, Promote(a) PROVE Quiet
  BY <1>0, <1>3 DEF Promote, Quiet, ActorState, Actors, Idle
<1>4. ASSUME NEW a \in Actors, Dispatch(a) PROVE Quiet
  <2>1. row' = row
    BY <1>4 DEF Dispatch
  <2> QED
    BY <1>0, <1>4, <2>1, DispatchChanges, SMTT(40) DEF Quiet
<1>5. ASSUME NEW a \in Actors, ScanRow(a) PROVE Quiet
  BY <1>0, <1>5 DEF ScanRow, Quiet, ActorState, Actors, Idle
<1>6. ASSUME NEW a \in Actors, ScanEnd(a) PROVE Quiet
  BY <1>0, <1>6 DEF ScanEnd, Quiet, ActorState, Actors, Idle
<1>7. ASSUME NEW a \in Actors, Crash(a) PROVE Quiet
  BY <1>0, <1>7 DEF Crash, Quiet, ActorState, Actors, Idle
<1>8. ASSUME NEW w \in Workers, Reserve(w) PROVE Quiet
  BY <1>0, <1>8 DEF Reserve, Quiet, ActorState, Actors, Idle
<1>9. ASSUME NEW w \in Workers, Redeliver(w) PROVE Quiet
  BY <1>0, <1>9 DEF Redeliver, Quiet, ActorState, Actors, Idle
<1>10. ASSUME NEW w \in Workers, Start(w) PROVE Quiet
  BY <1>0, <1>10 DEF Start, Quiet, ActorState, Actors, Idle
<1>11. ASSUME NEW w \in Workers, Claim(w) PROVE Quiet
  BY <1>0, <1>11 DEF Claim, Quiet, ActorState, Actors, Idle
<1>12. ASSUME NEW w \in Workers, Work(w) PROVE Quiet
  BY <1>0, <1>12 DEF Work, Quiet, ActorState, Actors, Idle
<1>13. ASSUME NEW w \in Workers, Settle(w) PROVE Quiet
  BY <1>0, <1>13 DEF Settle, Quiet, ActorState, Actors, Idle
<1>14. ASSUME NEW w \in Workers, WriteStatus(w) PROVE Quiet
  BY <1>0, <1>14 DEF WriteStatus, Quiet, ActorState, Actors, Idle, FanOut, Verdict
<1>15. ASSUME NEW w \in Workers, FanOutOne(w) PROVE Quiet \/ Accepts(w)
  <2>1. w \in Actors
    BY DEF Actors
  <2>2. PICK s \in at[w].dests :
          LET r == [app |-> row[at[w].own].app, pr |-> 0, commit |-> HeadCommit,
                    server |-> s, onlyThis |-> FALSE, force |-> FALSE, nqa |-> TRUE] IN
          /\ at[w].pc = "effects"
          /\ at' = IF Room /\ Accepted(r)
                   THEN [at EXCEPT ![w].pc = "create", ![w].req = r]
                   ELSE [at EXCEPT ![w].dests = @ \ {s}]
          /\ UNCHANGED <<status, row, jobs, lost, clicks, dropped>>
    BY <1>15, Zenon DEF FanOutOne
  <2> DEFINE r == [app |-> row[at[w].own].app, pr |-> 0, commit |-> HeadCommit,
                   server |-> s, onlyThis |-> FALSE, force |-> FALSE, nqa |-> TRUE]
  <2>3. CASE Room /\ Accepted(r)
    <3>1. at' = [at EXCEPT ![w].pc = "create", ![w].req = r]
      BY <2>2, <2>3
    <3>2. r.server = s /\ ~QueueFull(s)
      BY <2>3 DEF Accepted
    <3> HIDE DEF r
    <3>3. /\ at'[w].req = r /\ at'[w].pc = "create" /\ at'[w].dests = at[w].dests
          /\ \A b \in Actors \ {w} : at'[b] = at[b]
      BY <1>0, <2>1, <3>1 DEF ActorState
    <3> QED
      BY <2>2, <3>2, <3>3 DEF Accepts
  <2>4. CASE ~(Room /\ Accepted(r))
    <3>1. at' = [at EXCEPT ![w].dests = @ \ {s}]
      BY <2>2, <2>4
    <3>2. /\ at'[w].pc = at[w].pc /\ at'[w].dests = at[w].dests \ {s}
          /\ \A b \in Actors \ {w} : at'[b] = at[b]
      BY <1>0, <2>1, <3>1 DEF ActorState
    <3> QED
      BY <2>2, <3>2 DEF Quiet
  <2> QED
    BY <2>3, <2>4
<1>16. ASSUME NEW w \in Workers, QueueNext(w) PROVE Quiet
  BY <1>0, <1>16 DEF QueueNext, Quiet, ActorState, Actors, Idle
<1>17. ASSUME NEW w \in Workers, EffectsThrow(w) PROVE Quiet
  BY <1>0, <1>17 DEF EffectsThrow, Quiet, ActorState, Actors, Idle
<1>18. ASSUME NEW c \in Clients, NextAfterCancel(c) PROVE Quiet
  <2>1. PICK s : at' = [at EXCEPT ![c].pc = "scan", ![c].todo = Snapshot(s), ![c].cur = 0]
    BY <1>18 DEF NextAfterCancel
  <2>2. /\ UNCHANGED <<status, row>> /\ \A b \in Actors \ {c} : at'[b] = at[b]
    BY <1>0, <1>18, <2>1 DEF NextAfterCancel
  <2>3. at'[c].pc = "scan" /\ at'[c].dests = at[c].dests
    BY <1>0, <2>1 DEF ActorState, Actors
  <2> QED
    BY <2>2, <2>3 DEF Quiet
<1>19. ASSUME NEW c \in Clients, ApiCancelWrite(c) PROVE Quiet
  BY <1>0, <1>19 DEF ApiCancelWrite, Quiet, ActorState, Actors, Idle
<1>20. ASSUME NEW c \in Clients, SweepOne(c) PROVE Quiet
  BY <1>0, <1>20 DEF SweepOne, Quiet, ActorState, Actors, Idle, Verdict
<1>21. ASSUME NEW c \in Clients, RequestDeployment(c) PROVE Quiet \/ Accepts(c)
  <2>1. c \in Actors
    BY DEF Actors
  <2>2. PICK r \in ClientRequests :
          /\ at[c].pc = "idle" /\ Accepted(r)
          /\ at' = [at EXCEPT ![c].pc = "create", ![c].req = r]
          /\ UNCHANGED <<status, row>>
    BY <1>21 DEF RequestDeployment
  <2>3. /\ at'[c].req = r /\ at'[c].pc = "create" /\ at'[c].dests = at[c].dests
        /\ \A b \in Actors \ {c} : at'[b] = at[b]
    BY <1>0, <2>1, <2>2 DEF ActorState
  <2>4. c \notin Workers
    BY ConstantsAssumption
  <2> QED
    BY <2>2, <2>3, <2>4 DEF Accepts, Accepted
<1>22. ASSUME NEW c \in Clients, OpenDeployment(c) PROVE Quiet
  BY <1>0, <1>22 DEF OpenDeployment, Quiet, ActorState, Actors, Idle
<1>23. ASSUME NEW c \in Clients, ForceStart(c) PROVE Quiet
  BY <1>0, <1>23 DEF ForceStart, Quiet, ActorState, Actors, Idle
<1>24. ASSUME NEW c \in Clients, CancelClick(c) PROVE Quiet
  BY <1>0, <1>24 DEF CancelClick, Quiet, ActorState, Actors, Idle
<1>25. ASSUME NEW c \in Clients, LeavePage(c) PROVE Quiet
  BY <1>0, <1>25 DEF LeavePage, Quiet, ActorState, Actors, Idle
<1>26. ASSUME NEW c \in Clients, ApiCancelTest(c) PROVE Quiet
  BY <1>0, <1>26 DEF ApiCancelTest, Quiet, ActorState, Actors, Idle
<1>27. ASSUME NEW c \in Clients, SweepBegin(c) PROVE Quiet
  BY <1>0, <1>27 DEF SweepBegin, Quiet, ActorState, Actors, Idle
<1>28. CASE Restart
  BY <1>0, <1>28 DEF Restart, Quiet, Idle
<1>29. CASE UNCHANGED vars
  BY <1>0, <1>29 DEF vars, Quiet
<1> QED
  BY <1>1, <1>2, <1>3, <1>4, <1>5, <1>6, <1>7, <1>8, <1>9, <1>10, <1>11, <1>12, <1>13, <1>14, <1>15, <1>16, <1>17, <1>18, <1>19, <1>20, <1>21, <1>22, <1>23, <1>24, <1>25, <1>26, <1>27, <1>28, <1>29 DEF Next, Helper, WorkerStep, ClientStep, ClientChoice, Actors

(* Only who fans out has destinations, and only then does a worker insert. *)
Requesters == \A w \in Workers :
    NoExtras => at[w].dests = {} /\ at[w].pc # "create"

(* What the limit counts, with the inserts that passed the count. *)
Counted(s) == Cardinality(On(s, "queued")) + Cardinality(Creating(s))

LEMMA FiniteTable == IsFiniteSet(Deployments)
<1>1. 1 \in Int /\ MaxDeployments \in Int
  BY ConstantsAssumption
<1> QED
  BY <1>1, FS_Interval DEF Deployments

(* The counted sets are finite, and who creates is a caller. *)
LEMMA FiniteCounts ==
    ASSUME NEW s \in Servers, Requesters
    PROVE  /\ IsFiniteSet(On(s, "queued")) /\ IsFiniteSet(Creating(s))
           /\ IsFiniteSet(Callers)
           /\ Creating(s) \subseteq Callers
           /\ Cardinality(On(s, "queued")) \in Nat
           /\ Cardinality(Creating(s)) \in Nat /\ Cardinality(Callers) \in Nat
           /\ Cardinality(Creating(s)) <= Cardinality(Callers)
<1>1. IsFiniteSet(Deployments)
  BY FiniteTable
<1>2. IsFiniteSet(On(s, "queued"))
  BY <1>1, FS_Subset DEF On, Rows
<1>3. IsFiniteSet(Callers)
  BY FS_Union, FS_EmptySet, ConstantsAssumption DEF Callers
<1>4. Creating(s) \subseteq Callers
  BY DEF Creating, Callers, Actors, Requesters, NoExtras
<1> QED
  BY <1>2, <1>3, <1>4, FS_Subset, FS_CardinalityType

LEMMA RequestersOnly == Spec => []Requesters
<1>1. Init => Requesters
  BY DEF Init, Requesters, Idle, Actors
<1>2. TypeOK /\ Requesters /\ [Next]_vars => Requesters'
  <2> SUFFICES ASSUME TypeOK, Requesters, [Next]_vars, NoExtras, NEW w \in Workers
               PROVE  at'[w].dests = {} /\ at'[w].pc # "create"
    BY DEF Requesters, NoExtras
  <2>1. at[w].dests = {} /\ at[w].pc # "create" /\ w \in Actors
    BY DEF Requesters, Actors
  <2> QED
    BY <2>1, QueueSteps DEF Quiet, Inserts, Accepts
<1>3. QED
  BY <1>1, <1>2, TypeCorrect, PTL DEF Spec

(* deployment_queue_limit is exceeded by no more rows than callers can     *)
(* pass the count of queue_application_deployment together, for any number *)
(* of servers, clients and workers, and with every fault.  Inductive over  *)
(* the sum of the queued rows and the inserts under way: an insert moves   *)
(* one from the second to the first, and a call that passes the count      *)
(* finds fewer rows than the limit and no more callers than there are.     *)
THEOREM LimitHolds == Spec => []QueueBounded
<1>1. Init /\ Requesters => QueueBounded
  <2> SUFFICES ASSUME Init, Requesters, NEW s \in Servers
               PROVE  Counted(s) < QueueLimit[s] + Cardinality(Callers)
    BY DEF QueueBounded, Counted
  <2>1. On(s, "queued") = {} /\ Creating(s) = {}
    BY DEF Init, On, Rows, Creating, Idle
  <2>2. QueueLimit[s] \in Nat \ {0}
    BY ConstantsAssumption
  <2> QED
    BY <2>1, <2>2, FiniteCounts, FS_EmptySet DEF Counted
<1>2. TypeOK /\ Requesters /\ Requesters' /\ QueueBounded /\ [Next]_vars => QueueBounded'
  <2> SUFFICES ASSUME TypeOK, Requesters, Requesters', QueueBounded, [Next]_vars,
                      NEW s \in Servers
               PROVE  Counted(s)' < QueueLimit[s] + Cardinality(Callers)
    BY DEF QueueBounded, Counted, Callers
  <2>0. /\ status \in [Deployments -> Statuses] /\ row \in [Deployments -> Request]
        /\ at \in [Actors -> ActorState]
        /\ QueueLimit[s] \in Nat \ {0}
        /\ Counted(s) < QueueLimit[s] + Cardinality(Callers)
    BY ConstantsAssumption DEF TypeOK, QueueBounded, Counted
  <2>1. /\ IsFiniteSet(On(s, "queued")) /\ IsFiniteSet(Creating(s))
        /\ Cardinality(On(s, "queued")) \in Nat
        /\ Cardinality(Creating(s)) \in Nat /\ Cardinality(Callers) \in Nat
    BY FiniteCounts
  <2>2. /\ IsFiniteSet(On(s, "queued")') /\ IsFiniteSet(Creating(s)')
        /\ Cardinality(On(s, "queued")') \in Nat /\ Cardinality(Creating(s)') \in Nat
        /\ Cardinality(Creating(s)') <= Cardinality(Callers)
    <3>1. On(s, "queued")' \subseteq Deployments
      BY DEF On, Rows
    <3>2. Creating(s)' \subseteq Callers
      BY DEF Creating, Callers, Actors, Requesters, NoExtras
    <3> QED
      BY <3>1, <3>2, FiniteTable, FiniteCounts, FS_Subset, FS_CardinalityType
  <2>3. CASE Quiet
    <3>1. On(s, "queued")' \subseteq On(s, "queued")
      BY <2>0, <2>3 DEF Quiet, On, Rows
    <3>2. Creating(s)' \subseteq Creating(s)
      BY <2>3 DEF Quiet, Creating
    <3>3. /\ Cardinality(On(s, "queued")') <= Cardinality(On(s, "queued"))
          /\ Cardinality(Creating(s)') <= Cardinality(Creating(s))
      BY <2>1, <3>1, <3>2, FS_Subset
    <3> QED
      BY <2>0, <2>1, <2>2, <3>3 DEF Counted
  <2>4. ASSUME NEW a \in Actors, Inserts(a)
        PROVE  Counted(s)' < QueueLimit[s] + Cardinality(Callers)
    <3>1. PICK d \in Deployments \ Rows :
            /\ status' = [status EXCEPT ![d] = "queued"]
            /\ row' = [row EXCEPT ![d] = at[a].req]
      BY <2>4 DEF Inserts
    <3>2. CASE at[a].req.server = s
      <4>1. On(s, "queued")' = On(s, "queued") \cup {d} /\ d \notin On(s, "queued")
        BY <2>0, <3>1, <3>2 DEF On, Rows
      <4>2. Creating(s)' = Creating(s) \ {a} /\ a \in Creating(s)
        BY <2>4, <3>2 DEF Creating, Inserts
      <4>3. /\ Cardinality(On(s, "queued")') = Cardinality(On(s, "queued")) + 1
            /\ Cardinality(Creating(s)') = Cardinality(Creating(s)) - 1
        <5>1. Cardinality(On(s, "queued") \cup {d}) = Cardinality(On(s, "queued")) + 1
          BY <2>1, <4>1, FS_AddElement
        <5>2. Cardinality(Creating(s) \ {a}) = Cardinality(Creating(s)) - 1
          BY <2>1, <4>2, FS_RemoveElement
        <5> QED
          BY <4>1, <4>2, <5>1, <5>2, Zenon
      <4> QED
        BY <2>0, <2>1, <2>2, <4>3 DEF Counted
    <3>3. CASE at[a].req.server # s
      <4>1. On(s, "queued")' = On(s, "queued")
        BY <2>0, <3>1, <3>3 DEF On, Rows
      <4>2. Creating(s)' = Creating(s)
        BY <2>4, <3>3 DEF Creating, Inserts
      <4> QED
        BY <2>0, <4>1, <4>2 DEF Counted
    <3> QED
      BY <3>2, <3>3
  <2>5. ASSUME NEW a \in Actors, Accepts(a)
        PROVE  Counted(s)' < QueueLimit[s] + Cardinality(Callers)
    <3>1. On(s, "queued")' = On(s, "queued")
      BY <2>5 DEF Accepts, On, Rows
    <3>2. CASE at'[a].req.server = s
      <4>1. Cardinality(On(s, "queued")) < QueueLimit[s]
        BY <2>0, <2>1, <2>5, <3>2 DEF Accepts, QueueFull
      <4> QED
        BY <2>0, <2>1, <2>2, <3>1, <4>1 DEF Counted
    <3>3. CASE at'[a].req.server # s
      <4>1. Creating(s)' = Creating(s)
        BY <2>5, <3>3 DEF Accepts, Creating
      <4> QED
        BY <2>0, <3>1, <4>1 DEF Counted
    <3> QED
      BY <3>2, <3>3
  <2> QED
    BY <2>3, <2>4, <2>5, QueueSteps
<1>3. QED
  BY <1>1, <1>2, TypeCorrect, RequestersOnly, PTL DEF Spec
-----------------------------------------------------------------------------
(***************************************************************************)
(* The builds of a server.  What counts against concurrent_builds are the  *)
(* rows in progress no busy worker has, the actors that passed the test    *)
(* and have not yet written, and the pages open on a queued row.           *)
(***************************************************************************)

Owned(d) == \E w \in BusyWorkers : at[w].own = d
Untaken(s) == {d \in On(s, "in_progress") : ~Owned(d)}
Promoting(s) == {a \in Actors : at[a].pc = "promote" /\ row[at[a].cur].server = s}
Viewing == {a \in Actors : at[a].pc = "view_queued"}
Load(s) == Cardinality(Untaken(s)) + Cardinality(Promoting(s)) + Cardinality(Viewing)

LoadBounded ==
    \A s \in Servers : Guarded(s) =>
        Load(s) < ConcurrentBuilds[s] + Cardinality(Actors) + clicks
LoadInv == "crash" \notin Faults => LoadBounded

(* What next_queuable is asked about is the row, and a request that asks   *)
(* no questions is not for a guarded server.                               *)
Asks(a) ==
    /\ at[a].pc = "decide" => row[at[a].cur] = at[a].req
    /\ at[a].pc \in {"create", "decide"} /\ at[a].req.nqa => ~Guarded(at[a].req.server)
    /\ \A s \in at[a].dests : \E app \in Apps : s \in Extra[app]
Asked == \A a \in Actors : Asks(a)

(* A step does one of four things to the load of a server: nothing that    *)
(* grows, a test, a write that somebody passed the test for or was looking *)
(* at the page for, or the opening of a page.                              *)
Calm(s) ==
    /\ Untaken(s)' \subseteq Untaken(s) /\ Promoting(s)' \subseteq Promoting(s)
    /\ Viewing' \subseteq Viewing /\ clicks <= clicks'
Tests(s) ==
    /\ Cardinality(On(s, "in_progress")) < ConcurrentBuilds[s]
    /\ Untaken(s)' \subseteq Untaken(s) /\ clicks' = clicks
Puts(s) ==
    /\ \E d \in Deployments : Untaken(s)' \subseteq Untaken(s) \cup {d}
    /\ \E a \in Actors :
        \/ /\ a \in Promoting(s) /\ Promoting(s)' \subseteq Promoting(s) \ {a}
           /\ Viewing' \subseteq Viewing
        \/ /\ a \in Viewing /\ Viewing' \subseteq Viewing \ {a}
           /\ Promoting(s)' \subseteq Promoting(s)
    /\ clicks' = clicks
Opens(s) ==
    /\ Untaken(s)' \subseteq Untaken(s) /\ Promoting(s)' \subseteq Promoting(s)
    /\ \E a \in Actors : Viewing' \subseteq Viewing \cup {a}
    /\ clicks' = clicks + 1
Kind(s) == Calm(s) \/ Tests(s) \/ Puts(s) \/ Opens(s)

(* Most steps are of an actor that minds its own row.                      *)
Takes(a, d) ==
    /\ a \in Workers /\ at[a].own = d
    /\ at[a].pc \in {"start", "claim", "work", "settle", "write"}
Minds(a) ==
    /\ row' = row /\ clicks <= clicks'
    /\ \A b \in Actors \ {a} : at'[b] = at[b]
    /\ at'[a].pc = "promote" => at[a].pc = "promote" /\ at'[a].cur = at[a].cur
    /\ at'[a].pc = "view_queued" => at[a].pc = "view_queued"
    /\ \A d \in Deployments :
        status'[d] = "in_progress" /\ ~Takes(a, d)' => status[d] = "in_progress" /\ ~Takes(a, d)

LEMMA OwnedByTakes == \A d : Owned(d) <=> \E w \in Workers : Takes(w, d)
BY DEF Owned, BusyWorkers, Takes

LEMMA MindsOnly ==
    ASSUME NEW s \in Servers, NEW a \in Actors, Minds(a)
    PROVE  Kind(s)
<1>1. Untaken(s)' \subseteq Untaken(s)
  <2> SUFFICES ASSUME NEW d \in Untaken(s)' PROVE d \in Untaken(s)
    OBVIOUS
  <2>1. d \in Deployments /\ status'[d] = "in_progress" /\ row'[d].server = s
    BY DEF Untaken, On, Rows
  <2>2. \A w \in Workers : ~Takes(w, d)'
    BY DEF Untaken, Owned, BusyWorkers, Takes
  <2>3. status[d] = "in_progress" /\ ~Takes(a, d)
    <3>1. ~Takes(a, d)'
      BY <2>2 DEF Takes
    <3> QED
      BY <2>1, <3>1 DEF Minds
  <2>4. \A w \in Workers : ~Takes(w, d)
    BY <2>2, <2>3 DEF Minds, Takes, Actors
  <2> QED
    BY <2>1, <2>3, <2>4, OwnedByTakes DEF Minds, Untaken, On, Rows
<1>2. Promoting(s)' \subseteq Promoting(s) /\ Viewing' \subseteq Viewing
  BY DEF Minds, Promoting, Viewing
<1> QED
  BY <1>1, <1>2 DEF Kind, Calm, Minds

LEMMA TestsOnly ==
    ASSUME NEW s \in Servers, NEW a \in Actors, UNCHANGED <<status, row, clicks>>,
           clicks \in Nat, at'[a].own = at[a].own, at'[a].pc = "promote",
           at[a].pc \in {"decide", "scan"}, \A b \in Actors \ {a} : at'[b] = at[b],
           row[at'[a].cur].server = s => Cardinality(On(s, "in_progress")) < ConcurrentBuilds[s]
    PROVE  Kind(s)
<1>1. Untaken(s)' \subseteq Untaken(s)
  <2>1. \A e : Owned(e) => Owned(e)'
    BY DEF Owned, BusyWorkers, Actors
  <2> QED
    BY <2>1 DEF Untaken, On, Rows
<1>2. CASE row[at'[a].cur].server = s
  BY <1>1, <1>2 DEF Kind, Tests
<1>3. CASE row[at'[a].cur].server # s
  <2>1. Promoting(s)' \subseteq Promoting(s) /\ Viewing' \subseteq Viewing
    BY <1>3 DEF Promoting, Viewing
  <2> QED
    BY <1>1, <2>1 DEF Kind, Calm
<1> QED
  BY <1>2, <1>3

LEMMA BuildSteps ==
    ASSUME TypeOK, References, Asked, [Next]_vars, "crash" \notin Faults,
           NEW s \in Servers, Guarded(s)
    PROVE  Kind(s)
<1>0. /\ status \in [Deployments -> Statuses]
      /\ row \in [Deployments -> Request]
      /\ at \in [Actors -> ActorState]
      /\ clicks \in Nat
      /\ "crash" \notin Faults
      /\ References /\ Asked /\ TypeOK /\ Guarded(s)
  BY Facts DEF TypeOK
<1>1. ASSUME NEW a \in Actors, CreateRow(a) PROVE Kind(s)
  <2>1. PICK d \in Deployments \ Rows :
          /\ status' = [status EXCEPT ![d] = "queued"]
          /\ row' = [row EXCEPT ![d] = at[a].req]
          /\ at' = [at EXCEPT ![a].pc = "decide", ![a].cur = d]
          /\ clicks' = clicks /\ at[a].pc = "create"
    BY <1>1 DEF CreateRow
  <2>2. /\ at'[a].pc = "decide" /\ at'[a].own = at[a].own
        /\ \A b \in Actors \ {a} : at'[b] = at[b]
    BY <1>0, <2>1 DEF ActorState
  <2>3. \A e \in Deployments \ {d} : status'[e] = status[e] /\ row'[e] = row[e]
    BY <1>0, <2>1
  <2>4. Untaken(s)' \subseteq Untaken(s)
    <3>1. \A e \in On(s, "in_progress")' : e # d /\ e \in On(s, "in_progress")
      BY <1>0, <2>1, <2>3 DEF On, Rows
    <3>2. \A e : Owned(e) => Owned(e)'
      BY <2>1, <2>2 DEF Owned, BusyWorkers, Actors
    <3> QED
      BY <3>1, <3>2 DEF Untaken
  <2>5. Promoting(s)' \subseteq Promoting(s)
    <3> SUFFICES ASSUME NEW b \in Promoting(s)'
                 PROVE  b \in Promoting(s)
      OBVIOUS
    <3>1. b \in Actors /\ b # a /\ at[b].pc = "promote" /\ row'[at[b].cur].server = s
      BY <2>2 DEF Promoting
    <3>2. at[b].cur \in Deployments /\ at[b].cur # d
      BY <1>0, <2>1, <3>1 DEF References, Refers, ActorState, TypeOK, RowLabels, Rows
    <3> QED
      BY <2>3, <3>1, <3>2 DEF Promoting
  <2>6. Viewing' \subseteq Viewing
    BY <2>2 DEF Viewing
  <2> QED
    BY <1>0, <2>1, <2>4, <2>5, <2>6 DEF Kind, Calm
<1>2. ASSUME NEW a \in Actors, Decide(a) PROVE Kind(s)
  <2>1. CASE ~(at[a].req.nqa \/ next_queuable(at[a].req))
    BY <1>0, <1>2, <2>1, MindsOnly, SMTT(60) DEF Decide, Minds, Takes, ActorState, Idle
  <2>2. CASE at[a].req.nqa \/ next_queuable(at[a].req)
    <3>1. /\ at' = [at EXCEPT ![a].pc = "promote"] /\ UNCHANGED <<status, row, clicks>>
          /\ at[a].pc = "decide" /\ row[at[a].cur] = at[a].req
          /\ at[a].req.nqa => ~Guarded(at[a].req.server)
      BY <1>0, <1>2, <2>2 DEF Decide, Asked, Asks
    <3>2. /\ at'[a].pc = "promote" /\ at'[a].cur = at[a].cur /\ at'[a].own = at[a].own
          /\ \A b \in Actors \ {a} : at'[b] = at[b]
      BY <1>0, <3>1 DEF ActorState
    <3>3. row[at[a].cur].server = s => Cardinality(On(s, "in_progress")) < ConcurrentBuilds[s]
      BY <2>2, <3>1 DEF next_queuable
    <3> QED
      BY <1>0, <3>1, <3>2, <3>3, TestsOnly
  <2> QED
    BY <2>1, <2>2
<1>3. ASSUME NEW a \in Actors, Promote(a) PROVE Kind(s)
  <2>1. /\ a \in Actors /\ at[a].pc = "promote" /\ at'[a].pc = "dispatch"
        /\ at'[a].own = at[a].own /\ \A b \in Actors \ {a} : at'[b] = at[b]
        /\ UNCHANGED <<row, clicks>>
    BY <1>0, <1>3 DEF Promote, ActorState, Actors
  <2>2. at[a].cur \in Deployments
    BY <1>0, <2>1 DEF ActorState, TypeOK, RowLabels
  <2>3. Untaken(s)' \subseteq Untaken(s) \cup {e \in {at[a].cur} : row[e].server = s}
    <3>1. \A e \in Deployments \ {at[a].cur} : status'[e] = status[e]
      BY <1>0, <1>3 DEF Promote
    <3>2. \A e : Owned(e) => Owned(e)'
      BY <2>1 DEF Owned, BusyWorkers, Actors
    <3>3. \A e \in On(s, "in_progress")' : e \in On(s, "in_progress") \/ e = at[a].cur
      BY <2>1, <3>1 DEF On, Rows
    <3>4. \A e \in On(s, "in_progress")' : row[e].server = s
      BY <2>1 DEF On
    <3> QED
      BY <3>2, <3>3, <3>4 DEF Untaken
  <2>4. Promoting(s)' \subseteq Promoting(s) \ {a} /\ Viewing' \subseteq Viewing
    BY <2>1 DEF Promoting, Viewing
  <2>5. CASE row[at[a].cur].server = s
    <3>1. a \in Promoting(s)
      BY <2>1, <2>5 DEF Promoting
    <3> QED
      BY <2>1, <2>2, <2>3, <2>4, <3>1 DEF Kind, Puts
  <2>6. CASE row[at[a].cur].server # s
    BY <1>0, <2>1, <2>3, <2>4, <2>6 DEF Kind, Calm
  <2> QED
    BY <2>5, <2>6
<1>4. ASSUME NEW a \in Actors, Dispatch(a) PROVE Kind(s)
  <2>1. row' = row /\ clicks' = clicks
    BY <1>4 DEF Dispatch
  <2> QED
    BY <1>0, <1>4, <2>1, DispatchChanges, MindsOnly, SMTT(40) DEF Minds, Takes
<1>5. ASSUME NEW a \in Actors, ScanRow(a) PROVE Kind(s)
  <2>1. PICK d \in at[a].todo :
          /\ at[a].pc = "scan"
          /\ at' = IF next_queuable(row[d])
                   THEN [at EXCEPT ![a].todo = @ \ {d}, ![a].cur = d, ![a].pc = "promote"]
                   ELSE [at EXCEPT ![a].todo = @ \ {d}]
          /\ UNCHANGED <<status, row, clicks>>
    BY <1>5, Zenon DEF ScanRow
  <2>2. CASE ~next_queuable(row[d])
    <3>1. /\ at'[a].pc = "scan" /\ at'[a].own = at[a].own
          /\ \A b \in Actors \ {a} : at'[b] = at[b]
      BY <1>0, <2>1, <2>2 DEF ActorState
    <3> QED
      <4>1. Minds(a)
        BY <1>0, <2>1, <3>1 DEF Minds, Takes
      <4> QED
        BY <4>1, MindsOnly
  <2>3. CASE next_queuable(row[d])
    <3>1. /\ at'[a].pc = "promote" /\ at'[a].cur = d /\ at'[a].own = at[a].own
          /\ \A b \in Actors \ {a} : at'[b] = at[b]
      BY <1>0, <2>1, <2>3 DEF ActorState
    <3>2. row[d].server = s => Cardinality(On(s, "in_progress")) < ConcurrentBuilds[s]
      BY <2>3 DEF next_queuable
    <3> QED
      BY <1>0, <2>1, <3>1, <3>2, TestsOnly
  <2> QED
    BY <2>2, <2>3
<1>6. ASSUME NEW a \in Actors, ScanEnd(a) PROVE Kind(s)
  BY <1>0, <1>6, MindsOnly, SMTT(60) DEF ScanEnd, Minds, Takes, ActorState, Actors, Idle
<1>7. ASSUME NEW a \in Actors, Crash(a) PROVE Kind(s)
  BY <1>0, <1>7 DEF Crash
<1>8. ASSUME NEW w \in Workers, Reserve(w) PROVE Kind(s)
  BY <1>0, <1>8, MindsOnly, SMTT(60) DEF Reserve, Minds, Takes, ActorState, Actors, Idle
<1>9. ASSUME NEW w \in Workers, Redeliver(w) PROVE Kind(s)
  BY <1>0, <1>9, MindsOnly, SMTT(60) DEF Redeliver, Minds, Takes, ActorState, Actors, Idle
<1>10. ASSUME NEW w \in Workers, Start(w) PROVE Kind(s)
  BY <1>0, <1>10, MindsOnly, SMTT(60) DEF Start, Minds, Takes, ActorState, Actors, Idle, Terminal
<1>11. ASSUME NEW w \in Workers, Claim(w) PROVE Kind(s)
  BY <1>0, <1>11, MindsOnly, SMTT(60) DEF Claim, Minds, Takes, ActorState, Actors, Idle
<1>12. ASSUME NEW w \in Workers, Work(w) PROVE Kind(s)
  BY <1>0, <1>12, MindsOnly, SMTT(60) DEF Work, Minds, Takes, ActorState, Actors, Idle
<1>13. ASSUME NEW w \in Workers, Settle(w) PROVE Kind(s)
  <2>1. /\ UNCHANGED <<status, row, clicks>> /\ \A b \in Actors \ {w} : at'[b] = at[b]
        /\ at[w].pc = "settle" /\ w \in Actors
        /\ \/ at'[w] = Idle /\ status[at[w].own] \in Terminal \cup {"cancelled"}
           \/ at'[w].own = at[w].own /\ at'[w].pc \in {"settle", "write"}
    BY <1>0, <1>13, SettleChanges DEF Actors
  <2>2. clicks <= clicks'
    BY <1>0, <2>1 DEF TypeOK
  <2>3. Minds(w)
    BY <2>1, <2>2 DEF Minds, Takes, Idle, Terminal
  <2> QED
    BY <1>0, <2>1, <2>3, MindsOnly
<1>14. ASSUME NEW w \in Workers, WriteStatus(w) PROVE Kind(s)
  BY <1>0, <1>14, MindsOnly, SMTT(60) DEF WriteStatus, Minds, Takes, ActorState, Actors, Idle, Verdict
<1>15. ASSUME NEW w \in Workers, FanOutOne(w) PROVE Kind(s)
  BY <1>0, <1>15, MindsOnly, SMTT(60) DEF FanOutOne, Minds, Takes, ActorState, Actors, Idle
<1>16. ASSUME NEW w \in Workers, QueueNext(w) PROVE Kind(s)
  BY <1>0, <1>16, MindsOnly, SMTT(60) DEF QueueNext, Minds, Takes, ActorState, Actors, Idle
<1>17. ASSUME NEW w \in Workers, EffectsThrow(w) PROVE Kind(s)
  BY <1>0, <1>17, MindsOnly, SMTT(60) DEF EffectsThrow, Minds, Takes, ActorState, Actors, Idle
<1>18. ASSUME NEW c \in Clients, NextAfterCancel(c) PROVE Kind(s)
  <2>1. PICK s1 : at' = [at EXCEPT ![c].pc = "scan", ![c].todo = Snapshot(s1), ![c].cur = 0]
    BY <1>18 DEF NextAfterCancel
  <2>2. /\ c \in Actors /\ at'[c].pc = "scan" /\ at[c].pc = "next"
        /\ UNCHANGED <<status, row, clicks>> /\ \A b \in Actors \ {c} : at'[b] = at[b]
    BY <1>0, <1>18, <2>1 DEF NextAfterCancel, ActorState, Actors
  <2>3. clicks <= clicks'
    BY <1>0, <2>2
  <2>4. Minds(c)
    BY <2>2, <2>3 DEF Minds, Takes
  <2> QED
    BY <2>2, <2>4, MindsOnly
<1>19. ASSUME NEW c \in Clients, ApiCancelWrite(c) PROVE Kind(s)
  BY <1>0, <1>19, MindsOnly, SMTT(60) DEF ApiCancelWrite, Minds, Takes, ActorState, Actors, Idle
<1>20. ASSUME NEW c \in Clients, SweepOne(c) PROVE Kind(s)
  BY <1>0, <1>20, MindsOnly, SMTT(60) DEF SweepOne, Minds, Takes, ActorState, Actors, Idle, Verdict
<1>21. ASSUME NEW c \in Clients, RequestDeployment(c) PROVE Kind(s)
  BY <1>0, <1>21, MindsOnly, SMTT(60) DEF RequestDeployment, Minds, Takes, ActorState, Actors, Idle
<1>22. ASSUME NEW c \in Clients, OpenDeployment(c) PROVE Kind(s)
  <2>1. PICK d \in Rows :
          /\ at[c].pc = "idle" /\ clicks' = clicks + 1 /\ UNCHANGED <<status, row>>
          /\ at' = [at EXCEPT ![c].cur = d,
                              ![c].pc = IF status[d] = "queued" THEN "view_queued"
                                                                ELSE "view_active"]
    BY <1>22 DEF OpenDeployment
  <2>2. /\ c \in Actors /\ at'[c].pc \in {"view_queued", "view_active"}
        /\ at'[c].own = at[c].own /\ \A b \in Actors \ {c} : at'[b] = at[b]
    BY <1>0, <2>1 DEF ActorState, Actors
  <2>3. Untaken(s)' \subseteq Untaken(s)
    <3>1. \A e : Owned(e) => Owned(e)'
      BY <2>1, <2>2 DEF Owned, BusyWorkers, Actors
    <3> QED
      BY <2>1, <3>1 DEF Untaken, On, Rows
  <2>4. Promoting(s)' \subseteq Promoting(s) /\ Viewing' \subseteq Viewing \cup {c}
    BY <2>1, <2>2 DEF Promoting, Viewing
  <2> QED
    BY <2>1, <2>2, <2>3, <2>4 DEF Kind, Opens
<1>23. ASSUME NEW c \in Clients, ForceStart(c) PROVE Kind(s)
  <2>1. /\ c \in Actors /\ at[c].pc = "view_queued" /\ at'[c].pc = "dispatch"
        /\ at'[c].own = at[c].own /\ \A b \in Actors \ {c} : at'[b] = at[b]
        /\ UNCHANGED <<row, clicks>>
    BY <1>0, <1>23 DEF ForceStart, ActorState, Actors
  <2>2. at[c].cur \in Deployments
    BY <1>0, <2>1 DEF ActorState, TypeOK, RowLabels
  <2>3. Untaken(s)' \subseteq Untaken(s) \cup {e \in {at[c].cur} : row[e].server = s}
    <3>1. \A e \in Deployments \ {at[c].cur} : status'[e] = status[e]
      BY <1>0, <1>23 DEF ForceStart
    <3>2. \A e : Owned(e) => Owned(e)'
      BY <2>1 DEF Owned, BusyWorkers, Actors
    <3>3. \A e \in On(s, "in_progress")' : e \in On(s, "in_progress") \/ e = at[c].cur
      BY <2>1, <3>1 DEF On, Rows
    <3>4. \A e \in On(s, "in_progress")' : row[e].server = s
      BY <2>1 DEF On
    <3> QED
      BY <3>2, <3>3, <3>4 DEF Untaken
  <2>4. /\ Promoting(s)' \subseteq Promoting(s) /\ Viewing' \subseteq Viewing \ {c}
        /\ c \in Viewing
    BY <2>1 DEF Promoting, Viewing
  <2> QED
    BY <2>1, <2>2, <2>3, <2>4 DEF Kind, Puts
<1>24. ASSUME NEW c \in Clients, CancelClick(c) PROVE Kind(s)
  BY <1>0, <1>24, MindsOnly, SMTT(60) DEF CancelClick, Minds, Takes, ActorState, Actors, Idle
<1>25. ASSUME NEW c \in Clients, LeavePage(c) PROVE Kind(s)
  BY <1>0, <1>25, MindsOnly, SMTT(60) DEF LeavePage, Minds, Takes, ActorState, Actors, Idle
<1>26. ASSUME NEW c \in Clients, ApiCancelTest(c) PROVE Kind(s)
  BY <1>0, <1>26, MindsOnly, SMTT(60) DEF ApiCancelTest, Minds, Takes, ActorState, Actors, Idle
<1>27. ASSUME NEW c \in Clients, SweepBegin(c) PROVE Kind(s)
  BY <1>0, <1>27, MindsOnly, SMTT(60) DEF SweepBegin, Minds, Takes, ActorState, Actors, Idle
<1>28. CASE Restart
  <2>1. \A d \in Deployments : status'[d] # "in_progress"
    BY <1>0, <1>28 DEF Restart, Active
  <2>2. /\ \A a \in Actors : at'[a].pc = "idle"
        /\ clicks' = clicks + 1
    BY <1>28 DEF Restart, Idle
  <2>3. Untaken(s)' = {} /\ Promoting(s)' = {} /\ Viewing' = {}
    BY <2>1, <2>2 DEF Untaken, On, Rows, Promoting, Viewing
  <2> QED
    BY <1>0, <2>2, <2>3 DEF Kind, Calm
<1>29. CASE UNCHANGED vars
  BY <1>0, <1>29 DEF vars, Kind, Calm, Untaken, On, Rows, Owned, BusyWorkers, Promoting, Viewing
<1> QED
  BY <1>1, <1>2, <1>3, <1>4, <1>5, <1>6, <1>7, <1>8, <1>9, <1>10, <1>11, <1>12, <1>13, <1>14, <1>15, <1>16, <1>17, <1>18, <1>19, <1>20, <1>21, <1>22, <1>23, <1>24, <1>25, <1>26, <1>27, <1>28, <1>29 DEF Next, Helper, WorkerStep, ClientStep, ClientChoice, Actors

(* A step of one actor changes what the others ask only through the rows.  *)
LEMMA StepKeeps ==
    ASSUME Asked, NEW a \in Actors, row' = row, Asks(a)',
           \A b \in Actors \ {a} : at'[b] = at[b]
    PROVE  Asked'
<1>1. \A b \in Actors \ {a} : Asks(b)'
  BY DEF Asked, Asks, Guarded
<1> QED
  BY <1>1 DEF Asked

LEMMA QuietKeeps ==
    ASSUME Asked, NEW a \in Actors, row' = row,
           \A b \in Actors \ {a} : at'[b] = at[b],
           at'[a].pc \notin {"create", "decide"}, at'[a].dests \subseteq at[a].dests
    PROVE  Asked'
<1>1. Asks(a)'
  BY DEF Asked, Asks
<1> QED
  BY <1>1, StepKeeps

LEMMA AskedHolds == Spec => []Asked
<1>1. Init => Asked
  BY DEF Init, Asked, Asks, Idle
<1>2. TypeOK /\ References /\ Asked /\ [Next]_vars => Asked'
  <2> SUFFICES ASSUME TypeOK, References, Asked, [Next]_vars
               PROVE  Asked'
    OBVIOUS
  <2>0. /\ at \in [Actors -> ActorState] /\ row \in [Deployments -> Request]
        /\ TypeOK /\ References /\ Asked
    BY DEF TypeOK
  <2>1. ASSUME NEW a \in Actors, CreateRow(a) PROVE Asked'
    <3>1. PICK d \in Deployments \ Rows :
            /\ row' = [row EXCEPT ![d] = at[a].req]
            /\ at' = [at EXCEPT ![a].pc = "decide", ![a].cur = d]
            /\ at[a].pc = "create"
      BY <2>1 DEF CreateRow
    <3>2. /\ at'[a].pc = "decide" /\ at'[a].cur = d /\ at'[a].req = at[a].req
          /\ at'[a].dests = at[a].dests
          /\ \A b \in Actors \ {a} : at'[b] = at[b]
      BY <2>0, <3>1 DEF ActorState
    <3>3. row'[d] = at[a].req /\ \A e \in Deployments \ {d} : row'[e] = row[e]
      BY <2>0, <3>1
    <3>4. Asks(a)'
      <4>1. Asks(a)
        BY <2>0 DEF Asked
      <4> QED
        BY <3>1, <3>2, <3>3, <4>1 DEF Asks, Guarded
    <3>5. ASSUME NEW b \in Actors \ {a} PROVE Asks(b)'
      <4>1. at[b].pc = "decide" => at[b].cur \in Deployments /\ at[b].cur # d
        BY <2>0, <3>1 DEF References, Refers, ActorState, TypeOK, RowLabels, Rows
      <4>2. Asks(b)
        BY <2>0 DEF Asked
      <4> QED
        BY <3>2, <3>3, <4>1, <4>2 DEF Asks, Guarded
    <3> QED
      BY <3>4, <3>5 DEF Asked
  <2>2. ASSUME NEW a \in Actors, Decide(a) PROVE Asked'
    BY <2>0, <2>2, QuietKeeps, SMTT(60) DEF Decide, Actors, ActorState, Idle
  <2>3. ASSUME NEW a \in Actors, Promote(a) PROVE Asked'
    BY <2>0, <2>3, QuietKeeps, SMTT(60) DEF Promote, Actors, ActorState, Idle
  <2>4. ASSUME NEW a \in Actors, Dispatch(a) PROVE Asked'
    <3>1. row' = row
      BY <2>4 DEF Dispatch
    <3> QED
      BY <2>0, <2>4, <3>1, DispatchChanges, QuietKeeps DEF Asks
  <2>5. ASSUME NEW a \in Actors, ScanRow(a) PROVE Asked'
    BY <2>0, <2>5, QuietKeeps, SMTT(60) DEF ScanRow, Actors, ActorState, Idle
  <2>6. ASSUME NEW a \in Actors, ScanEnd(a) PROVE Asked'
    BY <2>0, <2>6, QuietKeeps, SMTT(60) DEF ScanEnd, Actors, ActorState, Idle
  <2>7. ASSUME NEW a \in Actors, Crash(a) PROVE Asked'
    BY <2>0, <2>7, QuietKeeps, SMTT(60) DEF Crash, Actors, ActorState, Idle
  <2>8. ASSUME NEW w \in Workers, Reserve(w) PROVE Asked'
    BY <2>0, <2>8, QuietKeeps, SMTT(60) DEF Reserve, Actors, ActorState, Idle
  <2>9. ASSUME NEW w \in Workers, Redeliver(w) PROVE Asked'
    BY <2>0, <2>9, QuietKeeps, SMTT(60) DEF Redeliver, Actors, ActorState, Idle
  <2>10. ASSUME NEW w \in Workers, Start(w) PROVE Asked'
    BY <2>0, <2>10, QuietKeeps, SMTT(60) DEF Start, Actors, ActorState, Idle
  <2>11. ASSUME NEW w \in Workers, Claim(w) PROVE Asked'
    BY <2>0, <2>11, QuietKeeps, SMTT(60) DEF Claim, Actors, ActorState, Idle
  <2>12. ASSUME NEW w \in Workers, Work(w) PROVE Asked'
    BY <2>0, <2>12, QuietKeeps, SMTT(60) DEF Work, Actors, ActorState, Idle
  <2>13. ASSUME NEW w \in Workers, Settle(w) PROVE Asked'
    BY <2>0, <2>13, QuietKeeps, SMTT(60) DEF Settle, Actors, ActorState, Idle
  <2>14. ASSUME NEW w \in Workers, WriteStatus(w) PROVE Asked'
    <3>1. w \in Actors /\ at[w].own \in Deployments /\ row' = row
      BY <2>0, <2>14 DEF WriteStatus, Actors, ActorState, TypeOK, JobLabels
    <3>2. /\ at'[w].pc = "effects"
          /\ at'[w].dests = IF at[w].goal = "complete" THEN FanOut(at[w].own) ELSE {}
          /\ \A b \in Actors \ {w} : at'[b] = at[b]
      BY <2>0, <2>14, <3>1 DEF WriteStatus, ActorState
    <3>3. \A s \in at'[w].dests : s \in Extra[row[at[w].own].app]
      BY <3>2 DEF FanOut
    <3>4. row[at[w].own].app \in Apps
      BY <2>0, <3>1, Facts
    <3> QED
      BY <2>0, <3>1, <3>2, <3>3, <3>4, StepKeeps DEF Asks
  <2>15. ASSUME NEW w \in Workers, FanOutOne(w) PROVE Asked'
    <3>1. w \in Actors
      BY DEF Actors
    <3>2. PICK s \in at[w].dests :
            LET r == [app |-> row[at[w].own].app, pr |-> 0, commit |-> HeadCommit,
                      server |-> s, onlyThis |-> FALSE, force |-> FALSE, nqa |-> TRUE] IN
            /\ at[w].pc = "effects"
            /\ at' = IF Room /\ Accepted(r)
                     THEN [at EXCEPT ![w].pc = "create", ![w].req = r]
                     ELSE [at EXCEPT ![w].dests = @ \ {s}]
            /\ UNCHANGED <<status, row, jobs, lost, clicks, dropped>>
      BY <2>15, Zenon DEF FanOutOne
    <3> DEFINE r == [app |-> row[at[w].own].app, pr |-> 0, commit |-> HeadCommit,
                     server |-> s, onlyThis |-> FALSE, force |-> FALSE, nqa |-> TRUE]
    <3>3. row' = row /\ r.server = s /\ ~Guarded(s)
      BY <2>0, <3>1, <3>2 DEF Asked, Asks, Guarded
    <3>4. \/ at' = [at EXCEPT ![w].pc = "create", ![w].req = r]
          \/ at' = [at EXCEPT ![w].dests = @ \ {s}]
      BY <3>2
    <3>9. at[w] \in ActorState /\ w \in DOMAIN at
      BY <2>0, <3>1
    <3> HIDE DEF r
    <3>5. \/ /\ at'[w].pc = "create" /\ at'[w].req = r /\ at'[w].dests = at[w].dests
          \/ /\ at'[w].pc = "effects" /\ at'[w].dests \subseteq at[w].dests
      <4>1. CASE at' = [at EXCEPT ![w].pc = "create", ![w].req = r]
        BY <3>9, <4>1 DEF ActorState
      <4>2. CASE at' = [at EXCEPT ![w].dests = @ \ {s}]
        BY <3>2, <3>9, <4>2 DEF ActorState
      <4> QED
        BY <3>4, <4>1, <4>2
    <3>6. \A b \in Actors \ {w} : at'[b] = at[b]
      BY <2>0, <3>4
    <3>7. Asks(w)'
      <4>1. Asks(w)
        BY <2>0, <3>1 DEF Asked
      <4>2. Guarded(s)' <=> Guarded(s)
        BY DEF Guarded
      <4> QED
        BY <3>3, <3>5, <4>1, <4>2 DEF Asks
    <3> QED
      BY <2>0, <3>1, <3>3, <3>6, <3>7, StepKeeps
  <2>16. ASSUME NEW w \in Workers, QueueNext(w) PROVE Asked'
    BY <2>0, <2>16, QuietKeeps, SMTT(60) DEF QueueNext, Actors, ActorState, Idle
  <2>17. ASSUME NEW w \in Workers, EffectsThrow(w) PROVE Asked'
    BY <2>0, <2>17, QuietKeeps, SMTT(60) DEF EffectsThrow, Actors, ActorState, Idle
  <2>18. ASSUME NEW c \in Clients, NextAfterCancel(c) PROVE Asked'
    <3>1. PICK s : at' = [at EXCEPT ![c].pc = "scan", ![c].todo = Snapshot(s), ![c].cur = 0]
      BY <2>18 DEF NextAfterCancel
    <3>2. /\ row' = row /\ c \in Actors /\ at'[c].pc = "scan" /\ at'[c].dests = at[c].dests
          /\ \A b \in Actors \ {c} : at'[b] = at[b]
      BY <2>0, <2>18, <3>1 DEF NextAfterCancel, ActorState, Actors
    <3> QED
      BY <2>0, <3>2, QuietKeeps
  <2>19. ASSUME NEW c \in Clients, ApiCancelWrite(c) PROVE Asked'
    BY <2>0, <2>19, QuietKeeps, SMTT(60) DEF ApiCancelWrite, Actors, ActorState, Idle
  <2>20. ASSUME NEW c \in Clients, SweepOne(c) PROVE Asked'
    BY <2>0, <2>20, QuietKeeps, SMTT(60) DEF SweepOne, Actors, ActorState, Idle
  <2>21. ASSUME NEW c \in Clients, RequestDeployment(c) PROVE Asked'
    <3>1. PICK r \in ClientRequests : at' = [at EXCEPT ![c].pc = "create", ![c].req = r]
      BY <2>21 DEF RequestDeployment
    <3>2. /\ row' = row /\ c \in Actors /\ at'[c].pc = "create" /\ at'[c].req = r
          /\ at'[c].dests = at[c].dests
          /\ \A b \in Actors \ {c} : at'[b] = at[b]
      BY <2>0, <2>21, <3>1 DEF RequestDeployment, ActorState, Actors
    <3>3. Asks(c)'
      <4>1. Asks(c)
        BY <2>0, <3>2 DEF Asked
      <4> QED
        BY <3>2, <4>1 DEF Asks, Guarded
    <3> QED
      BY <2>0, <3>2, <3>3, StepKeeps
  <2>22. ASSUME NEW c \in Clients, OpenDeployment(c) PROVE Asked'
    BY <2>0, <2>22, QuietKeeps, SMTT(60) DEF OpenDeployment, Actors, ActorState, Idle
  <2>23. ASSUME NEW c \in Clients, ForceStart(c) PROVE Asked'
    BY <2>0, <2>23, QuietKeeps, SMTT(60) DEF ForceStart, Actors, ActorState, Idle
  <2>24. ASSUME NEW c \in Clients, CancelClick(c) PROVE Asked'
    BY <2>0, <2>24, QuietKeeps, SMTT(60) DEF CancelClick, Actors, ActorState, Idle
  <2>25. ASSUME NEW c \in Clients, LeavePage(c) PROVE Asked'
    BY <2>0, <2>25, QuietKeeps, SMTT(60) DEF LeavePage, Actors, ActorState, Idle
  <2>26. ASSUME NEW c \in Clients, ApiCancelTest(c) PROVE Asked'
    BY <2>0, <2>26, QuietKeeps, SMTT(60) DEF ApiCancelTest, Actors, ActorState, Idle
  <2>27. ASSUME NEW c \in Clients, SweepBegin(c) PROVE Asked'
    BY <2>0, <2>27, QuietKeeps, SMTT(60) DEF SweepBegin, Actors, ActorState, Idle
  <2>28. CASE Restart
    BY <2>28 DEF Restart, Asked, Asks, Idle
  <2>29. CASE UNCHANGED vars
    BY <2>0, <2>29 DEF vars, Asked, Asks, Guarded
  <2> QED
    BY <2>1, <2>2, <2>3, <2>4, <2>5, <2>6, <2>7, <2>8, <2>9, <2>10, <2>11, <2>12, <2>13, <2>14, <2>15, <2>16, <2>17, <2>18, <2>19, <2>20, <2>21, <2>22, <2>23, <2>24, <2>25, <2>26, <2>27, <2>28, <2>29 DEF Next, Helper, WorkerStep, ClientStep, ClientChoice
<1>3. QED
  BY <1>1, <1>2, TypeCorrect, ReferencesExist, PTL DEF Spec

(* The sets that are counted are finite, and whoever has passed the test   *)
(* looks at no page.                                                       *)
LEMMA CountedSets ==
    ASSUME NEW U, NEW P, NEW V, U \subseteq Deployments, P \subseteq Actors, V \subseteq Actors
    PROVE  /\ IsFiniteSet(U) /\ IsFiniteSet(P) /\ IsFiniteSet(V)
           /\ Cardinality(U) \in Nat /\ Cardinality(P) \in Nat /\ Cardinality(V) \in Nat
           /\ Cardinality(Actors) \in Nat
           /\ P \cap V = {} => Cardinality(P) + Cardinality(V) <= Cardinality(Actors)
<1>1. IsFiniteSet(Actors)
  BY FS_Union, ConstantsAssumption DEF Actors
<1>2. IsFiniteSet(U) /\ IsFiniteSet(P) /\ IsFiniteSet(V)
  BY <1>1, FiniteTable, FS_Subset
<1>3. /\ Cardinality(U) \in Nat /\ Cardinality(P) \in Nat /\ Cardinality(V) \in Nat
      /\ Cardinality(Actors) \in Nat
  BY <1>1, <1>2, FS_CardinalityType
<1>4. ASSUME P \cap V = {}
      PROVE  Cardinality(P) + Cardinality(V) <= Cardinality(Actors)
  <2>1. Cardinality(P \cup V) = Cardinality(P) + Cardinality(V)
    <3>1. Cardinality(P \cup V) = Cardinality(P) + Cardinality(V) - Cardinality(P \cap V)
      BY <1>2, FS_Union
    <3>2. Cardinality(P \cap V) = 0
      BY <1>4, FS_EmptySet
    <3> QED
      BY <1>3, <3>1, <3>2
  <2>2. Cardinality(P \cup V) <= Cardinality(Actors)
    <3>1. P \cup V \subseteq Actors
      OBVIOUS
    <3> QED
      BY <1>1, <3>1, FS_Subset
  <2> QED
    BY <2>1, <2>2
<1> QED
  BY <1>2, <1>3, <1>4

LEMMA LoadHolds == Spec => []LoadInv
<1>1. Init => LoadInv
  <2> SUFFICES ASSUME Init, NEW s \in Servers
               PROVE  Load(s) < ConcurrentBuilds[s] + Cardinality(Actors) + clicks
    BY DEF LoadInv, LoadBounded
  <2>1. Untaken(s) = {} /\ Promoting(s) = {} /\ Viewing = {} /\ clicks = 0
    BY DEF Init, Untaken, On, Rows, Promoting, Viewing, Idle
  <2>2. ConcurrentBuilds[s] \in Nat \ {0} /\ Cardinality(Actors) \in Nat
    BY ConstantsAssumption, CountedSets
  <2>3. Load(s) = 0
    BY <2>1, FS_EmptySet DEF Load
  <2> QED
    BY <2>1, <2>2, <2>3
<1>2. TypeOK /\ TypeOK' /\ References /\ Asked /\ LoadInv /\ [Next]_vars => LoadInv'
  <2> SUFFICES ASSUME TypeOK, TypeOK', References, Asked, "crash" \notin Faults, LoadBounded,
                      [Next]_vars, NEW s \in Servers, Guarded(s)
               PROVE  Load(s)' < ConcurrentBuilds[s] + Cardinality(Actors) + clicks'
    BY DEF LoadInv, LoadBounded, Guarded
  <2> DEFINE U == Untaken(s)      Ux == Untaken(s)'
             P == Promoting(s)    Px == Promoting(s)'
             V == Viewing         Vx == Viewing'
             CB == ConcurrentBuilds[s]
             A == Cardinality(Actors)
  <2>1. /\ U \subseteq Deployments /\ Ux \subseteq Deployments
        /\ P \subseteq Actors /\ Px \subseteq Actors /\ V \subseteq Actors /\ Vx \subseteq Actors
        /\ Px \cap Vx = {}
    BY DEF Untaken, On, Rows, Promoting, Viewing
  <2>2. /\ CB \in Nat \ {0} /\ clicks \in Nat /\ clicks' \in Nat
        /\ Cardinality(U) + Cardinality(P) + Cardinality(V) < CB + A + clicks
    BY ConstantsAssumption DEF TypeOK, LoadBounded, Load
  <2>3. Kind(s)
    BY BuildSteps
  <2>4. U \subseteq On(s, "in_progress") /\ On(s, "in_progress") \subseteq Deployments
    BY DEF Untaken, On, Rows
  <2>5. /\ Load(s)' = Cardinality(Ux) + Cardinality(Px) + Cardinality(Vx)
        /\ Calm(s) => Ux \subseteq U /\ Px \subseteq P /\ Vx \subseteq V /\ clicks <= clicks'
        /\ Tests(s) => /\ Cardinality(On(s, "in_progress")) < CB
                       /\ Ux \subseteq U /\ clicks' = clicks
        /\ Puts(s) => /\ \E d \in Deployments : Ux \subseteq U \cup {d}
                      /\ \E a \in Actors :
                           \/ a \in P /\ Px \subseteq P \ {a} /\ Vx \subseteq V
                           \/ a \in V /\ Vx \subseteq V \ {a} /\ Px \subseteq P
                      /\ clicks' = clicks
        /\ Opens(s) => /\ Ux \subseteq U /\ Px \subseteq P /\ clicks' = clicks + 1
                       /\ \E a \in Actors : Vx \subseteq V \cup {a}
    BY DEF Load, Calm, Tests, Puts, Opens
  <2> HIDE DEF U, Ux, P, Px, V, Vx, CB, A
  <2>6. /\ IsFiniteSet(U) /\ IsFiniteSet(P) /\ IsFiniteSet(V)
        /\ Cardinality(U) \in Nat /\ Cardinality(P) \in Nat /\ Cardinality(V) \in Nat
        /\ A \in Nat
    BY <2>1, CountedSets DEF A
  <2>7. /\ Cardinality(Ux) \in Nat /\ Cardinality(Px) \in Nat /\ Cardinality(Vx) \in Nat
        /\ Cardinality(Px) + Cardinality(Vx) <= A
    BY <2>1, CountedSets DEF A
  <2>8. /\ Ux \subseteq U => Cardinality(Ux) <= Cardinality(U)
        /\ Px \subseteq P => Cardinality(Px) <= Cardinality(P)
        /\ Vx \subseteq V => Cardinality(Vx) <= Cardinality(V)
    BY <2>6, FS_Subset
  <2>9. \A e, S, T : IsFiniteSet(S) /\ T \subseteq S \cup {e} => Cardinality(T) <= Cardinality(S) + 1
    <3> SUFFICES ASSUME NEW e, NEW S, NEW T, IsFiniteSet(S), T \subseteq S \cup {e}
                 PROVE  Cardinality(T) <= Cardinality(S) + 1
      OBVIOUS
    <3>1. Cardinality(S) \in Nat
      BY FS_CardinalityType
    <3>2. /\ IsFiniteSet(S \cup {e})
          /\ Cardinality(S \cup {e}) \in {Cardinality(S), Cardinality(S) + 1}
      BY FS_AddElement
    <3>3. Cardinality(T) <= Cardinality(S \cup {e}) /\ Cardinality(T) \in Nat
      BY <3>2, FS_Subset, FS_CardinalityType
    <3> QED
      BY <3>1, <3>2, <3>3
  <2>10. \A e, S, T : IsFiniteSet(S) /\ e \in S /\ T \subseteq S \ {e}
                        => Cardinality(T) <= Cardinality(S) - 1
    <3> SUFFICES ASSUME NEW S, IsFiniteSet(S), NEW e \in S, NEW T, T \subseteq S \ {e}
                 PROVE  Cardinality(T) <= Cardinality(S) - 1
      OBVIOUS
    <3>1. IsFiniteSet(S \ {e}) /\ Cardinality(S \ {e}) = Cardinality(S) - 1
      BY FS_RemoveElement
    <3>2. Cardinality(T) <= Cardinality(S \ {e})
      BY <3>1, FS_Subset
    <3> QED
      BY <3>1, <3>2
  <2>11. CASE Calm(s)
    BY <2>2, <2>5, <2>6, <2>7, <2>8, <2>11 DEF CB, A
  <2>12. CASE Tests(s)
    <3>1. /\ Cardinality(U) <= Cardinality(On(s, "in_progress"))
          /\ Cardinality(On(s, "in_progress")) \in Nat
      BY <2>4, FiniteTable, FS_Subset, FS_CardinalityType
    <3> QED
      BY <2>2, <2>5, <2>6, <2>7, <2>8, <2>12, <3>1 DEF CB, A
  <2>13. CASE Puts(s)
    <3>1. Cardinality(Ux) <= Cardinality(U) + 1
      BY <2>5, <2>6, <2>9, <2>13
    <3>2. Cardinality(Px) + Cardinality(Vx) <= Cardinality(P) + Cardinality(V) - 1
      <4>1. PICK a \in Actors : \/ a \in P /\ Px \subseteq P \ {a} /\ Vx \subseteq V
                                \/ a \in V /\ Vx \subseteq V \ {a} /\ Px \subseteq P
        BY <2>5, <2>13
      <4>2. CASE a \in P /\ Px \subseteq P \ {a} /\ Vx \subseteq V
        <5>1. Cardinality(Px) <= Cardinality(P) - 1
          BY <2>6, <2>10, <4>2
        <5> QED
          BY <2>6, <2>7, <2>8, <4>2, <5>1
      <4>3. CASE a \in V /\ Vx \subseteq V \ {a} /\ Px \subseteq P
        <5>1. Cardinality(Vx) <= Cardinality(V) - 1
          BY <2>6, <2>10, <4>3
        <5> QED
          BY <2>6, <2>7, <2>8, <4>3, <5>1
      <4> QED
        BY <4>1, <4>2, <4>3
    <3>3. clicks' = clicks
      BY <2>5, <2>13
    <3> QED
      BY <2>2, <2>5, <2>6, <2>7, <3>1, <3>2, <3>3 DEF CB, A
  <2>14. CASE Opens(s)
    <3>1. Cardinality(Vx) <= Cardinality(V) + 1
      BY <2>5, <2>6, <2>9, <2>14
    <3>2. clicks' = clicks + 1 /\ Cardinality(Ux) <= Cardinality(U) /\ Cardinality(Px) <= Cardinality(P)
      BY <2>5, <2>8, <2>14
    <3> QED
      BY <2>2, <2>5, <2>6, <2>7, <3>1, <3>2 DEF CB, A
  <2> QED
    BY <2>3, <2>11, <2>12, <2>13, <2>14 DEF Kind
<1>3. QED
  BY <1>1, <1>2, TypeCorrect, ReferencesExist, AskedHolds, PTL DEF Spec

(* concurrent_builds is exceeded by no more rows than processes can pass   *)
(* next_queuable together, users force, and jobs run twice, for any number *)
(* of servers, clients and workers.  Inductive over the load of a server:  *)
(* a write of in_progress takes one from those that passed the test or     *)
(* were looking at the page, and a test finds fewer rows in progress than  *)
(* the limit.  What the load leaves out is one row for a busy worker.      *)
THEOREM BuildsHold == Spec => []BuildsBounded
<1>1. TypeOK /\ LoadInv => BuildsBounded
  <2> SUFFICES ASSUME TypeOK, LoadBounded, NEW s \in Servers, Guarded(s)
               PROVE  Cardinality(On(s, "in_progress"))
                        < ConcurrentBuilds[s] + Cardinality(Actors) + clicks
                            + Cardinality(BusyWorkers)
    BY DEF BuildsBounded, LoadInv
  <2>1. /\ Untaken(s) \subseteq Deployments /\ On(s, "in_progress") \subseteq Deployments
        /\ Promoting(s) \subseteq Actors /\ Viewing \subseteq Actors
        /\ BusyWorkers \subseteq Actors
    BY DEF Untaken, On, Rows, Promoting, Viewing, BusyWorkers, Actors
  <2>2. /\ IsFiniteSet(Untaken(s)) /\ IsFiniteSet(BusyWorkers)
        /\ Cardinality(Untaken(s)) \in Nat /\ Cardinality(Promoting(s)) \in Nat
        /\ Cardinality(Viewing) \in Nat /\ Cardinality(Actors) \in Nat
    BY <2>1, CountedSets
  <2>3. Load(s) < ConcurrentBuilds[s] + Cardinality(Actors) + clicks
    BY DEF LoadBounded
  <2> DEFINE Theirs == {at[w].own : w \in BusyWorkers}
  <2>4. /\ IsFiniteSet(Theirs) /\ Cardinality(Theirs) <= Cardinality(BusyWorkers)
        /\ Cardinality(Theirs) \in Nat /\ Cardinality(BusyWorkers) \in Nat
    <3> DEFINE f == [w \in BusyWorkers |-> at[w].own]
    <3>1. f \in Surjection(BusyWorkers, Theirs)
      BY Fun_IsSurj
    <3> QED
      BY <2>2, <3>1, FS_Surjection, FS_CardinalityType
  <2>5. On(s, "in_progress") \subseteq Untaken(s) \cup Theirs
    BY DEF Untaken, Owned
  <2> HIDE DEF Theirs
  <2>6. Cardinality(On(s, "in_progress")) <= Cardinality(Untaken(s)) + Cardinality(Theirs)
    <3>1. /\ IsFiniteSet(Untaken(s) \cup Theirs)
          /\ Cardinality(Untaken(s) \cup Theirs) =
                Cardinality(Untaken(s)) + Cardinality(Theirs) - Cardinality(Untaken(s) \cap Theirs)
          /\ Cardinality(Untaken(s) \cup Theirs) \in Nat
      BY <2>2, <2>4, FS_Union, FS_CardinalityType
    <3>2. Cardinality(Untaken(s) \cap Theirs) \in Nat
      BY <2>2, FS_Intersection, FS_CardinalityType
    <3>3. Cardinality(On(s, "in_progress")) <= Cardinality(Untaken(s) \cup Theirs)
      BY <2>5, <3>1, FS_Subset
    <3>4. Cardinality(On(s, "in_progress")) \in Nat
      BY <2>1, FiniteTable, FS_Subset, FS_CardinalityType
    <3> QED
      BY <2>2, <2>4, <3>1, <3>2, <3>3, <3>4
  <2>7. Cardinality(On(s, "in_progress")) \in Nat /\ ConcurrentBuilds[s] \in Nat /\ clicks \in Nat
    BY <2>1, FiniteTable, FS_Subset, FS_CardinalityType, ConstantsAssumption DEF TypeOK
  <2> QED
    BY <2>2, <2>3, <2>4, <2>6, <2>7 DEF Load
<1>2. QED
  BY <1>1, TypeCorrect, LoadHolds, PTL
=============================================================================
