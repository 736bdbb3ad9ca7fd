------------------------- MODULE ScheduledJobsProofs -------------------------
(***************************************************************************)
(* While managers are punctual one of them runs at a time, and then the    *)
(* single time that shouldRunCronNow keeps per item is enough: no due time *)
(* is dispatched twice, and together they implement CronSchedule.          *)
(***************************************************************************)
EXTENDS ScheduledJobs, TLAPS

LEMMA Division ==
    ASSUME NEW p \in Nat \ {0}, NEW t \in Nat
    PROVE  \E q \in Nat, r \in Nat : r < p /\ t = p * q + r /\ t % p = r
<1> DEFINE q == t \div p
           r == t % p
<1>1. q \in Nat /\ r \in Nat /\ r < p /\ t = p * q + r
  BY Z3
<1> QED BY <1>1

LEMMA DueMonotone ==
    ASSUME NEW p \in Nat \ {0}, NEW s \in Nat, NEW t \in Nat, s <= t
    PROVE  s - (s % p) <= t - (t % p)
<1>1. PICK q \in Nat, r \in Nat : r < p /\ s = p * q + r /\ s % p = r
  BY Division
<1>2. PICK u \in Nat, v \in Nat : v < p /\ t = p * u + v /\ t % p = v
  BY Division
<1>3. q <= u
  <2> SUFFICES ASSUME u + 1 <= q PROVE FALSE
    OBVIOUS
  <2>1. p * (u + 1) <= p * q
    BY Z3
  <2>2. p * (u + 1) = p * u + p
    BY Z3
  <2> QED BY <1>1, <1>2, <2>1, <2>2, SMT
<1>4. p * q <= p * u
  BY <1>3, Z3
<1> QED BY <1>1, <1>2, <1>4

LEMMA DueIdempotent ==
    ASSUME NEW p \in Nat \ {0}, NEW t \in Nat
    PROVE  (t - (t % p)) % p = 0
<1>1. PICK q \in Nat, r \in Nat : r < p /\ t = p * q + r /\ t % p = r
  BY Division
<1>2. t - (t % p) = p * q /\ p * q \in Nat
  BY <1>1
<1>3. PICK u \in Nat, v \in Nat : v < p /\ p * q = p * u + v /\ (p * q) % p = v
  BY <1>2, Division
<1>4. q = u
  <2>1. ASSUME u + 1 <= q PROVE FALSE
    <3>1. p * (u + 1) <= p * q /\ p * (u + 1) = p * u + p
      BY <2>1, Z3
    <3> QED BY <1>3, <3>1
  <2>2. ASSUME q + 1 <= u PROVE FALSE
    <3>1. p * (q + 1) <= p * u /\ p * (q + 1) = p * q + p
      BY <2>2, Z3
    <3> QED BY <1>3, <3>1
  <2> QED BY <2>1, <2>2
<1> QED BY <1>2, <1>3, <1>4

-----------------------------------------------------------------------------
LEMMA PreviousDueFacts ==
    ASSUME NEW i \in Items, NEW t \in Nat
    PROVE  /\ previousDue(i, t) \in Nat
           /\ previousDue(i, t) <= t
           /\ previousDue(i, previousDue(i, t)) = previousDue(i, t)
           /\ \A s \in 0 .. t : previousDue(i, s) <= previousDue(i, t)
<1> DEFINE p == Period[i]
<1>1. p \in Nat \ {0}
  BY ScheduledAssumption
<1>2. PICK q \in Nat, r \in Nat : r < p /\ t = p * q + r /\ t % p = r
  BY <1>1, Division
<1>3. p * q \in Nat
  BY <1>1
<1>4. previousDue(i, t) \in Nat /\ previousDue(i, t) <= t
  BY <1>2, <1>3 DEF previousDue
<1>5. (t - (t % p)) % p = 0
  BY <1>1, DueIdempotent
<1>6. \A s \in 0 .. t : s - (s % p) <= t - (t % p)
  BY <1>1, DueMonotone
<1> QED BY <1>4, <1>5, <1>6 DEF previousDue

Runs == [pc : {"idle", "failed", "item", "put", "dispatch"},
         executionTime : Nat, todo : Seq(Items), lastDispatched : Nat \cup {Null}]

LEMMA EndedTyped ==
    ASSUME NEW pc \in {"idle", "failed"}
    PROVE  Ended(pc) \in Runs /\ Ended(pc).pc = pc
BY DEF Ended, Runs

LEMMA NextItemTyped ==
    ASSUME TypeOK, NEW m \in Managers, mgr[m].todo # <<>>, mgr' = NextItem(m)
    PROVE  /\ mgr' \in [Managers -> Runs]
           /\ mgr'[m].pc = "item" /\ mgr'[m].executionTime = mgr[m].executionTime
           /\ \A n \in Managers \ {m} : mgr'[n] = mgr[n]
<1>1. mgr \in [Managers -> Runs]
  BY DEF TypeOK, Runs
<1>2. Tail(mgr[m].todo) \in Seq(Items)
  BY <1>1 DEF Runs
<1> QED BY <1>1, <1>2 DEF Runs, NextItem

(* A step of one manager keeps the types if the parts it changes do. *)
LEMMA RunTyped ==
    ASSUME TypeOK, NEW m \in Managers,
           mgr' \in [Managers -> Runs],
           mgr'[m].pc \in {"put", "dispatch"} => mgr'[m].todo # <<>>,
           \A n \in Managers \ {m} : mgr'[n] = mgr[n],
           UNCHANGED <<clock, queued, world>>,
           lock' \in [owner : Managers \cup {NoOne}, expires : Nat \cup {Never}],
           cache' \in [Items -> Nat \cup {Null}],
           fired' \in [Items -> Seq(Nat)], settled' \in [Items -> SUBSET Nat]
    PROVE  TypeOK'
<1>1. \A n \in Managers : mgr'[n].pc \in {"put", "dispatch"} => mgr'[n].todo # <<>>
  <2>1. \A n \in Managers : mgr[n].pc \in {"put", "dispatch"} => mgr[n].todo # <<>>
    BY DEF TypeOK
  <2> QED BY <2>1
<1>2. /\ clock' \in Nat /\ queued' \in Nat /\ faults' \in 0 .. MaxFaults
      /\ functional' \in [Items -> BOOLEAN] /\ running' \in [Items -> BOOLEAN]
  BY DEF TypeOK, world
<1> QED BY <1>1, <1>2 DEF TypeOK, Runs

LEMMA NextItemKeepsTypes ==
    ASSUME TypeOK, NEW m \in Managers, mgr[m].todo # <<>>, mgr' = NextItem(m),
           UNCHANGED <<clock, queued, lock, world>>,
           cache' \in [Items -> Nat \cup {Null}],
           fired' \in [Items -> Seq(Nat)], settled' \in [Items -> SUBSET Nat]
    PROVE  TypeOK'
<1>1. lock' \in [owner : Managers \cup {NoOne}, expires : Nat \cup {Never}]
  BY DEF TypeOK
<1> QED BY <1>1, NextItemTyped, RunTyped

LEMMA LeaveTyped ==
    ASSUME TypeOK, NEW m \in Managers, NEW pc \in {"idle", "failed"}, Leave(m, pc)
    PROVE  TypeOK'
<1>1. mgr' = [mgr EXCEPT ![m] = Ended(pc)] /\ mgr \in [Managers -> Runs]
  BY DEF Leave, TypeOK, Runs
<1>2. /\ mgr' \in [Managers -> Runs] /\ mgr'[m].pc = pc
      /\ \A n \in Managers \ {m} : mgr'[n] = mgr[n]
  BY <1>1, EndedTyped
<1>3. lock' \in [owner : Managers \cup {NoOne}, expires : Nat \cup {Never}]
  BY DEF Leave, TypeOK
<1>4. UNCHANGED <<clock, queued, cache, world, fired, settled>>
  BY DEF Leave
<1>5. /\ cache' \in [Items -> Nat \cup {Null}]
      /\ fired' \in [Items -> Seq(Nat)] /\ settled' \in [Items -> SUBSET Nat]
  BY <1>4 DEF TypeOK
<1> QED BY <1>2, <1>3, <1>4, <1>5, RunTyped

(* Every variable keeps its type. *)
THEOREM TypeCorrect == Spec => []TypeOK
<1>1. Init => TypeOK
  BY EndedTyped, ScheduledAssumption, SMTT(60) DEF Init, TypeOK, Minute, Never, Null, Runs
<1>2. TypeOK /\ [Next]_vars => TypeOK'
  <2> SUFFICES ASSUME TypeOK, [Next]_vars PROVE TypeOK'
    OBVIOUS
  <2>1. CASE Tick
    BY <2>1 DEF Tick, TypeOK, world
  <2>2. CASE World
    <3>1. faults' \in 0 .. MaxFaults
      BY <2>2, ScheduledAssumption DEF World, TypeOK
    <3>2. UNCHANGED <<clock, queued, lock, cache, mgr, fired, settled>>
      BY <2>2 DEF World
    <3>3. functional' \in [Items -> BOOLEAN] /\ running' \in [Items -> BOOLEAN]
      <4>1. ASSUME NEW i \in Items, functional' = [functional EXCEPT ![i] = ~@], UNCHANGED running
            PROVE  functional' \in [Items -> BOOLEAN] /\ running' \in [Items -> BOOLEAN]
        BY <4>1, Zenon DEF TypeOK
      <4>2. ASSUME NEW i \in Items, running' = [running EXCEPT ![i] = ~@], UNCHANGED functional
            PROVE  functional' \in [Items -> BOOLEAN] /\ running' \in [Items -> BOOLEAN]
        BY <4>2, Zenon DEF TypeOK
      <4> QED BY <2>2, <4>1, <4>2 DEF World
    <3> QED BY <3>1, <3>2, <3>3 DEF TypeOK
  <2>3. ASSUME NEW m \in Managers, Take(m) PROVE TypeOK'
    <3>1. Cleared(lock) \in [owner : Managers \cup {NoOne}, expires : Nat \cup {Never}]
      <4>1. CASE lock.expires = Never
        BY <4>1 DEF Cleared
      <4>2. CASE lock.expires # Never
        BY <4>2 DEF Cleared, TypeOK
      <4> QED BY <4>1, <4>2
    <3>2. Order \in Seq(Items)
      BY ScheduledAssumption
    <3>3. CASE Free(Cleared(lock))
      <4>1. Begun(clock) \in Runs /\ Begun(clock).pc = "item"
        BY <3>2 DEF Begun, TypeOK, Runs
      <4>2. [owner |-> m, expires |-> clock + LockTTL]
              \in [owner : Managers \cup {NoOne}, expires : Nat \cup {Never}]
        BY DEF TypeOK, LockTTL
      <4>3. /\ lock' = [owner |-> m, expires |-> clock + LockTTL]
            /\ mgr' = [mgr EXCEPT ![m] = Begun(clock)]
            /\ queued' = queued - 1 /\ queued > 0
            /\ UNCHANGED <<clock, cache, world, fired, settled>>
        BY <2>3, <3>3 DEF Take
      <4>4. mgr \in [Managers -> Runs]
        BY DEF TypeOK, Runs
      <4>5. /\ mgr' \in [Managers -> Runs] /\ mgr'[m].pc = "item"
            /\ \A n \in Managers \ {m} : mgr'[n] = mgr[n]
        BY <4>1, <4>3, <4>4
      <4>6. \A n \in Managers : mgr'[n].pc \in {"put", "dispatch"} => mgr'[n].todo # <<>>
        <5>1. \A n \in Managers : mgr[n].pc \in {"put", "dispatch"} => mgr[n].todo # <<>>
          BY DEF TypeOK
        <5> QED BY <4>5, <5>1
      <4>7. queued' \in Nat
        BY <4>3 DEF TypeOK
      <4>8. lock' \in [owner : Managers \cup {NoOne}, expires : Nat \cup {Never}]
        BY <4>2, <4>3
      <4> QED BY <4>3, <4>5, <4>6, <4>7, <4>8 DEF TypeOK, Runs, world
    <3>4. CASE ~Free(Cleared(lock))
      BY <2>3, <3>1, <3>4 DEF Take, TypeOK, world
    <3> QED BY <3>3, <3>4
  <2>4. ASSUME NEW m \in Managers, Evaluate(m) PROVE TypeOK'
    <3>1. /\ mgr[m].todo # <<>> /\ Item(m) \in Items
          /\ mgr \in [Managers -> Runs]
      BY <2>4 DEF Evaluate, Item, TypeOK, Runs
    <3>2. UNCHANGED <<clock, queued, lock, cache, world, fired, settled>>
      BY <2>4 DEF Evaluate
    <3>3. /\ lock' \in [owner : Managers \cup {NoOne}, expires : Nat \cup {Never}]
          /\ cache' \in [Items -> Nat \cup {Null}]
          /\ fired' \in [Items -> Seq(Nat)] /\ settled' \in [Items -> SUBSET Nat]
      BY <3>2 DEF TypeOK
    <3>4. CASE functional[Item(m)]
      <4> DEFINE kept == cache[Item(m)]
      <4>1. kept \in Nat \cup {Null}
        BY <3>1 DEF TypeOK
      <4>2. mgr' = [mgr EXCEPT ![m].pc = "put", ![m].lastDispatched = kept]
        BY <2>4, <3>4 DEF Evaluate
      <4> HIDE DEF kept
      <4>3. /\ mgr' \in [Managers -> Runs]
            /\ mgr'[m].todo = mgr[m].todo
            /\ \A n \in Managers \ {m} : mgr'[n] = mgr[n]
        BY <3>1, <4>1, <4>2, ZenonT(60) DEF Runs
      <4> QED BY <3>1, <3>2, <3>3, <4>3, RunTyped
    <3>5. CASE ~functional[Item(m)]
      <4>1. mgr' = NextItem(m)
        BY <2>4, <3>5 DEF Evaluate
      <4> QED BY <3>1, <3>2, <3>3, <4>1, NextItemKeepsTypes
    <3> QED BY <3>4, <3>5
  <2>5. ASSUME NEW m \in Managers, EvaluateApplication(m) PROVE TypeOK'
    <3>1. CASE functional[Item(m)]
      BY <2>5, <3>1, LeaveTyped DEF EvaluateApplication
    <3>2. CASE ~functional[Item(m)]
      <4>1. /\ mgr[m].todo # <<>> /\ mgr' = NextItem(m)
            /\ UNCHANGED <<clock, queued, lock, cache, world, fired, settled>>
        BY <2>5, <3>2 DEF EvaluateApplication
      <4>2. /\ cache' \in [Items -> Nat \cup {Null}]
            /\ fired' \in [Items -> Seq(Nat)] /\ settled' \in [Items -> SUBSET Nat]
        BY <4>1 DEF TypeOK
      <4> QED BY <4>1, <4>2, NextItemKeepsTypes
    <3> QED BY <3>1, <3>2
  <2>6. ASSUME NEW m \in Managers, Put(m) PROVE TypeOK'
    <3> DEFINE i == Item(m)
               t == mgr[m].executionTime
    <3>1. mgr[m].todo # <<>> /\ i \in Items /\ t \in Nat /\ mgr \in [Managers -> Runs]
      BY <2>6 DEF Put, Item, TypeOK, Runs
    <3>2. previousDue(i, t) \in Nat
      BY <3>1, PreviousDueFacts
    <3>3. cache' \in [Items -> Nat \cup {Null}] /\ settled' \in [Items -> SUBSET Nat]
      <4> DEFINE due == previousDue(i, t)
      <4>1. /\ settled' = [settled EXCEPT ![i] = @ \cup {due}]
            /\ \/ cache' = [cache EXCEPT ![i] = t]
               \/ cache' = [cache EXCEPT ![i] = due]
        BY <2>6 DEF Put
      <4>2. due \in Nat
        BY <3>2
      <4>3. /\ cache \in [Items -> Nat \cup {Null}]
            /\ settled \in [Items -> SUBSET Nat]
        BY DEF TypeOK
      <4> HIDE DEF i, t, due
      <4>4. cache' \in [Items -> Nat \cup {Null}]
        BY <3>1, <4>1, <4>2, <4>3
      <4>5. settled[i] \cup {due} \in SUBSET Nat
        BY <3>1, <4>2, <4>3
      <4> QED BY <4>1, <4>3, <4>4, <4>5
    <3>4. UNCHANGED <<clock, queued, lock, world, fired>>
      BY <2>6 DEF Put
    <3>5. /\ lock' \in [owner : Managers \cup {NoOne}, expires : Nat \cup {Never}]
          /\ fired' \in [Items -> Seq(Nat)]
      BY <3>4 DEF TypeOK
    <3>6. \/ mgr' = [mgr EXCEPT ![m].pc = "dispatch"]
          \/ mgr' = NextItem(m)
      BY <2>6 DEF Put
    <3> HIDE DEF i, t
    <3>7. CASE mgr' = [mgr EXCEPT ![m].pc = "dispatch"]
      <4>1. /\ mgr' \in [Managers -> Runs]
            /\ mgr'[m].todo = mgr[m].todo
            /\ \A n \in Managers \ {m} : mgr'[n] = mgr[n]
        BY <3>1, <3>7 DEF Runs
      <4> QED BY <3>1, <3>3, <3>4, <3>5, <4>1, RunTyped
    <3>8. CASE mgr' = NextItem(m)
      BY <3>1, <3>3, <3>4, <3>5, <3>8, NextItemKeepsTypes
    <3> QED BY <3>6, <3>7, <3>8
  <2>7. ASSUME NEW m \in Managers, Dispatch(m) PROVE TypeOK'
    <3> DEFINE i == Item(m)
               t == mgr[m].executionTime
    <3>1. mgr[m].todo # <<>> /\ i \in Items /\ t \in Nat
      BY <2>7 DEF Dispatch, Item, TypeOK
    <3>2. previousDue(i, t) \in Nat
      BY <3>1, PreviousDueFacts
    <3>3. fired' \in [Items -> Seq(Nat)]
      BY <2>7, <3>1, <3>2 DEF Dispatch, Ran, TypeOK
    <3>4. mgr' = NextItem(m) /\ UNCHANGED <<clock, queued, lock, cache, world, settled>>
      BY <2>7 DEF Dispatch
    <3>5. cache' \in [Items -> Nat \cup {Null}] /\ settled' \in [Items -> SUBSET Nat]
      BY <3>4 DEF TypeOK
    <3> QED BY <3>1, <3>3, <3>4, <3>5, NextItemKeepsTypes
  <2>8. ASSUME NEW m \in Managers, Finish(m) PROVE TypeOK'
    BY <2>8, LeaveTyped DEF Finish
  <2>9. ASSUME NEW m \in Managers, Crash(m) PROVE TypeOK'
    <3>1. faults' \in 0 .. MaxFaults
      BY <2>9, ScheduledAssumption DEF Crash, TypeOK
    <3>2. /\ mgr' = [mgr EXCEPT ![m] = Ended("idle")]
          /\ UNCHANGED <<clock, queued, lock, cache, functional, running, fired, settled>>
      BY <2>9 DEF Crash
    <3>3. mgr \in [Managers -> Runs]
      BY DEF TypeOK, Runs
    <3>4. mgr' \in [Managers -> Runs]
      BY <3>2, <3>3, EndedTyped
    <3>5. \A n \in Managers : mgr'[n].pc \in {"put", "dispatch"} => mgr'[n].todo # <<>>
      <4>1. \A n \in Managers : mgr[n].pc \in {"put", "dispatch"} => mgr[n].todo # <<>>
        BY DEF TypeOK
      <4>2. mgr'[m].pc = "idle" /\ \A n \in Managers \ {m} : mgr'[n] = mgr[n]
        BY <3>2, <3>3, EndedTyped
      <4> QED BY <4>1, <4>2
    <3> QED BY <3>1, <3>2, <3>4, <3>5 DEF TypeOK, Runs
  <2>10. CASE UNCHANGED vars
    BY <2>10 DEF TypeOK, vars, world
  <2> QED BY <2>1, <2>2, <2>3, <2>4, <2>5, <2>6, <2>7, <2>8, <2>9, <2>10 DEF Next, Run
<1> QED BY <1>1, <1>2, PTL DEF Spec

-----------------------------------------------------------------------------
(* A running manager owns the lock, and it has not expired: the strength-  *)
(* ening of OneManager.                                                    *)
HoldsLock ==
    \A m \in Managers : Busy(m) =>
        /\ lock.owner = m
        /\ lock.expires = mgr[m].executionTime + LockTTL
        /\ mgr[m].executionTime <= clock /\ clock < lock.expires

LEMMA HoldsLockInductive ==
    ASSUME Punctual, TypeOK, HoldsLock, [Next]_vars
    PROVE  HoldsLock'
<1>1. CASE Tick
  <2>1. ASSUME NEW m \in Managers, Busy(m)
        PROVE  /\ lock.owner = m /\ lock.expires = mgr[m].executionTime + LockTTL
               /\ mgr[m].executionTime <= clock + 1 /\ clock + 1 < lock.expires
    BY <1>1, <2>1 DEF Tick, HoldsLock, TypeOK, LockTTL
  <2> QED BY <1>1, <2>1 DEF Tick, HoldsLock, Busy
<1>2. CASE World
  BY <1>2 DEF World, HoldsLock, Busy
<1>3. ASSUME NEW m \in Managers, Take(m) PROVE HoldsLock'
  <2>1. CASE Free(Cleared(lock))
    <3>1. \A n \in Managers : ~Busy(n)
      BY <2>1, ScheduledAssumption DEF Free, Cleared, HoldsLock, TypeOK, Never, LockTTL
    <3>2. /\ lock' = [owner |-> m, expires |-> clock + LockTTL]
          /\ mgr' = [mgr EXCEPT ![m] = Begun(clock)]
          /\ clock' = clock
      BY <1>3, <2>1 DEF Take
    <3>3. mgr'[m] = Begun(clock) /\ \A n \in Managers \ {m} : mgr'[n] = mgr[n]
      BY <3>2 DEF TypeOK
    <3>4. \A n \in Managers : Busy(n)' => n = m
      BY <3>1, <3>3 DEF Busy
    <3> QED BY <3>2, <3>3, <3>4 DEF HoldsLock, Begun, LockTTL, TypeOK
  <2>2. CASE ~Free(Cleared(lock))
    <3>1. UNCHANGED <<mgr, clock>> /\ lock' = Cleared(lock)
      BY <1>3, <2>2 DEF Take
    <3>2. \A n \in Managers : Busy(n) => Cleared(lock) = lock
      BY DEF HoldsLock, Cleared, TypeOK, Never, LockTTL
    <3> QED BY <3>1, <3>2 DEF HoldsLock, Busy
  <2> QED BY <2>1, <2>2
(* Every other step of a manager leaves its run as busy as it was, or ends it. *)
<1>4. ASSUME NEW m \in Managers, NEW pc \in {"idle", "failed"}, Leave(m, pc) PROVE HoldsLock'
  <2>1. /\ mgr'[m].pc = pc /\ \A n \in Managers \ {m} : mgr'[n] = mgr[n]
        /\ clock' = clock /\ (lock.owner # m => lock' = lock)
    BY <1>4 DEF Leave, Ended, TypeOK
  <2> QED BY <2>1 DEF HoldsLock, Busy
<1>5. ASSUME NEW m \in Managers, Busy(m), UNCHANGED <<clock, lock>>,
             mgr'[m].executionTime = mgr[m].executionTime,
             \A n \in Managers \ {m} : mgr'[n] = mgr[n]
      PROVE  HoldsLock'
  BY <1>5 DEF HoldsLock, Busy
<1>6. ASSUME NEW m \in Managers, mgr[m].todo # <<>>, Busy(m), mgr' = NextItem(m),
             UNCHANGED <<clock, lock>>
      PROVE  HoldsLock'
  BY <1>5, <1>6, NextItemTyped
<1>7. ASSUME NEW m \in Managers, Evaluate(m) PROVE HoldsLock'
  <2>1. Busy(m) /\ mgr[m].todo # <<>> /\ UNCHANGED <<clock, lock>>
    BY <1>7 DEF Evaluate, Busy
  <2>2. CASE functional[Item(m)]
    BY <1>5, <1>7, <2>1, <2>2 DEF Evaluate, TypeOK
  <2>3. CASE ~functional[Item(m)]
    BY <1>6, <1>7, <2>1, <2>3 DEF Evaluate
  <2> QED BY <2>2, <2>3
<1>8. ASSUME NEW m \in Managers, EvaluateApplication(m) PROVE HoldsLock'
  BY <1>4, <1>6, <1>8 DEF EvaluateApplication, Busy
<1>9. ASSUME NEW m \in Managers, Put(m) PROVE HoldsLock'
  <2>1. Busy(m) /\ mgr[m].todo # <<>> /\ UNCHANGED <<clock, lock>>
    BY <1>9 DEF Put, Busy, TypeOK
  <2>2. \/ mgr' = [mgr EXCEPT ![m].pc = "dispatch"]
        \/ mgr' = NextItem(m)
    BY <1>9 DEF Put
  <2>3. CASE mgr' = [mgr EXCEPT ![m].pc = "dispatch"]
    BY <1>5, <2>1, <2>3 DEF TypeOK
  <2> QED BY <1>6, <2>1, <2>2, <2>3
<1>10. ASSUME NEW m \in Managers, Dispatch(m) PROVE HoldsLock'
  BY <1>6, <1>10 DEF Dispatch, Busy, TypeOK
<1>11. ASSUME NEW m \in Managers, Finish(m) PROVE HoldsLock'
  BY <1>4, <1>11 DEF Finish
<1>12. ASSUME NEW m \in Managers, Crash(m) PROVE HoldsLock'
  <2>1. /\ mgr'[m].pc = "idle" /\ \A n \in Managers \ {m} : mgr'[n] = mgr[n]
        /\ UNCHANGED <<clock, lock>>
    BY <1>12 DEF Crash, Ended, TypeOK
  <2> QED BY <2>1 DEF HoldsLock, Busy
<1>13. CASE UNCHANGED vars
  BY <1>13 DEF vars, HoldsLock, Busy
<1> QED BY <1>1, <1>2, <1>3, <1>7, <1>8, <1>9, <1>10, <1>11, <1>12, <1>13 DEF Next, Run

(* WithoutOverlapping keeps two punctual managers from running at once.    *)
THEOREM Exclusive == Punctual => (Spec => []OneManager)
<1> SUFFICES ASSUME Punctual PROVE Spec => []OneManager
  OBVIOUS
<1>1. Init => HoldsLock
  BY DEF Init, HoldsLock, Busy, Ended
<1>2. TypeOK /\ HoldsLock /\ [Next]_vars => HoldsLock'
  BY HoldsLockInductive
<1>3. HoldsLock => OneManager
  BY DEF HoldsLock, OneManager
<1> QED BY <1>1, <1>2, <1>3, TypeCorrect, PTL DEF Spec

-----------------------------------------------------------------------------
(* The time kept for an item is no later than any running manager, what    *)
(* has been dispatched is no later than the time kept, and nobody has      *)
(* changed the time kept since a manager read or wrote it: the strengthen- *)
(* ing of NoDoubleDispatch.                                                *)
KeptIsPast ==
    \A i \in Items : /\ cache[i] <= clock
                     /\ \A m \in Managers : Busy(m) => cache[i] <= mgr[m].executionTime

Before(i, due) == \A k \in DOMAIN fired[i] : fired[i][k] < due

FiredIsKept ==
    \A i \in Items : \A k \in DOMAIN fired[i] :
        cache[i] # Null /\ fired[i][k] <= previousDue(i, cache[i])

DecidesOnKept ==
    \A m \in Managers :
        /\ mgr[m].pc = "put" => mgr[m].lastDispatched = cache[Item(m)]
        /\ mgr[m].pc = "dispatch" =>
             /\ cache[Item(m)] = mgr[m].executionTime
             /\ Before(Item(m), previousDue(Item(m), mgr[m].executionTime))

OnceInv == KeptIsPast /\ FiredIsKept /\ DecidesOnKept /\ NoDoubleDispatch

(* Steps that leave the cache and the dispatches alone, and in which a     *)
(* manager starts, ends or goes to the next item.                          *)
LEMMA QuietStep ==
    ASSUME TypeOK, OnceInv, UNCHANGED <<cache, fired>>, clock' \in Nat, clock <= clock',
           \A n \in Managers :
              \/ mgr'[n] = mgr[n]
              \/ /\ mgr'[n].pc \notin {"put", "dispatch"}
                 /\ Busy(n)' => (\/ mgr'[n].executionTime = clock
                                 \/ Busy(n) /\ mgr'[n].executionTime = mgr[n].executionTime)
    PROVE  OnceInv'
<1>1. FiredIsKept' /\ NoDoubleDispatch'
  BY DEF OnceInv, FiredIsKept, NoDoubleDispatch, previousDue
<1>2. KeptIsPast'
  <2>1. ASSUME NEW i \in Items PROVE cache[i] <= clock'
    <3>1. cache[i] \in Int /\ clock \in Int
      BY <2>1 DEF TypeOK, Null
    <3> QED BY <2>1, <3>1 DEF OnceInv, KeptIsPast
  <2>2. ASSUME NEW i \in Items, NEW n \in Managers, Busy(n)'
        PROVE  cache[i] <= mgr'[n].executionTime
    BY <2>2 DEF OnceInv, KeptIsPast, Busy
  <2> QED BY <2>1, <2>2 DEF KeptIsPast
<1>3. DecidesOnKept'
  BY DEF OnceInv, DecidesOnKept, Before, Item, previousDue
<1> QED BY <1>1, <1>2, <1>3 DEF OnceInv

(* The one manager that runs writes the time kept for its item. *)
LEMMA PutOnce ==
    ASSUME TypeOK, OneManager, HoldsLock, OnceInv, NEW m \in Managers, Put(m)
    PROVE  OnceInv'
<1> DEFINE i == Item(m)
           t == mgr[m].executionTime
           due == previousDue(i, t)
<1>1. /\ Busy(m) /\ mgr[m].pc = "put" /\ mgr[m].todo # <<>> /\ i \in Items /\ t \in Nat
      /\ t <= clock /\ clock \in Nat
  BY DEF Put, Item, TypeOK, HoldsLock, Busy
<1>2. /\ due \in Nat /\ due <= t
      /\ previousDue(i, due) = due
      /\ \A s \in 0 .. t : previousDue(i, s) <= due
  BY <1>1, PreviousDueFacts
<1>3. /\ cache[i] \in Nat \cup {Null} /\ cache[i] <= t /\ mgr[m].lastDispatched = cache[i]
  BY <1>1 DEF OnceInv, KeptIsPast, DecidesOnKept, TypeOK
<1>4. \A n \in Managers \ {m} : ~Busy(n)
  BY <1>1 DEF OneManager
<1>5. /\ UNCHANGED <<clock, fired>>
      /\ \E kept \in {t, due} : cache' = [cache EXCEPT ![i] = kept]
      /\ \A n \in Managers \ {m} : mgr'[n] = mgr[n]
      /\ mgr'[m].executionTime = t
  <2>1. CASE shouldFire(i, t, mgr[m].lastDispatched)
    BY <1>1, <2>1 DEF Put, TypeOK
  <2>2. CASE ~shouldFire(i, t, mgr[m].lastDispatched)
    <3>1. mgr' = NextItem(m) /\ cache' = [cache EXCEPT ![i] = due] /\ UNCHANGED <<clock, fired>>
      BY <2>2 DEF Put
    <3> QED BY <1>1, <3>1, NextItemTyped
  <2> QED BY <2>1, <2>2
<1>6. PICK kept \in {t, due} : cache' = [cache EXCEPT ![i] = kept]
  BY <1>5
<1>7. /\ cache'[i] = kept /\ kept \in Nat /\ kept <= t /\ previousDue(i, kept) = due
      /\ \A j \in Items \ {i} : cache'[j] = cache[j]
  BY <1>1, <1>2, <1>6 DEF TypeOK
<1>8. \A k \in DOMAIN fired[i] : fired[i][k] <= due
  <2> SUFFICES ASSUME NEW k \in DOMAIN fired[i] PROVE fired[i][k] <= due
    OBVIOUS
  <2>1. cache[i] # Null /\ fired[i][k] <= previousDue(i, cache[i])
    BY <1>1 DEF OnceInv, FiredIsKept
  <2>2. cache[i] \in 0 .. t
    BY <1>1, <1>3, <2>1
  <2>3. previousDue(i, cache[i]) <= due /\ previousDue(i, cache[i]) \in Nat
    BY <1>1, <1>2, <2>2, PreviousDueFacts
  <2>4. fired[i][k] \in Nat
    BY <1>1, SMTT(60) DEF TypeOK
  <2> HIDE DEF due
  <2> QED BY <1>2, <2>1, <2>3, <2>4
<1> HIDE DEF due, t, i
<1>9. KeptIsPast'
  <2> SUFFICES ASSUME NEW j \in Items
               PROVE  /\ cache'[j] <= clock
                      /\ \A n \in Managers : Busy(n)' => cache'[j] <= mgr'[n].executionTime
    BY <1>5 DEF KeptIsPast
  <2>1. cache'[j] <= clock /\ cache'[j] <= t
    <3>1. CASE j = i
      BY <1>1, <1>7, <3>1
    <3>2. CASE j # i
      BY <1>1, <1>7, <3>2 DEF OnceInv, KeptIsPast, t
    <3> QED BY <3>1, <3>2
  <2>2. \A n \in Managers : Busy(n)' => n = m
    BY <1>4, <1>5 DEF Busy
  <2> QED BY <1>5, <2>1, <2>2
<1>10. FiredIsKept'
  <2> SUFFICES ASSUME NEW j \in Items, NEW k \in DOMAIN fired[j]
               PROVE  cache'[j] # Null /\ fired[j][k] <= previousDue(j, cache'[j])
    BY <1>5 DEF FiredIsKept, previousDue
  <2>1. CASE j = i
    BY <1>7, <1>8, <2>1 DEF Null
  <2>2. CASE j # i
    BY <1>7, <2>2 DEF OnceInv, FiredIsKept
  <2> QED BY <2>1, <2>2
(* If the job is to be dispatched then all before it were due earlier. *)
<1>11. ASSUME mgr'[m].pc = "dispatch"
       PROVE  /\ cache'[i] = t
              /\ Item(m)' = i
              /\ \A k \in DOMAIN fired[i] : fired[i][k] < due
  <2>1. shouldFire(i, t, mgr[m].lastDispatched)
    BY <1>1, <1>11, NextItemTyped DEF Put, i, t
  <2>2. cache' = [cache EXCEPT ![i] = t] /\ mgr' = [mgr EXCEPT ![m].pc = "dispatch"]
    BY <2>1 DEF Put, i, t
  <2>3. cache'[i] = t /\ Item(m)' = i
    BY <1>1, <2>2 DEF TypeOK, Item, i
  <2>4. ASSUME NEW k \in DOMAIN fired[i] PROVE fired[i][k] < due
    <3>1. cache[i] # Null /\ fired[i][k] <= previousDue(i, cache[i])
      BY <1>1, <2>4 DEF OnceInv, FiredIsKept
    <3>2. cache[i] \in Nat
      BY <1>3, <3>1
    <3>3. due > cache[i]
      BY <1>3, <2>1, <3>1 DEF shouldFire, due
    <3>4. previousDue(i, cache[i]) \in Nat /\ previousDue(i, cache[i]) <= cache[i]
      BY <1>1, <3>2, PreviousDueFacts
    <3>5. fired[i][k] \in Nat
      BY <1>1, <2>4 DEF TypeOK
    <3> QED BY <1>2, <3>1, <3>2, <3>3, <3>4, <3>5
  <2> QED BY <2>3, <2>4
<1>12. mgr'[m].pc # "put"
  <2>1. CASE shouldFire(i, t, mgr[m].lastDispatched)
    BY <1>1, <2>1 DEF Put, TypeOK, i, t
  <2>2. CASE ~shouldFire(i, t, mgr[m].lastDispatched)
    BY <1>1, <2>2, NextItemTyped DEF Put, i, t
  <2> QED BY <2>1, <2>2
<1>13. DecidesOnKept'
  <2> SUFFICES ASSUME NEW n \in Managers
               PROVE  /\ mgr'[n].pc = "put" => mgr'[n].lastDispatched = cache'[Item(n)']
                      /\ mgr'[n].pc = "dispatch" =>
                           /\ cache'[Item(n)'] = mgr'[n].executionTime
                           /\ \A k \in DOMAIN fired[Item(n)'] :
                                fired[Item(n)'][k] < previousDue(Item(n)', mgr'[n].executionTime)
    BY <1>5 DEF DecidesOnKept, Before, previousDue
  <2>1. CASE n = m
    BY <1>5, <1>11, <1>12, <2>1 DEF due
  <2>2. CASE n # m
    BY <1>4, <1>5, <2>2 DEF Busy
  <2> QED BY <2>1, <2>2
<1>14. NoDoubleDispatch'
  BY <1>5 DEF OnceInv, NoDoubleDispatch
<1> QED BY <1>9, <1>10, <1>13, <1>14 DEF OnceInv

(* The due time appended is later than all that were dispatched before. *)
LEMMA DispatchOnce ==
    ASSUME TypeOK, OneManager, OnceInv, NEW m \in Managers, Dispatch(m)
    PROVE  OnceInv'
<1> DEFINE i == Item(m)
           t == mgr[m].executionTime
           due == previousDue(i, t)
<1>1. /\ Busy(m) /\ mgr[m].pc = "dispatch" /\ mgr[m].todo # <<>> /\ i \in Items /\ t \in Nat
      /\ UNCHANGED <<clock, cache>> /\ mgr' = NextItem(m)
  BY DEF Dispatch, Item, TypeOK, Busy
<1>2. due \in Nat
  BY <1>1, PreviousDueFacts
<1>3. cache[i] = t /\ \A k \in DOMAIN fired[i] : fired[i][k] < due
  BY <1>1 DEF OnceInv, DecidesOnKept, Before
<1>4. \A n \in Managers \ {m} : ~Busy(n)
  BY <1>1 DEF OneManager
<1>5. /\ mgr'[m].pc = "item" /\ mgr'[m].executionTime = t
      /\ \A n \in Managers \ {m} : mgr'[n] = mgr[n]
  BY <1>1, NextItemTyped
<1>6. fired' = fired \/ fired' = [fired EXCEPT ![i] = Append(@, due)]
  BY DEF Dispatch, Ran
<1> HIDE DEF i, t, due
<1>7. KeptIsPast'
  <2>1. \A n \in Managers : Busy(n)' => Busy(n) /\ mgr'[n].executionTime = mgr[n].executionTime
    BY <1>1, <1>5 DEF Busy, t
  <2> QED BY <1>1, <2>1 DEF OnceInv, KeptIsPast
<1>8. DecidesOnKept'
  <2>1. \A n \in Managers : mgr'[n].pc \notin {"put", "dispatch"}
    BY <1>4, <1>5 DEF Busy
  <2> QED BY <2>1 DEF DecidesOnKept
<1>9. FiredIsKept' /\ NoDoubleDispatch'
  <2>1. CASE fired' = fired
    BY <1>1, <2>1 DEF OnceInv, FiredIsKept, NoDoubleDispatch, previousDue
  <2>2. CASE fired' = [fired EXCEPT ![i] = Append(@, due)]
    <3>1. /\ fired'[i] = Append(fired[i], due) /\ fired[i] \in Seq(Nat)
          /\ \A j \in Items \ {i} : fired'[j] = fired[j]
      BY <1>1, <2>2 DEF TypeOK
    <3>2. /\ DOMAIN fired'[i] = 1 .. Len(fired[i]) + 1
          /\ DOMAIN fired[i] = 1 .. Len(fired[i])
          /\ fired'[i][Len(fired[i]) + 1] = due
          /\ \A k \in DOMAIN fired[i] : fired'[i][k] = fired[i][k] /\ fired[i][k] \in Nat
          /\ Len(fired[i]) \in Nat
      BY <1>2, <3>1
    <3>3. \A a, b \in DOMAIN fired'[i] : a < b => fired'[i][a] < fired'[i][b]
      <4> SUFFICES ASSUME NEW a \in DOMAIN fired'[i], NEW b \in DOMAIN fired'[i], a < b
                   PROVE  fired'[i][a] < fired'[i][b]
        OBVIOUS
      <4>1. a \in DOMAIN fired[i]
        BY <3>2
      <4>2. CASE b \in DOMAIN fired[i]
        BY <1>1, <3>2, <4>1, <4>2 DEF OnceInv, NoDoubleDispatch
      <4>3. CASE b = Len(fired[i]) + 1
        BY <1>3, <3>2, <4>1, <4>3
      <4> QED BY <3>2, <4>2, <4>3
    <3>4. \A k \in DOMAIN fired'[i] : fired'[i][k] <= due
      BY <1>2, <1>3, <3>2, SMTT(60)
    <3>5. cache[i] # Null /\ previousDue(i, cache[i]) = due
      BY <1>1, <1>3 DEF due, Null
    <3>6. FiredIsKept'
      <4> SUFFICES ASSUME NEW j \in Items, NEW k \in DOMAIN fired'[j]
                   PROVE  cache[j] # Null /\ fired'[j][k] <= previousDue(j, cache[j])
        BY <1>1 DEF FiredIsKept, previousDue
      <4>1. CASE j = i
        BY <3>4, <3>5, <4>1
      <4>2. CASE j # i
        BY <3>1, <4>2 DEF OnceInv, FiredIsKept
      <4> QED BY <4>1, <4>2
    <3> QED BY <3>1, <3>3, <3>6 DEF OnceInv, NoDoubleDispatch
  <2> QED BY <1>6, <2>1, <2>2
<1> QED BY <1>7, <1>8, <1>9 DEF OnceInv

LEMMA OnceInductive ==
    ASSUME TypeOK, OneManager, HoldsLock, OnceInv, [Next]_vars
    PROVE  OnceInv'
<1>1. CASE Tick
  BY <1>1, QuietStep DEF Tick, TypeOK
<1>2. CASE World
  <2>1. UNCHANGED <<clock, cache, mgr, fired>> /\ clock \in Nat
    BY <1>2 DEF World, TypeOK
  <2> QED BY <2>1, QuietStep
<1>3. ASSUME NEW m \in Managers, Take(m) PROVE OnceInv'
  <2>1. UNCHANGED <<clock, cache, fired>>
    BY <1>3 DEF Take
  <2>2. CASE mgr' = [mgr EXCEPT ![m] = Begun(clock)]
    <3>1. /\ mgr'[m].pc = "item" /\ mgr'[m].executionTime = clock
          /\ \A n \in Managers \ {m} : mgr'[n] = mgr[n]
      BY <2>2 DEF TypeOK, Begun
    <3>2. clock' \in Nat /\ clock <= clock'
      BY <2>1 DEF TypeOK
    <3> QED BY <2>1, <3>1, <3>2, QuietStep
  <2>3. CASE UNCHANGED mgr
    BY <2>1, <2>3, QuietStep DEF TypeOK
  <2> QED BY <1>3, <2>2, <2>3 DEF Take
<1>4. ASSUME NEW m \in Managers, NEW pc \in {"idle", "failed"},
             mgr' = [mgr EXCEPT ![m] = Ended(pc)], UNCHANGED <<clock, cache, fired>>
      PROVE  OnceInv'
  <2>1. mgr'[m].pc = pc /\ \A n \in Managers \ {m} : mgr'[n] = mgr[n]
    BY <1>4, EndedTyped DEF TypeOK
  <2> QED BY <1>4, <2>1, QuietStep DEF TypeOK, Busy
<1>5. ASSUME NEW m \in Managers, Busy(m), mgr[m].todo # <<>>, mgr' = NextItem(m),
             UNCHANGED <<clock, cache, fired>>
      PROVE  OnceInv'
  BY <1>5, NextItemTyped, QuietStep, SMTT(60) DEF TypeOK
<1>6. ASSUME NEW m \in Managers, Evaluate(m) PROVE OnceInv'
  <2>1. Busy(m) /\ mgr[m].todo # <<>> /\ UNCHANGED <<clock, cache, fired>>
    BY <1>6 DEF Evaluate, Busy
  <2>2. CASE mgr' = [mgr EXCEPT ![m].pc = "put", ![m].lastDispatched = cache[Item(m)]]
    <3>1. /\ mgr'[m].pc = "put" /\ mgr'[m].lastDispatched = cache[Item(m)]
          /\ mgr'[m].executionTime = mgr[m].executionTime /\ mgr'[m].todo = mgr[m].todo
          /\ \A n \in Managers \ {m} : mgr'[n] = mgr[n]
      BY <2>2 DEF TypeOK
    <3>2. KeptIsPast'
      BY <2>1, <3>1 DEF OnceInv, KeptIsPast, Busy
    <3>3. DecidesOnKept'
      BY <2>1, <3>1, ZenonT(60) DEF OnceInv, DecidesOnKept, Before, Item, previousDue
    <3>4. FiredIsKept' /\ NoDoubleDispatch'
      BY <2>1 DEF OnceInv, FiredIsKept, NoDoubleDispatch, previousDue
    <3> QED BY <3>2, <3>3, <3>4 DEF OnceInv
  <2>3. CASE mgr' = NextItem(m)
    BY <1>5, <2>1, <2>3
  <2> QED BY <1>6, <2>2, <2>3 DEF Evaluate
<1>7. ASSUME NEW m \in Managers, EvaluateApplication(m) PROVE OnceInv'
  BY <1>4, <1>5, <1>7 DEF EvaluateApplication, Leave, Busy
<1>8. ASSUME NEW m \in Managers, Finish(m) PROVE OnceInv'
  BY <1>4, <1>8 DEF Finish, Leave
<1>9. ASSUME NEW m \in Managers, Crash(m) PROVE OnceInv'
  BY <1>4, <1>9 DEF Crash
<1>10. CASE UNCHANGED vars
  BY <1>10, QuietStep DEF vars, TypeOK
<1> QED
  BY <1>1, <1>2, <1>3, <1>6, <1>7, <1>8, <1>9, <1>10, PutOnce, DispatchOnce DEF Next, Run

LEMMA OnceInitially == Init => OnceInv
<1> SUFFICES ASSUME Init PROVE OnceInv
  OBVIOUS
<1>1. /\ \A m \in Managers : mgr[m].pc = "idle"
      /\ \A i \in Items : cache[i] = Null /\ DOMAIN fired[i] = {} /\ Null <= clock
  BY DEF Init, Ended, Null, Minute
<1> QED BY <1>1 DEF OnceInv, KeptIsPast, FiredIsKept, DecidesOnKept, NoDoubleDispatch, Busy

(* Under punctual managers the one time kept per item is enough: the due   *)
(* times for which an item's job is dispatched only grow, through crashes, *)
(* missed minutes and servers that come and go.                            *)
THEOREM DispatchedOnce == Punctual => (Spec => []NoDoubleDispatch)
<1> SUFFICES ASSUME Punctual PROVE Spec => []NoDoubleDispatch
  OBVIOUS
<1>1. Init => HoldsLock
  BY DEF Init, HoldsLock, Busy, Ended
<1>2. Init => OnceInv
  BY OnceInitially
<1>3. TypeOK /\ HoldsLock /\ [Next]_vars => HoldsLock'
  BY HoldsLockInductive
<1>4. HoldsLock => OneManager
  BY DEF HoldsLock, OneManager
<1>5. TypeOK /\ HoldsLock /\ OneManager /\ OnceInv /\ [Next]_vars => OnceInv'
  BY OnceInductive
<1>6. OnceInv => NoDoubleDispatch
  BY DEF OnceInv
<1> QED BY <1>1, <1>2, <1>3, <1>4, <1>5, <1>6, TypeCorrect, PTL DEF Spec

-----------------------------------------------------------------------------
(* The time kept for an item is a summary of all that has been decided:    *)
(* nothing exactly while nothing is known, else the last of the due times  *)
(* is the one before it.                                                   *)
KeptIsLast ==
    \A i \in Items :
        /\ settled[i] = {} <=> cache[i] = Null
        /\ cache[i] # Null =>
             /\ previousDue(i, cache[i]) \in settled[i]
             /\ \A s \in settled[i] : s <= previousDue(i, cache[i])

(* What Put reads, and how its due time compares with what is settled.     *)
LEMMA PutFacts ==
    ASSUME TypeOK, HoldsLock, OnceInv, KeptIsLast, NEW m \in Managers, Put(m),
           NEW i, i = Item(m), NEW t, t = mgr[m].executionTime,
           NEW due, due = previousDue(i, t)
    PROVE  /\ i \in Items /\ t \in Nat /\ due \in Nat /\ due <= t /\ previousDue(i, due) = due
           /\ mgr[m].lastDispatched = cache[i] /\ cache[i] \in Nat \cup {Null}
           /\ cache[i] # Null =>
                /\ previousDue(i, cache[i]) \in Nat
                /\ previousDue(i, cache[i]) <= cache[i] /\ previousDue(i, cache[i]) <= due
                /\ due <= cache[i] => due = previousDue(i, cache[i])
<1>1. /\ Busy(m) /\ mgr[m].pc = "put" /\ mgr[m].todo # <<>> /\ i \in Items /\ t \in Nat
  BY DEF Put, Item, TypeOK, Busy
<1>2. /\ due \in Nat /\ due <= t /\ previousDue(i, due) = due
      /\ \A s \in 0 .. t : previousDue(i, s) <= due
  BY <1>1, PreviousDueFacts
<1>3. /\ cache[i] \in Nat \cup {Null} /\ cache[i] <= t /\ mgr[m].lastDispatched = cache[i]
  BY <1>1 DEF OnceInv, KeptIsPast, DecidesOnKept, TypeOK
<1>4. ASSUME cache[i] # Null
      PROVE  /\ previousDue(i, cache[i]) \in Nat
             /\ previousDue(i, cache[i]) <= cache[i] /\ previousDue(i, cache[i]) <= due
             /\ due <= cache[i] => due = previousDue(i, cache[i])
  <2>1. cache[i] \in 0 .. t /\ cache[i] \in Nat
    BY <1>1, <1>3, <1>4
  <2>2. /\ previousDue(i, cache[i]) \in Nat /\ previousDue(i, cache[i]) <= cache[i]
        /\ \A s \in 0 .. cache[i] : previousDue(i, s) <= previousDue(i, cache[i])
    BY <1>1, <2>1, PreviousDueFacts
  <2>3. previousDue(i, cache[i]) <= due
    BY <1>2, <2>1
  <2>4. ASSUME due <= cache[i] PROVE due = previousDue(i, cache[i])
    <3>1. previousDue(i, due) <= previousDue(i, cache[i])
      BY <1>2, <2>1, <2>2, <2>4
    <3> QED BY <1>2, <2>2, <2>3, <3>1
  <2> QED BY <2>2, <2>3, <2>4
<1> QED BY <1>1, <1>2, <1>3, <1>4

LEMMA KeptIsLastInductive ==
    ASSUME TypeOK, HoldsLock, OnceInv, KeptIsLast, [Next]_vars
    PROVE  KeptIsLast'
<1>1. CASE UNCHANGED <<cache, settled>>
  BY <1>1 DEF KeptIsLast, previousDue
<1>2. ASSUME NEW m \in Managers, Put(m) PROVE KeptIsLast'
  <2> DEFINE i == Item(m)
             t == mgr[m].executionTime
             due == previousDue(i, t)
  <2>1. /\ i \in Items /\ t \in Nat /\ due \in Nat /\ due <= t /\ previousDue(i, due) = due
        /\ cache[i] # Null =>
             previousDue(i, cache[i]) \in Nat /\ previousDue(i, cache[i]) <= due
    BY <1>2, PutFacts
  <2>2. /\ settled' = [settled EXCEPT ![i] = @ \cup {due}]
        /\ \E kept \in {t, due} : cache' = [cache EXCEPT ![i] = kept]
    BY <1>2 DEF Put
  <2>3. PICK kept \in {t, due} : cache' = [cache EXCEPT ![i] = kept]
    BY <2>2
  <2>4. /\ cache'[i] = kept /\ kept \in Nat /\ settled'[i] = settled[i] \cup {due}
        /\ settled[i] \subseteq Nat
        /\ \A j \in Items \ {i} : cache'[j] = cache[j] /\ settled'[j] = settled[j]
    BY <2>1, <2>2, <2>3 DEF TypeOK
  <2>5. previousDue(i, kept) = due
    BY <2>1, <2>3
  <2> HIDE DEF i, t, due
  <2>6. \A s \in settled'[i] : s <= due
    BY <2>1, <2>4 DEF KeptIsLast
  <2> SUFFICES ASSUME NEW j \in Items
               PROVE  /\ settled'[j] = {} <=> cache'[j] = Null
                      /\ cache'[j] # Null =>
                           /\ previousDue(j, cache'[j]) \in settled'[j]
                           /\ \A s \in settled'[j] : s <= previousDue(j, cache'[j])
    BY DEF KeptIsLast, previousDue
  <2>7. CASE j = i
    BY <2>4, <2>5, <2>6, <2>7 DEF Null
  <2>8. CASE j # i
    BY <2>4, <2>8 DEF KeptIsLast
  <2> QED BY <2>7, <2>8
<1>3. Next => UNCHANGED <<cache, settled>> \/ \E m \in Managers : Put(m)
  BY DEF Next, Run, Tick, World, Take, Evaluate, EvaluateApplication, Leave, Dispatch,
    Finish, Crash
<1> QED BY <1>1, <1>2, <1>3 DEF vars

LEMMA PutDecides ==
    ASSUME TypeOK, HoldsLock, OnceInv, KeptIsLast, NEW m \in Managers, Put(m),
           NEW i, i = Item(m), NEW due, due = previousDue(i, mgr[m].executionTime)
    PROVE  mgr'[m].pc = "dispatch" <=>
             /\ due \notin settled[i]
             /\ settled[i] = {} => isDue(i, mgr[m].executionTime)
<1> DEFINE t == mgr[m].executionTime
           last == mgr[m].lastDispatched
<1>1. /\ i \in Items /\ due \in Nat /\ last = cache[i] /\ last \in Nat \cup {Null}
      /\ last # Null =>
           /\ previousDue(i, last) \in Nat
           /\ previousDue(i, last) <= last
           /\ due <= last => due = previousDue(i, last)
  BY PutFacts
<1>2. /\ settled[i] = {} <=> last = Null
      /\ last # Null =>
           /\ previousDue(i, last) \in settled[i]
           /\ \A s \in settled[i] : s <= previousDue(i, last)
  BY <1>1 DEF KeptIsLast
<1>3. shouldFire(i, t, last) <=> /\ due \notin settled[i]
                                 /\ settled[i] = {} => isDue(i, t)
  <2> HIDE DEF t, last
  <2>1. CASE last = Null
    BY <1>2, <2>1 DEF shouldFire
  <2>2. CASE last # Null
    <3>1. due > last <=> due \notin settled[i]
      BY <1>1, <1>2, <2>2
    <3>2. shouldFire(i, t, last) <=> due > last
      BY <2>2 DEF shouldFire, t
    <3> QED BY <1>2, <2>2, <3>1, <3>2
  <2> QED BY <2>1, <2>2
<1>4. mgr'[m].pc = "dispatch" <=> shouldFire(i, t, last)
  <2>1. mgr[m].pc = "put" /\ mgr[m].todo # <<>> /\ Busy(m)
    BY DEF Put, TypeOK, Busy
  <2>2. CASE shouldFire(i, t, last)
    <3>1. mgr' = [mgr EXCEPT ![m].pc = "dispatch"]
      BY <2>2 DEF Put
    <3> QED BY <2>2, <3>1 DEF TypeOK
  <2>3. CASE ~shouldFire(i, t, last)
    <3>1. mgr' = NextItem(m)
      BY <2>3 DEF Put
    <3> QED BY <2>1, <2>3, <3>1, NextItemTyped
  <2> QED BY <2>2, <2>3
<1> QED BY <1>3, <1>4

(* shouldRunCronNow takes a due time exactly when nobody has decided on it *)
(* (or nothing is known and it is due this minute): under punctual         *)
(* managers the one time it keeps is worth the whole history.              *)
THEOREM PromiseKept == Punctual => (Spec => FiresAsPromised)
<1> SUFFICES ASSUME Punctual PROVE Spec => FiresAsPromised
  OBVIOUS
<1>1. Init => HoldsLock
  BY DEF Init, HoldsLock, Busy, Ended
<1>2. Init => OnceInv
  BY OnceInitially
<1>3. Init => KeptIsLast
  BY DEF Init, KeptIsLast
<1>4. TypeOK /\ HoldsLock /\ [Next]_vars => HoldsLock'
  BY HoldsLockInductive
<1>5. HoldsLock => OneManager
  BY DEF HoldsLock, OneManager
<1>6. TypeOK /\ HoldsLock /\ OneManager /\ OnceInv /\ [Next]_vars => OnceInv'
  BY OnceInductive
<1>7. TypeOK /\ HoldsLock /\ OnceInv /\ KeptIsLast /\ [Next]_vars => KeptIsLast'
  BY KeptIsLastInductive
<1>8. TypeOK /\ HoldsLock /\ OnceInv /\ KeptIsLast
        => \A m \in Managers : Put(m) =>
             LET i == Item(m)
                 due == previousDue(i, mgr[m].executionTime)
             IN  mgr'[m].pc = "dispatch" <=>
                   /\ due \notin settled[i]
                   /\ settled[i] = {} => isDue(i, mgr[m].executionTime)
  BY PutDecides
<1> QED
  BY <1>1, <1>2, <1>3, <1>4, <1>5, <1>6, <1>7, <1>8, TypeCorrect, PTL DEF Spec, FiresAsPromised
-----------------------------------------------------------------------------
(* Steps after which the same managers are about to dispatch the same due  *)
(* times leave what is taken alone.                                        *)
LEMMA TakenStays ==
    ASSUME NEW f, NEW g, NEW i,
           \A n \in Managers : \/ g[n] = f[n]
                               \/ f[n].pc # "dispatch" /\ g[n].pc # "dispatch"
    PROVE  Taken(g, i) = Taken(f, i)
<1>1. Dispatching(g, i) = Dispatching(f, i)
  BY DEF Dispatching
<1>2. \A n \in Dispatching(f, i) : g[n] = f[n]
  BY DEF Dispatching
<1> QED BY <1>1, <1>2 DEF Taken

(* Nobody dispatches, nothing is taken. *)
LEMMA NothingTaken ==
    ASSUME NEW f, \A n \in Managers : f[n].pc # "dispatch"
    PROVE  \A j : Taken(f, j) = {}
BY DEF Taken, Dispatching

(* The due time of the one manager that dispatches is all that is taken. *)
LEMMA OneTaken ==
    ASSUME NEW f, NEW m \in Managers, f[m].pc = "dispatch", NEW i, i = Head(f[m].todo),
           \A n \in Managers \ {m} : f[n].pc # "dispatch"
    PROVE  /\ Taken(f, i) = {previousDue(i, f[m].executionTime)}
           /\ \A j : j # i => Taken(f, j) = {}
<1>1. Dispatching(f, i) = {m}
  BY DEF Dispatching
<1>2. \A j : j # i => Dispatching(f, j) = {}
  BY DEF Dispatching
<1> QED BY <1>1, <1>2 DEF Taken

(* The step of one item, the others unchanged, is a step of the scheduler. *)
LEMMA OneItemMoves ==
    ASSUME TypeOK', NEW i \in Items, Schedule!ItemStep(i),
           \A j \in Items \ {i} : /\ settled'[j] = settled[j] /\ fired'[j] = fired[j]
                                  /\ Taken(mgr', j) = Taken(mgr, j)
    PROVE  Schedule!Next
<1>1. settled' \in [Items -> SUBSET Nat] /\ fired' \in [Items -> Seq(Nat)]
  BY DEF TypeOK
<1> QED BY <1>1 DEF Schedule!Next

(* A manager that keeps the time of an item takes its due time, or lets it *)
(* pass the first time, or has nothing new to decide.                      *)
LEMMA PutMoves ==
    ASSUME TypeOK, TypeOK', OneManager, HoldsLock, OnceInv, KeptIsLast,
           NEW m \in Managers, Put(m)
    PROVE  Schedule!Next \/ UNCHANGED Schedule!vars
<1> DEFINE i == Item(m)
           t == mgr[m].executionTime
           due == previousDue(i, t)
<1>1. /\ i \in Items /\ t \in Nat /\ due \in Nat
      /\ mgr[m].todo # <<>> /\ mgr[m].pc = "put" /\ Busy(m)
      /\ cache[i] # Null => previousDue(i, cache[i]) \in Nat /\ previousDue(i, cache[i]) <= due
  <2>1. mgr[m].pc = "put" /\ mgr[m].todo # <<>> /\ Busy(m)
    BY DEF Put, TypeOK, Busy
  <2>2. /\ i \in Items /\ t \in Nat /\ due \in Nat
        /\ cache[i] # Null => previousDue(i, cache[i]) \in Nat /\ previousDue(i, cache[i]) <= due
    BY PutFacts
  <2> QED BY <2>1, <2>2
<1>2. /\ settled' = [settled EXCEPT ![i] = @ \cup {due}] /\ fired' = fired
      /\ \/ mgr' = [mgr EXCEPT ![m].pc = "dispatch"]
         \/ mgr' = NextItem(m)
  BY DEF Put
<1>3. mgr'[m].pc = "dispatch" <=> /\ due \notin settled[i]
                                  /\ settled[i] = {} => isDue(i, t)
  BY PutDecides
<1>4. /\ settled[i] = {} <=> cache[i] = Null
      /\ cache[i] # Null => \A s \in settled[i] : s <= previousDue(i, cache[i])
      /\ settled[i] \subseteq Nat
  BY <1>1 DEF KeptIsLast, TypeOK
<1>5. /\ settled'[i] = settled[i] \cup {due}
      /\ \A j \in Items \ {i} : settled'[j] = settled[j]
  BY <1>1, <1>2 DEF TypeOK
<1>6. /\ \A n \in Managers \ {m} : mgr'[n] = mgr[n] /\ mgr[n].pc # "dispatch"
      /\ mgr[m].pc # "dispatch"
  <2>1. \A n \in Managers \ {m} : ~Busy(n)
    BY <1>1 DEF OneManager
  <2>2. CASE mgr' = [mgr EXCEPT ![m].pc = "dispatch"]
    BY <1>1, <2>1, <2>2 DEF TypeOK, Busy
  <2>3. CASE mgr' = NextItem(m)
    BY <1>1, <2>1, <2>3, NextItemTyped DEF Busy
  <2> QED BY <1>2, <2>2, <2>3
<1>7. \A j : Taken(mgr, j) = {}
  BY <1>6, NothingTaken
<1> HIDE DEF i, t, due
<1>8. CASE mgr'[m].pc = "dispatch"
  <2>1. /\ mgr' = [mgr EXCEPT ![m].pc = "dispatch"]
    <3>1. mgr' = NextItem(m) => mgr'[m].pc = "item"
      BY <1>1, NextItemTyped
    <3> QED BY <1>2, <1>8, <3>1
  <2>2. mgr'[m].executionTime = t /\ Head(mgr'[m].todo) = i
    BY <2>1 DEF TypeOK, t, i, Item
  <2>3. Taken(mgr', i) = {due} /\ \A j : j # i => Taken(mgr', j) = {}
    BY <1>6, <1>8, <2>2, OneTaken DEF due
  <2>4. \A s \in settled[i] : s < due
    <3> SUFFICES ASSUME NEW s \in settled[i] PROVE s < due
      OBVIOUS
    <3>1. s <= previousDue(i, cache[i]) /\ s \in Nat /\ cache[i] # Null
      BY <1>4
    <3>2. s # due
      BY <1>3, <1>8
    <3> QED BY <1>1, <3>1, <3>2
  <2>5. Schedule!Take(i)
    BY <1>1, <1>2, <1>5, <1>7, <2>3, <2>4 DEF Schedule!Take
  <2> QED BY <1>1, <1>2, <1>5, <1>7, <2>3, <2>5, OneItemMoves DEF Schedule!ItemStep
<1>9. CASE mgr'[m].pc # "dispatch"
  <2>1. \A j : Taken(mgr', j) = {}
    BY <1>6, <1>9, NothingTaken
  <2>2. CASE due \in settled[i]
    <3>1. settled' = settled
      <4>1. settled[i] \cup {due} = settled[i]
        BY <2>2
      <4>2. settled' = [settled EXCEPT ![i] = settled[i] \cup {due}]
        BY <1>2
      <4>3. settled \in [Items -> SUBSET Nat]
        BY DEF TypeOK
      <4> QED BY <4>1, <4>2, <4>3
    <3> QED BY <1>2, <1>7, <2>1, <3>1 DEF Schedule!vars
  <2>3. CASE due \notin settled[i]
    <3>1. settled[i] = {}
      BY <1>3, <1>9, <2>3
    <3>2. Schedule!Pass(i)
      BY <1>1, <1>2, <1>5, <1>7, <2>1, <3>1 DEF Schedule!Pass
    <3> QED BY <1>1, <1>2, <1>5, <1>7, <2>1, <3>2, OneItemMoves DEF Schedule!ItemStep
  <2> QED BY <2>2, <2>3
<1> QED BY <1>8, <1>9

(* The dispatch is one of the due time that is taken, or drops it. *)
LEMMA DispatchMoves ==
    ASSUME TypeOK, TypeOK', OneManager, NEW m \in Managers, Dispatch(m)
    PROVE  Schedule!Next
<1> DEFINE i == Item(m)
           due == previousDue(i, mgr[m].executionTime)
<1>1. /\ i \in Items /\ mgr[m].todo # <<>> /\ mgr[m].pc = "dispatch" /\ Busy(m)
      /\ mgr' = NextItem(m) /\ settled' = settled
      /\ fired' = fired \/ fired' = [fired EXCEPT ![i] = Append(@, due)]
  <2>1. /\ mgr[m].pc = "dispatch" /\ mgr' = NextItem(m) /\ settled' = settled
        /\ fired' = Ran(m)
    BY Zenon DEF Dispatch
  <2>2. mgr[m].todo \in Seq(Items) /\ mgr[m].todo # <<>>
    BY <2>1 DEF TypeOK
  <2>3. i \in Items
    BY <2>2 DEF Item
  <2> QED BY <2>1, <2>2, <2>3 DEF Busy, Ran
<1>2. \A n \in Managers \ {m} : mgr[n].pc # "dispatch"
  BY <1>1 DEF OneManager, Busy
<1>3. \A n \in Managers : mgr'[n].pc # "dispatch"
  BY <1>1, <1>2, NextItemTyped
<1>4. Taken(mgr, i) = {due} /\ \A j : j # i => Taken(mgr, j) = {}
  BY <1>1, <1>2, OneTaken DEF Item
<1>5. \A j : Taken(mgr', j) = {}
  BY <1>3, NothingTaken
<1> HIDE DEF i, due
<1>6. CASE fired' = fired
  <2>1. Schedule!Drop(i)
    BY <1>1, <1>4, <1>5, <1>6 DEF Schedule!Drop
  <2> QED BY <1>1, <1>4, <1>5, <1>6, <2>1, OneItemMoves DEF Schedule!ItemStep
<1>7. CASE fired' = [fired EXCEPT ![i] = Append(@, due)]
  <2>1. /\ fired'[i] = Append(fired[i], due)
        /\ \A j \in Items \ {i} : fired'[j] = fired[j]
    BY <1>1, <1>7 DEF TypeOK
  <2>2. Schedule!Fire(i)
    BY <1>1, <1>4, <1>5, <2>1 DEF Schedule!Fire
  <2> QED BY <1>1, <1>4, <1>5, <2>1, <2>2, OneItemMoves DEF Schedule!ItemStep
<1> QED BY <1>1, <1>6, <1>7

(* A manager that dies drops what it has taken. *)
LEMMA CrashMoves ==
    ASSUME TypeOK, TypeOK', OneManager, NEW m \in Managers, Crash(m)
    PROVE  Schedule!Next \/ UNCHANGED Schedule!vars
<1>1. /\ Busy(m) /\ settled' = settled /\ fired' = fired
      /\ mgr'[m].pc = "idle" /\ \A n \in Managers \ {m} : mgr'[n] = mgr[n]
  BY EndedTyped DEF Crash, TypeOK
<1>2. \A n \in Managers \ {m} : mgr[n].pc # "dispatch"
  BY <1>1 DEF OneManager, Busy
<1>3. \A j : Taken(mgr', j) = {}
  BY <1>1, <1>2, NothingTaken
<1>4. CASE mgr[m].pc = "dispatch"
  <2> DEFINE i == Item(m)
  <2>1. i \in Items
    BY <1>4 DEF Item, TypeOK
  <2>2. Taken(mgr, i) # {} /\ \A j : j # i => Taken(mgr, j) = {}
    BY <1>2, <1>4, OneTaken DEF Item
  <2> HIDE DEF i
  <2>3. Schedule!Drop(i)
    BY <1>1, <1>3, <2>1, <2>2 DEF Schedule!Drop
  <2> QED BY <1>1, <1>3, <2>1, <2>2, <2>3, OneItemMoves DEF Schedule!ItemStep
<1>5. CASE mgr[m].pc # "dispatch"
  <2>1. \A j : Taken(mgr, j) = {}
    BY <1>2, <1>5, NothingTaken
  <2> QED BY <1>1, <1>3, <2>1 DEF Schedule!vars
<1> QED BY <1>4, <1>5

LEMMA EveryStepMoves ==
    ASSUME TypeOK, TypeOK', OneManager, HoldsLock, OnceInv, KeptIsLast, [Next]_vars
    PROVE  [Schedule!Next]_Schedule!vars
<1>1. ASSUME UNCHANGED <<fired, settled>>,
             \A n \in Managers : \/ mgr'[n] = mgr[n]
                                 \/ mgr[n].pc # "dispatch" /\ mgr'[n].pc # "dispatch"
      PROVE  UNCHANGED Schedule!vars
  <2>1. \A i : Taken(mgr', i) = Taken(mgr, i)
    BY <1>1, TakenStays
  <2> QED BY <1>1, <2>1 DEF Schedule!vars
<1>2. ASSUME Tick \/ World \/ UNCHANGED vars PROVE UNCHANGED Schedule!vars
  BY <1>1, <1>2 DEF Tick, World, vars
<1>3. ASSUME NEW m \in Managers, Take(m) PROVE UNCHANGED Schedule!vars
  BY <1>1, <1>3 DEF Take, Busy, Begun, TypeOK
<1>4. ASSUME NEW m \in Managers, mgr[m].pc = "item", mgr[m].todo # <<>>, mgr' = NextItem(m),
             UNCHANGED <<fired, settled>>
      PROVE  UNCHANGED Schedule!vars
  BY <1>1, <1>4, NextItemTyped
<1>5. ASSUME NEW m \in Managers, NEW pc \in {"idle", "failed"}, mgr[m].pc = "item", Leave(m, pc)
      PROVE  UNCHANGED Schedule!vars
  BY <1>1, <1>5, EndedTyped DEF Leave, TypeOK
<1>6. ASSUME NEW m \in Managers, Evaluate(m) PROVE UNCHANGED Schedule!vars
  <2>1. CASE mgr' = [mgr EXCEPT ![m].pc = "put", ![m].lastDispatched = cache[Item(m)]]
    BY <1>1, <1>6, <2>1 DEF Evaluate, TypeOK
  <2>2. CASE mgr' = NextItem(m)
    BY <1>4, <1>6, <2>2 DEF Evaluate
  <2> QED BY <1>6, <2>1, <2>2 DEF Evaluate
<1>7. ASSUME NEW m \in Managers, EvaluateApplication(m) PROVE UNCHANGED Schedule!vars
  BY <1>4, <1>5, <1>7 DEF EvaluateApplication
<1>8. ASSUME NEW m \in Managers, Finish(m) PROVE UNCHANGED Schedule!vars
  BY <1>5, <1>8 DEF Finish
<1> QED
  BY <1>2, <1>3, <1>6, <1>7, <1>8, PutMoves, DispatchMoves, CrashMoves DEF Next, Run

(* While they are punctual, the managers and their cache are the scheduler *)
(* of CronSchedule, for any items, periods and number of managers: its     *)
(* perfect memory is the one time per item that Cache::put keeps, and what *)
(* it takes and dispatches are shouldRunCronNow and the line that follows. *)
THEOREM ManagersImplementSchedule == Punctual => (Spec => ImplementsSchedule)
<1> SUFFICES ASSUME Punctual PROVE Spec => ImplementsSchedule
  OBVIOUS
<1>1. Init => HoldsLock
  BY DEF Init, HoldsLock, Busy, Ended
<1>2. Init => OnceInv
  BY OnceInitially
<1>3. Init => KeptIsLast
  BY DEF Init, KeptIsLast
<1>4. Init => Schedule!Init
  <2> SUFFICES ASSUME Init PROVE Schedule!Init
    OBVIOUS
  <2>1. \A n \in Managers : mgr[n].pc # "dispatch"
    BY DEF Init, Ended
  <2>2. \A j : Taken(mgr, j) = {}
    BY <2>1, NothingTaken
  <2> QED BY <2>2 DEF Init, Schedule!Init
<1>5. TypeOK /\ HoldsLock /\ [Next]_vars => HoldsLock'
  BY HoldsLockInductive
<1>6. HoldsLock => OneManager
  BY DEF HoldsLock, OneManager
<1>7. TypeOK /\ HoldsLock /\ OneManager /\ OnceInv /\ [Next]_vars => OnceInv'
  BY OnceInductive
<1>8. TypeOK /\ HoldsLock /\ OnceInv /\ KeptIsLast /\ [Next]_vars => KeptIsLast'
  BY KeptIsLastInductive
<1>9. TypeOK /\ TypeOK' /\ OneManager /\ HoldsLock /\ OnceInv /\ KeptIsLast /\ [Next]_vars
        => [Schedule!Next]_Schedule!vars
  BY EveryStepMoves
<1> QED
  BY <1>1, <1>2, <1>3, <1>4, <1>5, <1>6, <1>7, <1>8, <1>9, TypeCorrect, PTL
     DEF Spec, ImplementsSchedule, Schedule!Spec
=============================================================================
