---------------------------- MODULE ScheduledJobs ----------------------------
(***************************************************************************)
(* ScheduledJobManager: every minute the scheduler queues one, and a       *)
(* Horizon worker that gets past the WithoutOverlapping lock walks over    *)
(* the scheduled items and dispatches the jobs that are due.  What has     *)
(* been dispatched is remembered per item in the cache, which is read and  *)
(* written without a lock of its own.                                      *)
(*                                                                         *)
(* Time is counted in half minutes: cron sees whole minutes, and the lock  *)
(* expires after three halves of one.                                      *)
(***************************************************************************)
EXTENDS Integers, Sequences

CONSTANTS
    Order,       \* the items in the order in which handle walks over them
    Kind,        \* [item -> "backup" | "application" | "task" | "cleanup"]
    Period,      \* [item -> half minutes between two due times]
    Managers,    \* the workers that may run a ScheduledJobManager
    NoOne,       \* owner of a free lock
    Punctual,    \* TRUE: a manager ends before its lock expires
    MaxTime,     \* bound on the clock
    MaxFaults    \* bound on crashes and on changes of what runs where

Items == {Order[i] : i \in DOMAIN Order}
Kinds == {"backup", "application", "task", "cleanup"}
Minute == 2
LockTTL == 3        \* expireAfter(90)
Never == -1         \* redis: no time to live
Null == -1          \* nothing in the cache

ASSUME ScheduledAssumption ==
    /\ Order \in Seq(Items)
    /\ Kind \in [Items -> Kinds]
    /\ Period \in [Items -> Nat \ {0}]
    /\ \A i \in Items : Period[i] % Minute = 0
    /\ NoOne \notin Managers
    /\ Punctual \in BOOLEAN
    /\ MaxTime \in Nat /\ MaxFaults \in Nat

VARIABLES
    clock,
    queued,      \* ScheduledJobManager jobs waiting for a worker
    lock,        \* the overlap lock
    cache,       \* [Items -> time under the item's dedup key, or Null]
    mgr,         \* [Managers -> a run of handle()]
    functional,  \* [Items -> its server is functional and paid for]
    running,     \* [Items -> the resource of a task is running]
    faults,      \* faults used
    fired,       \* history: [Items -> due times whose job was dispatched, in order]
    settled      \* history: [Items -> due times an evaluation has decided on]

vars == <<clock, queued, lock, cache, mgr, functional, running, faults, fired, settled>>
world == <<functional, running, faults>>

(* Not running: never started, ended, or "failed" with an Error. *)
Ended(pc) == [pc |-> pc, executionTime |-> 0, todo |-> <<>>, lastDispatched |-> Null]
Begun(t) == [pc |-> "item", executionTime |-> t, todo |-> Order, lastDispatched |-> Null]
Busy(m) == mgr[m].pc \in {"item", "put", "dispatch"}
Item(m) == Head(mgr[m].todo)

TypeOK ==
    /\ clock \in Nat /\ queued \in Nat /\ faults \in 0 .. MaxFaults
    /\ lock \in [owner : Managers \cup {NoOne}, expires : Nat \cup {Never}]
    /\ cache \in [Items -> Nat \cup {Null}]
    /\ mgr \in [Managers -> [pc : {"idle", "failed", "item", "put", "dispatch"},
                             executionTime : Nat, todo : Seq(Items),
                             lastDispatched : Nat \cup {Null}]]
    /\ \A m \in Managers : mgr[m].pc \in {"put", "dispatch"} => mgr[m].todo # <<>>
    /\ functional \in [Items -> BOOLEAN] /\ running \in [Items -> BOOLEAN]
    /\ fired \in [Items -> Seq(Nat)] /\ settled \in [Items -> SUBSET Nat]

(* At boot the lock may still be there without a time to live, from an     *)
(* earlier version or a restart of redis.                                  *)
Init ==
    /\ clock \in 0 .. Minute
    /\ queued = 0 /\ faults = 0
    /\ lock \in {[owner |-> NoOne, expires |-> 0], [owner |-> NoOne, expires |-> Never]}
    /\ cache = [i \in Items |-> Null]
    /\ mgr = [m \in Managers |-> Ended("idle")]
    /\ functional \in [Items -> BOOLEAN]
    /\ running = [i \in Items |-> TRUE]
    /\ fired = [i \in Items |-> <<>>]
    /\ settled = [i \in Items |-> {}]

-----------------------------------------------------------------------------
(* Kernel::schedule, everyMinute()->onOneServer() *)
Tick ==
    /\ clock < MaxTime
    /\ Punctual => \A m \in Managers : Busy(m) => clock + 1 < mgr[m].executionTime + LockTTL
    /\ clock' = clock + 1
    /\ queued' = IF clock' % Minute = 0 THEN queued + 1 ELSE queued
    /\ UNCHANGED <<lock, cache, mgr, world, fired, settled>>

(* clearStaleLockIfPresent *)
ClearedMutant(l) == l   \* mutant: never cleared
Cleared(l) == IF l.expires = Never THEN [owner |-> NoOne, expires |-> 0] ELSE l

FreeMutant(l) == TRUE   \* mutant: no WithoutOverlapping
Free(l) == l.expires # Never /\ (l.owner = NoOne \/ l.expires <= clock)

(* A worker takes a job: the middleware, and the start of handle().  A job *)
(* that does not get the lock is dropped.                                  *)
Take(m) ==
    /\ ~Busy(m)
    /\ queued > 0
    /\ queued' = queued - 1
    /\ IF Free(Cleared(lock))
       THEN /\ lock' = [owner |-> m, expires |-> clock + LockTTL]
            /\ mgr' = [mgr EXCEPT ![m] = Begun(clock)]
       ELSE lock' = Cleared(lock) /\ UNCHANGED mgr
    /\ UNCHANGED <<clock, cache, world, fired, settled>>

(* The end of handle(), by return or by an Error: the lock is released if  *)
(* it is still this manager's.                                             *)
Leave(m, pc) ==
    /\ mgr' = [mgr EXCEPT ![m] = Ended(pc)]
    /\ lock' = IF lock.owner = m THEN [owner |-> NoOne, expires |-> 0] ELSE lock
    /\ UNCHANGED <<clock, queued, cache, world, fired, settled>>

NextItem(m) == [mgr EXCEPT ![m].pc = "item", ![m].todo = Tail(@)]

(* The skip reasons that do not depend on the schedule, then Cache::get.   *)
Evaluate(m) ==
    /\ mgr[m].pc = "item" /\ mgr[m].todo # <<>> /\ Kind[Item(m)] # "application"
    /\ mgr' = IF functional[Item(m)]
              THEN [mgr EXCEPT ![m].pc = "put", ![m].lastDispatched = cache[Item(m)]]
              ELSE NextItem(m)
    /\ UNCHANGED <<clock, queued, lock, cache, world, fired, settled>>

(* processScheduledApplicationBackups calls a method that does not exist:  *)
(* an Error, which catch (\Exception) lets through.                        *)
EvaluateApplication(m) ==
    /\ mgr[m].pc = "item" /\ mgr[m].todo # <<>> /\ Kind[Item(m)] = "application"
    /\ \/ functional[Item(m)] /\ Leave(m, "failed")
       \/ /\ ~functional[Item(m)]
          /\ mgr' = NextItem(m)
          /\ UNCHANGED <<clock, queued, lock, cache, world, fired, settled>>

(* shouldRunCronNow.  previousDue is getPreviousRunDate with               *)
(* allowCurrentDate, isDue compares whole minutes.                         *)
previousDue(i, t) == t - (t % Period[i])
isDue(i, t) == previousDue(i, t) = t - (t % Minute)

shouldFireMutant(i, t, last) == isDue(i, t) /\ last # t   \* mutant: no catching up
shouldFireMutant2(i, t, last) ==                          \* mutant: >= instead of >
    IF last = Null THEN isDue(i, t) ELSE previousDue(i, t) >= last
shouldFire(i, t, last) ==
    IF last = Null THEN isDue(i, t) ELSE previousDue(i, t) > last

(* Cache::put, on the value read before. *)
Put(m) ==
    /\ mgr[m].pc = "put"
    /\ LET i == Item(m)
           t == mgr[m].executionTime
           due == previousDue(i, t)
       IN  /\ settled' = [settled EXCEPT ![i] = @ \cup {due}]
           /\ \/ /\ shouldFire(i, t, mgr[m].lastDispatched)
                 /\ cache' = [cache EXCEPT ![i] = t]
                 /\ mgr' = [mgr EXCEPT ![m].pc = "dispatch"]
              \/ /\ ~shouldFire(i, t, mgr[m].lastDispatched)
                 /\ cache' = [cache EXCEPT ![i] = due]
                 /\ mgr' = NextItem(m)
    /\ UNCHANGED <<clock, queued, lock, world, fired>>

(* The runtime check of a task, and the dispatch. *)
Ran(m) ==
    IF Kind[Item(m)] = "task" /\ ~running[Item(m)] THEN fired
    ELSE [fired EXCEPT ![Item(m)] = Append(@, previousDue(Item(m), mgr[m].executionTime))]

DispatchMutant(m) ==   \* mutant: the next item is dispatched without a test
    /\ mgr[m].pc = "dispatch"
    /\ fired' = Ran(m)
    /\ mgr' = [mgr EXCEPT ![m].todo = Tail(@)]
    /\ UNCHANGED <<clock, queued, lock, cache, world, settled>>

Dispatch(m) ==
    /\ mgr[m].pc = "dispatch"
    /\ fired' = Ran(m)
    /\ mgr' = NextItem(m)
    /\ UNCHANGED <<clock, queued, lock, cache, world, settled>>

Finish(m) ==
    /\ mgr[m].pc = "item" /\ mgr[m].todo = <<>>
    /\ Leave(m, "idle")

-----------------------------------------------------------------------------
(* A worker is killed: the lock stays until it expires. *)
Crash(m) ==
    /\ Busy(m)
    /\ faults < MaxFaults /\ faults' = faults + 1
    /\ mgr' = [mgr EXCEPT ![m] = Ended("idle")]
    /\ UNCHANGED <<clock, queued, lock, cache, functional, running, fired, settled>>

(* The server of an item, or the resource of a task, goes away or comes    *)
(* back.                                                                   *)
World ==
    /\ faults < MaxFaults /\ faults' = faults + 1
    /\ \E i \in Items :
         \/ functional' = [functional EXCEPT ![i] = ~@] /\ UNCHANGED running
         \/ /\ Kind[i] = "task"
            /\ running' = [running EXCEPT ![i] = ~@] /\ UNCHANGED functional
    /\ UNCHANGED <<clock, queued, lock, cache, mgr, fired, settled>>

Run(m) == \/ Take(m) \/ Evaluate(m) \/ EvaluateApplication(m)
          \/ Put(m) \/ Dispatch(m) \/ Finish(m)

Next == \/ Tick \/ World
        \/ \E m \in Managers : Run(m) \/ Crash(m)

Spec == Init /\ [][Next]_vars

(* The scheduler keeps ticking, and a worker takes a job and goes on. *)
FairSpec == Spec /\ WF_vars(Tick) /\ \A m \in Managers : WF_vars(Run(m))

-----------------------------------------------------------------------------
(* WithoutOverlapping: while managers are punctual, one runs at a time,    *)
(* also after one of them was killed.                                      *)
OneManager == \A m, n \in Managers : Busy(m) /\ Busy(n) => m = n

(* The jobs of an item are dispatched for later and later due times, and   *)
(* so never twice for one (shouldRunCronNow, "with deduplication").        *)
NoDoubleDispatch ==
    \A i \in Items : \A a, b \in DOMAIN fired[i] : a < b => fired[i][a] < fired[i][b]

(* shouldRunCronNow keeps one time per item.  It decides as if it had the  *)
(* whole history: a due time nobody has decided on is taken, however late, *)
(* unless nothing is known of the item and it is not due this minute.      *)
FiresAsPromised ==
    [][\A m \in Managers : Put(m) =>
         LET i == Item(m)
             due == previousDue(i, mgr[m].executionTime)
         IN  mgr'[m].pc = "dispatch" <=>
               /\ due \notin settled[i]
               /\ settled[i] = {} => isDue(i, mgr[m].executionTime)]_vars

(* The managers, each with its own memory, the cache they share and the    *)
(* lock between them, implement the scheduler of CronSchedule: what is     *)
(* taken there is what a manager here has kept and not yet dispatched.     *)
(* About: Cache::get, Cache::put and the dispatch, three steps apart.      *)
Dispatching(runs, i) == {m \in Managers : runs[m].pc = "dispatch" /\ Head(runs[m].todo) = i}
Taken(runs, i) == {previousDue(i, runs[m].executionTime) : m \in Dispatching(runs, i)}
Schedule == INSTANCE CronSchedule WITH taken <- [i \in Items |-> Taken(mgr, i)]
ImplementsSchedule == Schedule!Spec

(* No stage of handle() stops the stages after it. *)
HandleSurvives == \A m \in Managers : mgr[m].pc # "failed"

(* A lock without a time to live does not stop the managers for ever. *)
StaleLockCleared == lock.expires = Never ~> lock.expires # Never
=============================================================================
