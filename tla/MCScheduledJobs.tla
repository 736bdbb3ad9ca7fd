--------------------------- MODULE MCScheduledJobs ---------------------------
(***************************************************************************)
(* ScheduledJobs for TLC: items of three kinds, in the order of handle().  *)
(***************************************************************************)
EXTENDS ScheduledJobs

CONSTANTS m1, m2

ThreeItems == <<"backup", "application", "task">>

(* The items are named after their kinds.  The task is due every minute,   *)
(* the others every second minute.                                         *)
KindOf == [i \in Items |-> i]
PeriodOf == [i \in Items |-> IF i = "task" THEN 2 ELSE 4]
=============================================================================
