----------------------------- MODULE CronSchedule -----------------------------
(***************************************************************************)
(* What the scheduler promises of the due times of its items, whoever runs *)
(* it and whenever: an abstract specification, which ScheduledJobs         *)
(* implements while its managers are punctual.                             *)
(*                                                                         *)
(* The scheduler here has a perfect memory, and nobody to share it with:   *)
(*                                                                         *)
(*   - a due time is decided once, and never after a later one of its item;*)
(*   - only the first decision on an item may be to let it pass;           *)
(*   - whatever else is decided on is taken, one due time at a time;       *)
(*   - a job is dispatched for a due time that was taken, and once;        *)
(*   - a due time that was taken may be dropped: the resource is down, or  *)
(*     the process that took it was killed.                                *)
(***************************************************************************)
EXTENDS Naturals, Sequences

CONSTANT Items

VARIABLES
    settled,   \* [Items -> SUBSET Nat]: the due times decided on
    taken,     \* [Items -> SUBSET Nat]: those to be dispatched now
    fired      \* [Items -> Seq(Nat)]: those whose job was dispatched, in order

vars == <<settled, taken, fired>>

Init ==
    /\ settled = [i \in Items |-> {}]
    /\ taken = [i \in Items |-> {}]
    /\ fired = [i \in Items |-> <<>>]

(* A due time after all the others: the only one of the scheduler. *)
Take(i) ==
    /\ \A j \in Items : taken[j] = {}
    /\ \E due \in taken'[i] :
        /\ \A s \in settled[i] : s < due
        /\ settled'[i] = settled[i] \cup {due} /\ taken'[i] = {due}
    /\ fired'[i] = fired[i]

(* The first time the scheduler sees an item it is not due. *)
Pass(i) ==
    /\ settled[i] = {}
    /\ \E due \in settled'[i] : settled'[i] = {due}
    /\ taken'[i] = taken[i] /\ fired'[i] = fired[i]

Fire(i) ==
    \E due \in taken[i] :
        /\ fired'[i] = Append(fired[i], due)
        /\ taken'[i] = taken[i] \ {due} /\ settled'[i] = settled[i]

Drop(i) ==
    /\ taken[i] # {} /\ taken'[i] = {}
    /\ settled'[i] = settled[i] /\ fired'[i] = fired[i]

ItemStep(i) == Take(i) \/ Pass(i) \/ Fire(i) \/ Drop(i)

Next ==
    /\ settled' \in [Items -> SUBSET Nat] /\ fired' \in [Items -> Seq(Nat)]
    /\ DOMAIN taken' = Items
    /\ \E i \in Items :
        /\ ItemStep(i)
        /\ \A j \in Items \ {i} : /\ settled'[j] = settled[j]
                                  /\ taken'[j] = taken[j] /\ fired'[j] = fired[j]

Spec == Init /\ [][Next]_vars
=============================================================================
