------------------------------- MODULE WorkLease -------------------------------
(***************************************************************************)
(* What the LockedBy column of the Translation and Import tables promises  *)
(* the supervisors that share a database: a lease on a unit of work.  It   *)
(* is granted to one worker at a time, a worker has at most one lease (a   *)
(* supervisor takes its work in series), and only its holder gives it up.  *)
(* A worker may also disappear with the lease (the process is killed);     *)
(* then the lease is never granted again: no code expires a lock.          *)
(***************************************************************************)
CONSTANTS Items,    \* units of work: translations or imports
          Workers   \* supervisor processes

VARIABLES holders,  \* holders[i]: the workers that work under the lease of i
          lost      \* items whose lease was never given back

vars == <<holders, lost>>

TypeOK == /\ holders \in [Items -> SUBSET Workers]
          /\ lost \subseteq Items

Init == /\ holders = [i \in Items |-> {}]
        /\ lost = {}

Acquire(w, i) ==
    /\ holders[i] = {}
    /\ i \notin lost
    /\ \A j \in Items : w \notin holders[j]
    /\ holders' = [holders EXCEPT ![i] = {w}]
    /\ UNCHANGED lost

Release(w, i) ==
    /\ w \in holders[i]
    /\ holders' = [holders EXCEPT ![i] = @ \ {w}]
    /\ UNCHANGED lost

\* The holder stops working and the item stays locked.
Abandon(w, i) ==
    /\ w \in holders[i]
    /\ holders' = [holders EXCEPT ![i] = @ \ {w}]
    /\ lost' = lost \cup {i}

\* A grant whose answer never reached the worker.
Misgrant(i) ==
    /\ holders[i] = {}
    /\ i \notin lost
    /\ lost' = lost \cup {i}
    /\ UNCHANGED holders

Next == \/ \E w \in Workers, i \in Items :
             Acquire(w, i) \/ Release(w, i) \/ Abandon(w, i)
        \/ \E i \in Items : Misgrant(i)

Spec == Init /\ [][Next]_vars
================================================================================
