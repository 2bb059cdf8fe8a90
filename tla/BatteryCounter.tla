---------------------------- MODULE BatteryCounter ----------------------------
(***************************************************************************)
(* T02_Threads of the battery (and "combined" of probe p4): threads that   *)
(* increment one volatile counter, once under a lock and once with an      *)
(* interlocked operation that does not take the lock.                      *)
(***************************************************************************)
EXTENDS Integers, FiniteSets

CONSTANTS Threads,   \* 4 in the battery
          Rounds,    \* 250 in the battery
          Nobody     \* owner of a free lock

VARIABLES tcounter,
          lk,        \* the thread in the lock statement
          pc,        \* "lock", "load", "store", "unlock", "interlocked", "done"
          loaded,    \* the value tcounter++ has read
          j          \* rounds completed

vars == <<tcounter, lk, pc, loaded, j>>

Init == /\ tcounter = 0
        /\ lk = Nobody
        /\ pc = [t \in Threads |-> "lock"]
        /\ loaded = [t \in Threads |-> 0]
        /\ j = [t \in Threads |-> 0]

At(t, l, next) == pc[t] = l /\ pc' = [pc EXCEPT ![t] = next]

Lock(t) == /\ At(t, "lock", "load")
           /\ lk = Nobody /\ lk' = t
           /\ UNCHANGED <<tcounter, loaded, j>>

\* tcounter++ on a volatile field is a load and a store.
Load(t) == /\ At(t, "load", "store")
           /\ loaded' = [loaded EXCEPT ![t] = tcounter]
           /\ UNCHANGED <<tcounter, lk, j>>

Store(t) == /\ At(t, "store", "unlock")
            /\ tcounter' = loaded[t] + 1
            /\ UNCHANGED <<lk, loaded, j>>

Unlock(t) == /\ At(t, "unlock", "interlocked")
             /\ lk' = Nobody
             /\ UNCHANGED <<tcounter, loaded, j>>

\* Interlocked.Increment, atomic but outside the lock.
Increment(t) == /\ At(t, "interlocked", IF j[t] + 1 = Rounds THEN "done" ELSE "lock")
                /\ tcounter' = tcounter + 1
                /\ j' = [j EXCEPT ![t] = @ + 1]
                /\ UNCHANGED <<lk, loaded>>

Next == \E t \in Threads : Lock(t) \/ Load(t) \/ Store(t) \/ Unlock(t) \/ Increment(t)

Spec == Init /\ [][Next]_vars

\* As asserted (battery.cs:82): once every thread is joined, no increment is lost.
NoLostIncrement ==
  (\A t \in Threads : pc[t] = "done") => tcounter = 2 * Rounds * Cardinality(Threads)
=============================================================================
