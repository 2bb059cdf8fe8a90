----------------------------- MODULE CondWaitProofs ----------------------------
(* Proofs about CondWait, for every number of consumers and producers.        *)
EXTENDS CondWait, FiniteSetTheorems, TLAPS

Everybody == Consumers \cup Producers

\* Where the threads are, as a function.
PlacesOK == pc \in [Everybody -> ConsumerPCs \cup ProducerPCs]

Added  == {p \in Producers : pc[p] \in {"signal", "unlock", "done"}}
Served == {c \in Consumers : pc[c] = "done"}

\* The items are those added and not yet taken.
Counted == items = Cardinality(Added) - Cardinality(Served)

IInv == TypeOK /\ PlacesOK /\ NoneStranded /\ Counted

-----------------------------------------------------------------------------
(* The sets that are counted. *)

\* All of them are finite.
LEMMA Finite ==
  /\ IsFiniteSet(OnTheWay) /\ Cardinality(OnTheWay) \in Nat
  /\ IsFiniteSet(Added) /\ Cardinality(Added) \in Nat
  /\ IsFiniteSet(Served) /\ Cardinality(Served) \in Nat
<1>1. IsFiniteSet(Consumers) /\ IsFiniteSet(Producers)
  BY CondWaitAssumption
<1>2. IsFiniteSet(Consumers \cup Producers)
  BY <1>1, FS_Union
<1>3. /\ OnTheWay \in SUBSET (Consumers \cup Producers)
      /\ Added \in SUBSET Producers /\ Served \in SUBSET Consumers
  BY DEF OnTheWay, Added, Served
<1> QED
  BY <1>1, <1>2, <1>3, FS_Subset, FS_CardinalityType

\* The same in the next state.
LEMMA FiniteNext ==
  /\ IsFiniteSet(OnTheWay') /\ Cardinality(OnTheWay') \in Nat
  /\ IsFiniteSet(Added') /\ Cardinality(Added') \in Nat
  /\ IsFiniteSet(Served') /\ Cardinality(Served') \in Nat
<1>1. IsFiniteSet(Consumers) /\ IsFiniteSet(Producers)
  BY CondWaitAssumption
<1>2. IsFiniteSet(Consumers \cup Producers)
  BY <1>1, FS_Union
<1>3. /\ OnTheWay' \in SUBSET (Consumers \cup Producers)
      /\ Added' \in SUBSET Producers /\ Served' \in SUBSET Consumers
  BY DEF OnTheWay, Added, Served
<1> QED
  BY <1>1, <1>2, <1>3, FS_Subset, FS_CardinalityType

-----------------------------------------------------------------------------
(* Each step keeps the invariant. *)

\* Nobody waits, and there is nothing yet.
LEMMA InitIInv == Init => IInv
<1> SUFFICES ASSUME Init PROVE IInv
  OBVIOUS
<1> USE CondWaitAssumption
<1>1. TypeOK /\ PlacesOK
  BY DEF Init, TypeOK, PlacesOK, Everybody, ConsumerPCs, ProducerPCs, Consumers
<1>2. NoneStranded
  BY DEF Init, NoneStranded, Waiting, Consumers
<1>3. Added = {} /\ Served = {}
  BY DEF Init, Added, Served, Consumers
<1>4. Counted
  BY <1>3, FS_EmptySet DEF Init, Counted
<1> QED
  BY <1>1, <1>2, <1>4 DEF IInv

\* A step of one consumer between two places with the same say in the counts.
LEMMA SameCounts ==
  ASSUME IInv, NEW t \in Everybody, NEW l, pc' = [pc EXCEPT ![t] = l],
         items' = items, missed' = missed,
         t \in Consumers => /\ (Waiting(t))' <=> Waiting(t)
                            /\ pc[t] # "done" /\ l # "done",
         t \in Producers => /\ pc[t] = "signal" <=> l = "signal"
                            /\ pc[t] \in {"signal", "unlock", "done"} <=> l \in {"signal", "unlock", "done"}
  PROVE  NoneStranded' /\ Counted'
<1> USE DEF IInv
<1>1. \A u \in Everybody : u # t => pc'[u] = pc[u]
  BY DEF PlacesOK
<1>2. pc'[t] = l
  BY DEF PlacesOK
<1>3. \A c \in Consumers : (Waiting(c))' <=> Waiting(c)
  BY <1>1 DEF Waiting, Everybody
<1>4. OnTheWay' = OnTheWay
  BY <1>1, <1>2, <1>3, CondWaitAssumption DEF OnTheWay, Everybody
<1>5. Added' = Added /\ Served' = Served
  BY <1>1, <1>2, CondWaitAssumption DEF Added, Served, Everybody
<1>6. NoneStranded'
  BY <1>3, <1>4 DEF NoneStranded
<1> QED
  BY <1>5, <1>6 DEF Counted

\* The consumer's lock.
LEMMA LockToCheckStep ==
  ASSUME IInv, NEW c \in Consumers, LockToCheck(c)
  PROVE  IInv'
<1> USE CondWaitAssumption DEF IInv, LockToCheck, Goto, Acquire, Everybody
<1>1. TypeOK' /\ PlacesOK'
  BY DEF TypeOK, PlacesOK, ConsumerPCs
<1>2. NoneStranded' /\ Counted'
  BY SameCounts DEF PlacesOK, Waiting
<1> QED
  BY <1>1, <1>2

\* A consumer takes an item, and is one less on the way.
LEMMA TakeStep ==
  ASSUME IInv, NEW c \in Consumers, Take(c)
  PROVE  IInv'
<1> USE CondWaitAssumption DEF IInv, Take, Goto, Release, Everybody
<1>1. TypeOK' /\ PlacesOK'
  BY DEF TypeOK, PlacesOK, ConsumerPCs
<1>2. \A d \in Consumers : d # c => ((Waiting(d))' <=> Waiting(d))
  BY DEF PlacesOK, Waiting
<1>3. /\ OnTheWay' = OnTheWay \ {c} /\ c \in OnTheWay
      /\ Served' = Served \cup {c} /\ c \notin Served /\ Added' = Added
  BY <1>2 DEF PlacesOK, OnTheWay, Waiting, Served, Added
<1>4. /\ Cardinality(OnTheWay') = Cardinality(OnTheWay) - 1
      /\ Cardinality(Served') = Cardinality(Served) + 1
  BY <1>3, Finite, FS_AddElement, FS_RemoveElement
<1>5. NoneStranded'
  BY <1>2, <1>4, Finite DEF NoneStranded, Waiting, PlacesOK, TypeOK
<1>6. Counted'
  BY <1>3, <1>4, Finite DEF Counted
<1> QED
  BY <1>1, <1>5, <1>6

\* A consumer that finds nothing: there is nothing to be stranded with.
LEMMA MustWaitStep ==
  ASSUME IInv, NEW c \in Consumers, MustWait(c)
  PROVE  IInv'
<1> USE CondWaitAssumption DEF IInv, MustWait, Goto, Everybody
<1>1. TypeOK' /\ PlacesOK'
  BY DEF TypeOK, PlacesOK, ConsumerPCs
<1>2. NoneStranded'
  BY FiniteNext DEF NoneStranded
<1>3. Added' = Added /\ Served' = Served
  BY DEF PlacesOK, Added, Served
<1> QED
  BY <1>1, <1>2, <1>3 DEF Counted

\* The producer's lock.
LEMMA LockToAddStep ==
  ASSUME IInv, NEW p \in Producers, LockToAdd(p)
  PROVE  IInv'
<1> USE CondWaitAssumption DEF IInv, LockToAdd, Goto, Acquire, Everybody
<1>1. TypeOK' /\ PlacesOK'
  BY DEF TypeOK, PlacesOK, ProducerPCs
<1>2. NoneStranded' /\ Counted'
  BY SameCounts DEF PlacesOK, Waiting
<1> QED
  BY <1>1, <1>2

\* An item more, and a producer about to signal.
LEMMA AddItemStep ==
  ASSUME IInv, NEW p \in Producers, AddItem(p)
  PROVE  IInv'
<1> USE CondWaitAssumption DEF IInv, AddItem, Goto, Everybody
<1>1. TypeOK' /\ PlacesOK'
  BY DEF TypeOK, PlacesOK, ProducerPCs
<1>2. \A d \in Consumers : (Waiting(d))' <=> Waiting(d)
  BY DEF PlacesOK, Waiting
<1>3. /\ OnTheWay' = OnTheWay \cup {p} /\ p \notin OnTheWay
      /\ Added' = Added \cup {p} /\ p \notin Added /\ Served' = Served
  BY <1>2 DEF PlacesOK, OnTheWay, Served, Added
<1>4. /\ Cardinality(OnTheWay') = Cardinality(OnTheWay) + 1
      /\ Cardinality(Added') = Cardinality(Added) + 1
  BY <1>3, Finite, FS_AddElement
<1>5. NoneStranded'
  BY <1>2, <1>4, Finite DEF NoneStranded, TypeOK
<1>6. Counted'
  BY <1>3, <1>4, Finite DEF Counted
<1> QED
  BY <1>1, <1>5, <1>6

\* The producer's unlock.
LEMMA UnlockStep ==
  ASSUME IInv, NEW p \in Producers, Unlock(p)
  PROVE  IInv'
<1> USE CondWaitAssumption DEF IInv, Unlock, Goto, Release, Everybody
<1>1. TypeOK' /\ PlacesOK'
  BY DEF TypeOK, PlacesOK, ProducerPCs
<1>2. NoneStranded' /\ Counted'
  BY SameCounts DEF PlacesOK, Waiting
<1> QED
  BY <1>1, <1>2

\* The mutex is free as soon as the consumer is parked.
LEMMA ParkStep ==
  ASSUME IInv, NEW c \in Consumers, Park(c)
  PROVE  IInv'
<1> USE CondWaitAssumption DEF IInv, Park, Goto, Release, Everybody
<1>1. TypeOK' /\ PlacesOK'
  BY DEF TypeOK, PlacesOK, ConsumerPCs
<1>2. NoneStranded' /\ Counted'
  BY SameCounts DEF PlacesOK, Waiting
<1> QED
  BY <1>1, <1>2

\* The end of a quantum puts a consumer with a timeout on the way, no other.
LEMMA ExpireStep ==
  ASSUME IInv, NEW c \in Consumers, Expire(c)
  PROVE  IInv'
<1> USE CondWaitAssumption DEF IInv, Expire, Goto, Everybody
<1>1. TypeOK' /\ PlacesOK'
  BY DEF TypeOK, PlacesOK, ConsumerPCs
<1>2. Added' = Added /\ Served' = Served
  BY DEF PlacesOK, Added, Served
<1>3. \A d \in Consumers : (Waiting(d))' => Waiting(d)
  BY DEF PlacesOK, Waiting
<1>4. OnTheWay \subseteq OnTheWay'
  BY <1>3 DEF PlacesOK, OnTheWay
<1>5. Cardinality(OnTheWay) <= Cardinality(OnTheWay')
  BY <1>4, FiniteNext, FS_Subset
<1>6. NoneStranded'
  BY <1>3, <1>5, Finite, FiniteNext DEF NoneStranded, TypeOK
<1> QED
  BY <1>1, <1>2, <1>6 DEF Counted

\* A signal puts the consumer it wakes on the way in place of the producer; when
\* it wakes nobody, nobody waits whom it has not missed, for the producer has the
\* mutex.
LEMMA SignalStep ==
  ASSUME IInv, NEW p \in Producers, Signal(p)
  PROVE  IInv'
<1> USE CondWaitAssumption DEF IInv, Everybody
<1>1. pc[p] = "signal" /\ owner' = owner /\ items' = items
  BY DEF Signal
<1>2. CASE \E c \in Parked : pc' = [pc EXCEPT ![c] = "woken", ![p] = "unlock"] /\ missed' = missed
  <2>1. PICK c \in Consumers : /\ pc[c] = "parked" /\ missed' = missed
                               /\ pc' = [pc EXCEPT ![c] = "woken", ![p] = "unlock"]
    BY <1>2 DEF Parked
  <2>2. c # p /\ pc'[c] = "woken" /\ pc'[p] = "unlock"
        /\ \A u \in Everybody \ {c, p} : pc'[u] = pc[u]
    BY <2>1 DEF PlacesOK
  <2>3. TypeOK' /\ PlacesOK'
    BY <1>1, <2>1, <2>2 DEF TypeOK, PlacesOK, ConsumerPCs, ProducerPCs
  <2>4. Added' = Added /\ Served' = Served
    BY <1>1, <2>1, <2>2 DEF Added, Served
  <2>5. \A d \in Consumers : (Waiting(d))' => Waiting(d)
    BY <2>1, <2>2 DEF Waiting
  <2>6. \A d \in Consumers : d # c => ((Waiting(d))' <=> Waiting(d))
    BY <2>2 DEF Waiting
  <2>7. Waiting(c) /\ ~(Waiting(c))'
    BY <2>1, <2>2 DEF Waiting
  <2>8. /\ OnTheWay' = (OnTheWay \ {p}) \cup {c}
        /\ p \in OnTheWay /\ c \notin OnTheWay
    BY <1>1, <2>1, <2>2, <2>6, <2>7 DEF OnTheWay
  <2>9. Cardinality(OnTheWay') = Cardinality(OnTheWay)
    <3>1. /\ IsFiniteSet(OnTheWay \ {p})
          /\ Cardinality(OnTheWay \ {p}) = Cardinality(OnTheWay) - 1
      BY <2>8, Finite, FS_RemoveElement
    <3>2. Cardinality((OnTheWay \ {p}) \cup {c}) = Cardinality(OnTheWay \ {p}) + 1
      BY <2>8, <3>1, FS_AddElement
    <3> QED BY <2>8, <3>1, <3>2, Finite
  <2>10. NoneStranded'
    BY <1>1, <2>1, <2>5, <2>9 DEF NoneStranded
  <2> QED BY <1>1, <2>3, <2>4, <2>10 DEF Counted
<1>3. CASE /\ Parked = {} /\ missed' = missed \cup {c \in Consumers : pc[c] = "expired"}
           /\ pc' = [pc EXCEPT ![p] = "unlock"]
  <2>1. pc'[p] = "unlock" /\ \A u \in Everybody \ {p} : pc'[u] = pc[u]
    BY <1>3 DEF PlacesOK
  <2>2. TypeOK' /\ PlacesOK'
    BY <1>1, <1>3, <2>1 DEF TypeOK, PlacesOK, ProducerPCs
  <2>3. Added' = Added /\ Served' = Served
    BY <1>1, <2>1 DEF Added, Served
  <2>4. owner = p
    BY <1>1 DEF TypeOK
  <2>5. \A c \in Consumers : pc[c] \notin {"call", "timedout", "parked"}
    BY <1>3, <2>4 DEF TypeOK, Parked
  <2>6. \A c \in Consumers : (Waiting(c))' => c \in missed'
    BY <1>3, <2>1, <2>5 DEF Waiting
  <2>7. NoneStranded'
    BY <2>6 DEF NoneStranded
  <2> QED BY <1>1, <2>2, <2>3, <2>7 DEF Counted
<1> QED
  BY <1>2, <1>3 DEF Signal, Goto

\* The wait gets the mutex back.
LEMMA ReacquireStep ==
  ASSUME IInv, NEW c \in Consumers, Reacquire(c)
  PROVE  IInv'
<1> USE CondWaitAssumption DEF IInv, Reacquire, Goto, Acquire, Everybody
<1>1. TypeOK' /\ PlacesOK'
  BY DEF TypeOK, PlacesOK, ConsumerPCs
<1>2. NoneStranded' /\ Counted'
  BY SameCounts DEF PlacesOK, Waiting
<1> QED
  BY <1>1, <1>2

\* What pthread_cond_wait makes of the result.
LEMMA CondWaitResultStep ==
  ASSUME IInv, NEW c \in Consumers, CondWaitResult(c)
  PROVE  IInv'
<1> USE CondWaitAssumption DEF IInv, CondWaitResult, Goto, Everybody
<1>1. TypeOK' /\ PlacesOK'
  BY DEF TypeOK, PlacesOK, ConsumerPCs
<1>2. NoneStranded' /\ Counted'
  BY SameCounts DEF PlacesOK, Waiting
<1> QED
  BY <1>1, <1>2

\* What pthread_cond_timedwait makes of it.
LEMMA TimedWaitResultStep ==
  ASSUME IInv, NEW c \in Consumers, TimedWaitResult(c)
  PROVE  IInv'
<1> USE CondWaitAssumption DEF IInv, TimedWaitResult, Goto, Everybody
<1>1. TypeOK' /\ PlacesOK'
  BY DEF TypeOK, PlacesOK, ConsumerPCs
<1>2. NoneStranded' /\ Counted'
  BY SameCounts DEF PlacesOK, Waiting
<1> QED
  BY <1>1, <1>2

\* Every step keeps the invariant.
LEMMA NextIInv == IInv /\ [Next]_vars => IInv'
<1> SUFFICES ASSUME IInv, [Next]_vars PROVE IInv'
  OBVIOUS
<1>1. CASE UNCHANGED vars
  BY <1>1 DEF vars, IInv, TypeOK, PlacesOK, NoneStranded, Waiting, OnTheWay, Counted, Added, Served
<1>2. CASE Next
  BY <1>2, LockToCheckStep, TakeStep, MustWaitStep, LockToAddStep, AddItemStep, UnlockStep,
     ParkStep, ExpireStep, SignalStep, ReacquireStep, CondWaitResultStep, TimedWaitResultStep
  DEF Next, Consumer, Producer
<1> QED
  BY <1>1, <1>2

-----------------------------------------------------------------------------
(* The theorems. *)

\* In every reachable state the mutex has its one owner, the items are counted
\* and nobody is stranded.
THEOREM Invariance == Spec => []IInv
  BY InitIInv, NextIInv, PTL DEF Spec

\* Type correctness; the mutex is held exactly by the thread between acquiring
\* and releasing it, and the wrappers return with it held.
THEOREM TypeCorrect == Spec => []TypeOK
  BY Invariance, PTL DEF IInv

\* Neither wrapper loses a wakeup outside the window between the end of a quantum
\* and its return.
THEOREM NoWakeupLost == Spec => []NoneStranded
  BY Invariance, PTL DEF IInv

\* When the producers are done and every consumer either has its item or sits in
\* a wait, those that sit there are the ones a signal has missed: the safety
\* half of ServedUnlessMissed.
Settled == /\ \A p \in Producers : pc[p] = "done"
           /\ \A c \in Consumers : pc[c] \in {"done", "parked"}
SettledServed == Settled => \A c \in Consumers : pc[c] = "done" \/ c \in missed

\* What the invariant says once all is settled.
LEMMA SettledState == IInv => SettledServed
<1> SUFFICES ASSUME IInv, Settled, NEW c \in Consumers, pc[c] # "done", c \notin missed PROVE FALSE
  BY DEF SettledServed
<1>1. OnTheWay = {} /\ Waiting(c)
  BY DEF Settled, OnTheWay, Waiting
<1>2. items = 0
  BY <1>1, FS_EmptySet DEF IInv, NoneStranded, TypeOK
<1>3. Added = Producers
  BY DEF Settled, Added
<1>4. Cardinality(Served) = Cardinality(Consumers)
  BY <1>2, <1>3, Finite, CondWaitAssumption DEF IInv, Counted
<1>5. Served = Consumers
  BY <1>4, FS_Subset, CondWaitAssumption DEF Served
<1> QED
  BY <1>5 DEF Served

\* Nobody but the missed is left behind.
THEOREM NobodyLeftBehind == Spec => []SettledServed
  BY Invariance, SettledState, PTL
=============================================================================
