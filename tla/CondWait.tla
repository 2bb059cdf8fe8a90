------------------------------- MODULE CondWait -------------------------------
(***************************************************************************)
(* The condition-variable wrappers of vita-shim.c.  pthread_cond_wait is a *)
(* loop of timed waits of one quantum (60 s) each, because the primitive   *)
(* only knows realtime deadlines; pthread_cond_timedwait is one timed wait. *)
(*                                                                         *)
(* The callers are the runtime's: a consumer waits under a mutex until     *)
(* there is an item and takes it, a producer adds an item and signals.     *)
(* There are as many items as consumers.  The primitive and the mutex are  *)
(* those of the platform, modelled from how the wrappers use them.         *)
(***************************************************************************)
EXTENDS Integers, FiniteSets

CONSTANTS Waiters,        \* consumers that call pthread_cond_wait
          TimedWaiters,   \* consumers that call pthread_cond_timedwait
          Producers,
          Nobody          \* owner of a free mutex

Consumers == Waiters \cup TimedWaiters

ASSUME CondWaitAssumption ==
  /\ Waiters \cap TimedWaiters = {}
  /\ Producers \cap Consumers = {}
  /\ Nobody \notin Producers \cup Consumers
  /\ IsFiniteSet(Consumers) /\ IsFiniteSet(Producers)
  /\ Cardinality(Consumers) = Cardinality(Producers)

VARIABLES owner,    \* the thread that holds the mutex
          pc,       \* where each thread is
          items,    \* the condition the consumers wait for: items > 0
          missed    \* consumers whose wait a signal came for in vain

vars == <<owner, pc, items, missed>>

\* Consumer: "start", "check" the condition, "call" the primitive, "parked" in
\* it, "woken" or "expired" (leaving it, without the mutex yet), "ok" or
\* "timedout" (it has returned 0 or ETIMEDOUT), "done".
\* Producer: "start", "add", "signal", "unlock", "done".
ConsumerPCs == {"start", "check", "call", "parked", "woken", "expired", "ok", "timedout", "done"}
ProducerPCs == {"start", "add", "signal", "unlock", "done"}

Parked == {c \in Consumers : pc[c] = "parked"}

Init == /\ owner = Nobody
        /\ pc = [t \in Consumers \cup Producers |-> "start"]
        /\ items = 0
        /\ missed = {}

Goto(t, l) == pc' = [pc EXCEPT ![t] = l]

Acquire(t) == owner = Nobody /\ owner' = t
Release(t) == owner = t /\ owner' = Nobody

-----------------------------------------------------------------------------
(* The callers *)

LockToCheck(c) == /\ pc[c] = "start"
                  /\ Acquire(c)
                  /\ Goto(c, "check")
                  /\ UNCHANGED <<items, missed>>

Take(c) == /\ pc[c] = "check" /\ items > 0
           /\ items' = items - 1
           /\ Release(c)
           /\ Goto(c, "done")
           /\ UNCHANGED missed

MustWait(c) == /\ pc[c] = "check" /\ items = 0
               /\ Goto(c, "call")
               /\ UNCHANGED <<owner, items, missed>>

LockToAdd(p) == /\ pc[p] = "start"
                /\ Acquire(p)
                /\ Goto(p, "add")
                /\ UNCHANGED <<items, missed>>

AddItem(p) == /\ pc[p] = "add"
              /\ items' = items + 1
              /\ Goto(p, "signal")
              /\ UNCHANGED <<owner, missed>>

Unlock(p) == /\ pc[p] = "unlock"
             /\ Release(p)
             /\ Goto(p, "done")
             /\ UNCHANGED <<items, missed>>

-----------------------------------------------------------------------------
(* The primitive *)

\* It gives up the mutex and parks in one step.
Park(c) == /\ pc[c] = "call"
           /\ Release(c)
           /\ Goto(c, "parked")
           /\ UNCHANGED <<items, missed>>

\* The deadline passes: the thread is no longer waiting on the condition, but
\* does not have the mutex back.
Expire(c) == /\ pc[c] = "parked"
             /\ Goto(c, "expired")
             /\ UNCHANGED <<owner, items, missed>>

\* A signal wakes one parked thread; with none parked it has no effect.
Signal(p) ==
  /\ pc[p] = "signal"
  /\ \/ /\ \E c \in Parked : pc' = [pc EXCEPT ![c] = "woken", ![p] = "unlock"]
        /\ UNCHANGED missed
     \/ /\ Parked = {}
        /\ missed' = missed \cup {c \in Consumers : pc[c] = "expired"}
        /\ Goto(p, "unlock")
  /\ UNCHANGED <<owner, items>>

\* It returns with the mutex held.
Reacquire(c) == /\ pc[c] \in {"woken", "expired"}
                /\ Acquire(c)
                /\ Goto(c, IF pc[c] = "woken" THEN "ok" ELSE "timedout")
                /\ UNCHANGED <<items, missed>>

-----------------------------------------------------------------------------
(* The wrappers *)

\* Mutant: only errors end the loop, the return on success is missing.
CondWaitNeverOk(c) == /\ c \in Waiters
                      /\ pc[c] \in {"ok", "timedout"}
                      /\ Goto(c, "call")
                      /\ UNCHANGED <<owner, items, missed>>

\* Mutant: the mutex is given up between two quanta.
CondWaitUnlocks(c) == /\ c \in Waiters
                      /\ \/ pc[c] = "ok" /\ Goto(c, "check") /\ UNCHANGED owner
                         \/ pc[c] = "timedout" /\ Goto(c, "call") /\ Release(c)
                      /\ UNCHANGED <<items, missed>>

\* __wrap_pthread_cond_wait: success returns to the caller, which checks its
\* condition; ETIMEDOUT starts the next quantum.
CondWaitResult(c) == /\ c \in Waiters
                     /\ \/ pc[c] = "ok" /\ Goto(c, "check")
                        \/ pc[c] = "timedout" /\ Goto(c, "call")
                     /\ UNCHANGED <<owner, items, missed>>

\* Mutant: the timed wait loops over quanta as the untimed one does.
TimedWaitLoops(c) == /\ c \in TimedWaiters
                     /\ \/ pc[c] = "ok" /\ Goto(c, "check")
                        \/ pc[c] = "timedout" /\ Goto(c, "call")
                     /\ UNCHANGED <<owner, items, missed>>

\* __wrap_pthread_cond_timedwait: either result returns to the caller.
TimedWaitResult(c) == /\ c \in TimedWaiters
                      /\ pc[c] \in {"ok", "timedout"}
                      /\ Goto(c, "check")
                      /\ UNCHANGED <<owner, items, missed>>

-----------------------------------------------------------------------------
Consumer(c) == \/ LockToCheck(c) \/ Take(c) \/ MustWait(c)
               \/ Park(c) \/ Expire(c) \/ Reacquire(c)
               \/ CondWaitResult(c) \/ TimedWaitResult(c)

Producer(p) == LockToAdd(p) \/ AddItem(p) \/ Signal(p) \/ Unlock(p)

Next == \/ \E c \in Consumers : Consumer(c)
        \/ \E p \in Producers : Producer(p)

\* Threads keep running, deadlines pass, and a thread that asks for the mutex
\* gets it if it is free again and again.
Fairness ==
  /\ \A c \in Consumers : /\ WF_vars(Consumer(c))
                          /\ SF_vars(LockToCheck(c))
                          /\ SF_vars(Reacquire(c))
  /\ \A p \in Producers : WF_vars(Producer(p)) /\ SF_vars(LockToAdd(p))

Spec == Init /\ [][Next]_vars /\ Fairness

-----------------------------------------------------------------------------
\* Every variable has its type, and the mutex is held exactly by the one thread
\* that is between acquiring and releasing it.
TypeOK ==
  /\ owner \in Consumers \cup Producers \cup {Nobody}
  /\ \A c \in Consumers : pc[c] \in ConsumerPCs
  /\ \A p \in Producers : pc[p] \in ProducerPCs
  /\ items \in Nat
  /\ missed \subseteq Consumers
  /\ \A t \in Consumers \cup Producers :
       (owner = t) <=> pc[t] \in {"check", "call", "ok", "timedout", "add", "signal", "unlock"}

\* Waits for a signal; after the end of a quantum only the untimed wait still does.
Waiting(c) == pc[c] \in {"call", "parked"} \/ (c \in Waiters /\ pc[c] \in {"expired", "timedout"})

\* Those that change what there is to wait for without being signalled: they will
\* look at the condition before they wait again, or are about to signal.
OnTheWay == {c \in Consumers : ~Waiting(c) /\ pc[c] # "done"}
            \cup {p \in Producers : pc[p] = "signal"}

\* While somebody waits whom no signal has missed, there are no more items than
\* threads on the way to them: no wakeup goes astray between the wrappers, the
\* callers and the primitive.
NoneStranded ==
  \A c \in Consumers \ missed : Waiting(c) => items <= Cardinality(OnTheWay)

\* A consumer that waits with a timeout gets its item, even if every signal
\* falls between the end of its quantum and its return: the caller is told of
\* the timeout and checks the condition itself.
TimedServed == \A c \in TimedWaiters : <>(pc[c] = "done")

\* A consumer that waits without a timeout gets its item, unless a signal came
\* while its own wait had expired and had not yet got the mutex back.
ServedUnlessMissed == \A c \in Waiters : <>(pc[c] = "done" \/ c \in missed)

\* As documented (vita-shim.c:1333, the meaning of the wait is kept): every
\* consumer gets its item.
WaitServed == \A c \in Waiters : <>(pc[c] = "done")
=============================================================================
