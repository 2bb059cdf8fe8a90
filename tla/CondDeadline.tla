----------------------------- MODULE CondDeadline ------------------------------
(***************************************************************************)
(* The deadline arithmetic of __wrap_pthread_cond_timedwait.  The caller's *)
(* abstime is a time of the monotonic clock, the primitive wants a time of *)
(* the realtime clock, so the wrapper turns the time that is left into a   *)
(* realtime deadline, at most one quantum ahead, and waits once.           *)
(*                                                                         *)
(* The two clocks are read one after the other, time passes in between,    *)
(* and they tick at the same rate.                                         *)
(***************************************************************************)
EXTENDS Integers

CONSTANTS MonoStarts,   \* when the call is made, on the monotonic clock
          RealStarts,   \* the same moment on the realtime clock
          Abstimes,     \* deadlines the callers pass
          Delays,       \* how much time passes between two steps
          Overflow      \* rem_ms, once clamped, where the product overflows

Sec     == 1000000000   \* nanoseconds
Msec    == 1000000
Quantum == 60000        \* milliseconds

\* struct timespec
Timespec == [sec : Int, nsec : 0 .. (Sec - 1)]

ASSUME CondDeadlineAssumption ==
  /\ MonoStarts \subseteq Timespec
  /\ RealStarts \subseteq Timespec
  /\ Abstimes \subseteq Timespec
  /\ Delays \subseteq [sec : Nat, nsec : 0 .. (Sec - 1)]
  /\ Overflow \subseteq 0 .. Quantum /\ Overflow # {}

VARIABLES pc,        \* "enter", "mono" (has read it), "parked", "ok", "timedout"
          mono,      \* CLOCK_MONOTONIC
          real,      \* CLOCK_REALTIME
          abstime,   \* the caller's deadline
          entered,   \* mono when the wrapper read it
          asked,     \* real when the wrapper read it
          rem,       \* rem_ms
          dl         \* the deadline given to the primitive

vars == <<pc, mono, real, abstime, entered, asked, rem, dl>>

\* The moment ts, d later.
Later(ts, d) == LET n == ts.nsec + d.nsec
                IN IF n >= Sec THEN [sec |-> ts.sec + d.sec + 1, nsec |-> n - Sec]
                               ELSE [sec |-> ts.sec + d.sec, nsec |-> n]

Before(a, b) == a.sec < b.sec \/ (a.sec = b.sec /\ a.nsec < b.nsec)

\* The time from a to b, when b is not before a.
Span(a, b) == IF b.nsec >= a.nsec
              THEN [sec |-> b.sec - a.sec, nsec |-> b.nsec - a.nsec]
              ELSE [sec |-> b.sec - a.sec - 1, nsec |-> b.nsec - a.nsec + Sec]

\* Mutant: no carry into the seconds.
AddQmsNoCarry(ts, ms) ==
  [sec |-> ts.sec + ms \div 1000, nsec |-> ts.nsec + (ms % 1000) * Msec]

\* vita_add_qms: one carry is enough for a normalised ts and ms >= 0.
AddQms(ts, ms) ==
  LET s == ts.sec + ms \div 1000
      n == ts.nsec + (ms % 1000) * Msec
  IN IF n >= Sec THEN [sec |-> s + 1, nsec |-> n - Sec] ELSE [sec |-> s, nsec |-> n]

\* The division of C, towards zero.
Quot(a, d) == IF a >= 0 THEN a \div d ELSE -((-a) \div d)

\* Mutant: the whole milliseconds of both times, without the nanoseconds.
RemMsSeconds(abs, now) ==
  LET left == (abs.sec - now.sec) * 1000
  IN IF left < 0 THEN 0 ELSE IF left > Quantum THEN Quantum ELSE left

\* The milliseconds left, as vita_mono_deadline_to_realtime clamps them.
RemMs(abs, now) ==
  LET left == (abs.sec - now.sec) * 1000 + Quot(abs.nsec - now.nsec, Msec)
  IN IF left < 0 THEN 0 ELSE IF left > Quantum THEN Quantum ELSE left

\* How many seconds apart they may be for all of that to fit a long of 32 bits.
LongSecs == 2147482
Near(abs, now) == abs.sec - now.sec \in (-LongSecs) .. LongSecs

Init == /\ pc = "enter"
        /\ mono \in MonoStarts
        /\ real \in RealStarts
        /\ abstime \in Abstimes
        /\ entered = mono /\ asked = real /\ dl = real
        /\ rem = 0

\* Both clocks move on.
Pass(d) == mono' = Later(mono, d) /\ real' = Later(real, d)

\* clock_gettime (CLOCK_MONOTONIC), and the clamped remaining time, which is
\* any number in the range of the clamps when the product overflows.
ReadMono == /\ pc = "enter"
            /\ entered' = mono
            /\ IF Near(abstime, mono) THEN rem' = RemMs(abstime, mono) ELSE rem' \in Overflow
            /\ \E d \in Delays : Pass(d)
            /\ pc' = "mono"
            /\ UNCHANGED <<abstime, asked, dl>>

\* Mutant: the deadline is left on the monotonic clock.
ReadRealMono == /\ pc = "mono"
                /\ asked' = real
                /\ dl' = AddQms(entered, rem)
                /\ \E d \in Delays : Pass(d)
                /\ pc' = "parked"
                /\ UNCHANGED <<abstime, entered, rem>>

\* clock_gettime (CLOCK_REALTIME), the deadline, and the call of the primitive.
ReadReal == /\ pc = "mono"
            /\ asked' = real
            /\ dl' = AddQms(real, rem)
            /\ \E d \in Delays : Pass(d)
            /\ pc' = "parked"
            /\ UNCHANGED <<abstime, entered, rem>>

\* The primitive gives up when the realtime clock reaches the deadline, or
\* finds it passed already.
Expire == /\ pc = "parked"
          /\ IF Before(real, dl) THEN Pass(Span(real, dl))
                                 ELSE UNCHANGED <<mono, real>>
          /\ pc' = "timedout"
          /\ UNCHANGED <<abstime, entered, asked, rem, dl>>

\* A signal comes first.
Signalled == /\ pc = "parked"
             /\ Before(real, dl)
             /\ pc' = "ok"
             /\ UNCHANGED <<mono, real, abstime, entered, asked, rem, dl>>

Next == ReadMono \/ ReadReal \/ Expire \/ Signalled

Spec == Init /\ [][Next]_vars

-----------------------------------------------------------------------------
\* Every variable has its type; the deadline is a normalised timespec within
\* one quantum of the clock it was computed from.
TypeOK ==
  /\ pc \in {"enter", "mono", "parked", "ok", "timedout"}
  /\ mono \in Timespec /\ real \in Timespec /\ abstime \in Timespec
  /\ entered \in Timespec /\ asked \in Timespec
  /\ rem \in 0 .. Quantum
  /\ dl \in Timespec

OneMsec == [sec |-> 0, nsec |-> Msec]

\* ETIMEDOUT is never returned more than a millisecond before the caller's
\* deadline, unless a whole quantum has passed since the call; but for a deadline
\* weeks away.
NotTooEarly ==
  pc = "timedout" /\ Near(abstime, entered) =>
                     \/ Before(abstime, Later(mono, OneMsec))
                     \/ ~Before(mono, AddQms(entered, Quantum))

\* The primitive is never made to wait more than a millisecond longer than what
\* was left until the caller's deadline; but for one weeks ago.
NotTooLate ==
  pc \in {"parked", "ok", "timedout"} /\ Before(asked, dl) /\ Near(abstime, entered) =>
    Before(Later(entered, Span(asked, dl)), Later(abstime, OneMsec))

\* As documented (vita-shim.c:1490, exact POSIX semantics): ETIMEDOUT means
\* that the caller's deadline has passed.
NeverEarly == pc = "timedout" => ~Before(mono, abstime)
=============================================================================
