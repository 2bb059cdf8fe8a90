-------------------------- MODULE CondDeadlineProofs ---------------------------
(* Proofs about CondDeadline, for every clock reading, deadline and delay. *)
EXTENDS CondDeadline, TLAPS

\* A moment in nanoseconds.
Ns(ts) == ts.sec * Sec + ts.nsec

-----------------------------------------------------------------------------
(* The operators on struct timespec, in nanoseconds. *)

\* Sec as a number, so that its value can stay hidden.
LEMMA SecInt == Sec \in Int
  BY DEF Sec

\* Quantum likewise.
LEMMA QuantumInt == Quantum \in Int /\ 0 <= Quantum
  BY SMT DEF Quantum

\* The fields of a normalised timespec.
LEMMA Fields ==
  ASSUME NEW ts \in Timespec
  PROVE  ts.sec \in Int /\ ts.nsec \in Int /\ 0 <= ts.nsec /\ ts.nsec < Sec
<1>1. ts.sec \in Int /\ ts.nsec \in 0 .. (Sec - 1)
  BY SMT DEF Timespec
<1> QED
  BY <1>1, SecInt, SMT

\* When a timespec built from its fields is normalised.
LEMMA Normalised ==
  ASSUME NEW s \in Int, NEW n \in Int, 0 <= n, n < Sec
  PROVE  [sec |-> s, nsec |-> n] \in Timespec
<1>1. n \in 0 .. (Sec - 1)
  BY SecInt, SMT
<1> QED
  BY <1>1, SMT DEF Timespec

\* The order of normalised timespecs is the order of the moments.
LEMMA BeforeNs ==
  ASSUME NEW a \in Timespec, NEW b \in Timespec
  PROVE  Ns(a) \in Int /\ (Before(a, b) <=> Ns(a) < Ns(b))
<1>1. /\ a.sec \in Int /\ a.nsec \in Int /\ 0 <= a.nsec /\ a.nsec < Sec
      /\ b.sec \in Int /\ b.nsec \in Int /\ 0 <= b.nsec /\ b.nsec < Sec
  BY Fields
<1> QED
  BY <1>1, SMT DEF Ns, Before, Sec

\* Adding a duration keeps a timespec normalised and adds the nanoseconds.
LEMMA LaterNs ==
  ASSUME NEW a \in Timespec, NEW d \in Timespec
  PROVE  Later(a, d) \in Timespec /\ Ns(Later(a, d)) = Ns(a) + Ns(d)
<1>1. /\ a.sec \in Int /\ a.nsec \in Int /\ 0 <= a.nsec /\ a.nsec < Sec
      /\ d.sec \in Int /\ d.nsec \in Int /\ 0 <= d.nsec /\ d.nsec < Sec
  BY Fields
<1>2. CASE a.nsec + d.nsec >= Sec
  <2>1. Later(a, d) = [sec |-> a.sec + d.sec + 1, nsec |-> a.nsec + d.nsec - Sec]
    BY <1>1, <1>2, SecInt, SMT DEF Later
  <2>2. Later(a, d) \in Timespec
    BY <1>1, <1>2, <2>1, Normalised, SMT DEF Sec
  <2>3. Ns(Later(a, d)) = Ns(a) + Ns(d)
      BY <1>1, <2>1, SMT DEF Ns, Sec
  <2> QED BY <2>2, <2>3
<1>3. CASE ~(a.nsec + d.nsec >= Sec)
  <2>1. Later(a, d) = [sec |-> a.sec + d.sec, nsec |-> a.nsec + d.nsec]
    BY <1>3 DEF Later
  <2>2. Later(a, d) \in Timespec
    BY <1>1, <1>3, <2>1, Normalised, SMT DEF Sec
  <2> QED BY <1>1, <2>1, <2>2, SMT DEF Ns, Sec
<1> QED
  BY <1>2, <1>3

\* The time between two moments, normalised.
LEMMA SpanNs ==
  ASSUME NEW a \in Timespec, NEW b \in Timespec
  PROVE  Span(a, b) \in Timespec /\ Ns(Span(a, b)) = Ns(b) - Ns(a)
<1>1. /\ a.sec \in Int /\ a.nsec \in Int /\ 0 <= a.nsec /\ a.nsec < Sec
      /\ b.sec \in Int /\ b.nsec \in Int /\ 0 <= b.nsec /\ b.nsec < Sec
  BY Fields
<1>2. CASE b.nsec >= a.nsec
  <2>1. Span(a, b) = [sec |-> b.sec - a.sec, nsec |-> b.nsec - a.nsec]
    BY <1>2 DEF Span
  <2>2. Span(a, b) \in Timespec
    BY <1>1, <1>2, <2>1, Normalised, SMT DEF Sec
  <2> QED BY <1>1, <2>1, <2>2, SMT DEF Ns, Sec
<1>3. CASE ~(b.nsec >= a.nsec)
  <2>1. Span(a, b) = [sec |-> b.sec - a.sec - 1, nsec |-> b.nsec - a.nsec + Sec]
    BY <1>3 DEF Span
  <2>2. Span(a, b) \in Timespec
    BY <1>1, <1>3, <2>1, Normalised, SMT DEF Sec
  <2> QED BY <1>1, <2>1, <2>2, SMT DEF Ns, Sec
<1> QED
  BY <1>2, <1>3

\* vita_add_qms keeps a timespec normalised with its one carry, and adds
\* exactly ms milliseconds, for every ms >= 0.
THEOREM AddQmsExact ==
  ASSUME NEW ts \in Timespec, NEW ms \in Nat
  PROVE  AddQms(ts, ms) \in Timespec /\ Ns(AddQms(ts, ms)) = Ns(ts) + ms * Msec
<1> DEFINE s == ts.sec + ms \div 1000
           n == ts.nsec + (ms % 1000) * Msec
<1>1. ts.sec \in Int /\ ts.nsec \in Int /\ 0 <= ts.nsec /\ ts.nsec < Sec
  BY Fields
<1>2. /\ s \in Int /\ n \in Int /\ 0 <= n /\ n < 2 * Sec
      /\ s * Sec + n = Ns(ts) + ms * Msec
  <2>1. PICK q \in Nat, r \in Nat : /\ q = ms \div 1000 /\ r = ms % 1000
                                   /\ r < 1000 /\ ms = 1000 * q + r
    BY SMT
  <2>2. s = ts.sec + q /\ n = ts.nsec + r * Msec
    BY <2>1
  <2> HIDE DEF s, n
  <2>3. s \in Int /\ n \in Int /\ 0 <= n /\ n < 2 * Sec
    BY <1>1, <2>1, <2>2, SMT DEF Sec, Msec
  <2>4. s * Sec + n = (ts.sec * Sec + ts.nsec) + ms * Msec
    <3>1. q * Sec + r * Msec = ms * Msec
      BY <2>1, SMT DEF Sec, Msec
    <3>2. (ts.sec + q) * Sec = ts.sec * Sec + q * Sec
      BY <1>1, <2>1, SMT DEF Sec
    <3>3. /\ ts.sec * Sec \in Int /\ q * Sec \in Int /\ r * Msec \in Int
          /\ ms * Msec \in Int /\ s * Sec \in Int
      BY <1>1, <2>1, <2>3, SMT DEF Sec, Msec
    <3> QED BY <1>1, <2>2, <3>1, <3>2, <3>3, SMT
  <2> QED BY <2>3, <2>4 DEF Ns
<1>3. AddQms(ts, ms) = IF n >= Sec THEN [sec |-> s + 1, nsec |-> n - Sec]
                                  ELSE [sec |-> s, nsec |-> n]
  BY DEF AddQms
<1> HIDE DEF s, n
<1>4. CASE n >= Sec
  <2>1. AddQms(ts, ms) \in Timespec
    BY <1>2, <1>3, <1>4, Normalised, SMT DEF Sec
  <2> QED BY <1>2, <1>3, <1>4, <2>1, SMT DEF Ns, Sec
<1>5. CASE ~(n >= Sec)
  <2>1. AddQms(ts, ms) \in Timespec
    BY <1>2, <1>3, <1>5, Normalised, SMT DEF Sec
  <2> QED BY <1>2, <1>3, <1>5, <2>1, SMT DEF Ns, Sec
<1> QED
  BY <1>4, <1>5

\* rem_ms is within the quantum.  It is the time left until the deadline to
\* within one millisecond, but for the clamps at zero and at the quantum.
THEOREM RemMsAccurate ==
  ASSUME NEW abs \in Timespec, NEW now \in Timespec
  PROVE  /\ RemMs(abs, now) \in 0 .. Quantum
         /\ \/ RemMs(abs, now) = Quantum
            \/ Ns(abs) - Ns(now) < RemMs(abs, now) * Msec + Msec
         /\ \/ RemMs(abs, now) = 0
            \/ RemMs(abs, now) * Msec < Ns(abs) - Ns(now) + Msec
<1> DEFINE n == abs.nsec - now.nsec
           q == Quot(n, Msec)
           left == (abs.sec - now.sec) * 1000 + q
<1>1. abs.sec \in Int /\ now.sec \in Int /\ n \in Int
  BY Fields, SMT
<1>2. q \in Int /\ n - q * Msec < Msec /\ q * Msec - n < Msec
  BY <1>1, SMT DEF Quot, Msec
<1>3. Ns(abs) - Ns(now) = (abs.sec - now.sec) * Sec + n
  BY Fields, SMT DEF Ns, Sec
<1>4. RemMs(abs, now) = IF left < 0 THEN 0 ELSE IF left > Quantum THEN Quantum ELSE left
  BY DEF RemMs
<1>5. left \in Int /\ left * Msec = (abs.sec - now.sec) * Sec + q * Msec
  BY <1>1, <1>2, SMT DEF Msec, Sec
<1> HIDE DEF n, q, left
<1>6. CASE left < 0
  BY <1>1, <1>2, <1>3, <1>4, <1>5, <1>6, SMT DEF Msec, Sec, Quantum
<1>7. CASE left > Quantum
  <2>1. RemMs(abs, now) = Quantum /\ Quantum \in 0 .. Quantum
    BY <1>4, <1>5, <1>7, SMT DEF Quantum
  <2> QED BY <1>1, <1>2, <1>3, <1>5, <1>7, <2>1, SMT DEF Msec, Sec, Quantum
<1>8. CASE 0 <= left /\ left <= Quantum
  <2>1. RemMs(abs, now) = left /\ left \in 0 .. Quantum
    BY <1>4, <1>5, <1>8, QuantumInt, SMT
  <2>2. /\ Ns(abs) - Ns(now) < left * Msec + Msec
        /\ left * Msec < Ns(abs) - Ns(now) + Msec
    BY <1>1, <1>2, <1>3, <1>5, SMT DEF Msec, Sec
  <2> QED BY <2>1, <2>2
<1> QED
  BY <1>5, <1>6, <1>7, <1>8, QuantumInt, SMT

-----------------------------------------------------------------------------
(* The inductive invariant. *)

Waiting == pc \in {"parked", "ok", "timedout"}

\* The deadline is rem_ms after the reading of the realtime clock; since the
\* monotonic clock was read first, at least as much time has passed on it.
Computed ==
  /\ pc # "enter" /\ Near(abstime, entered) => rem = RemMs(abstime, entered)
  /\ pc = "mono" => Ns(entered) <= Ns(mono)
  /\ Waiting => /\ dl = AddQms(asked, rem)
                /\ Ns(real) - Ns(asked) <= Ns(mono) - Ns(entered)
  /\ pc = "timedout" => Ns(dl) <= Ns(real)

IInv == TypeOK /\ Computed

\* Both clocks move on by the same amount, not backwards.
LEMMA PassNs ==
  ASSUME mono \in Timespec, real \in Timespec, NEW d \in Timespec, Pass(d)
  PROVE  /\ mono' \in Timespec /\ Ns(mono)' = Ns(mono) + Ns(d)
         /\ real' \in Timespec /\ Ns(real)' = Ns(real) + Ns(d)
<1>1. mono' = Later(mono, d) /\ real' = Later(real, d)
  BY DEF Pass
<1>2. Ns(mono)' = Ns(mono') /\ Ns(real)' = Ns(real')
  BY DEF Ns
<1> QED
  BY <1>1, <1>2, LaterNs

\* Time never runs backwards.
LEMMA DelayNs ==
  ASSUME NEW d \in Delays
  PROVE  d \in Timespec /\ Ns(d) \in Nat
<1>1. d \in [sec : Nat, nsec : 0 .. (Sec - 1)]
  BY CondDeadlineAssumption
<1>2. d.sec \in Nat
  BY <1>1
<1>3. d \in Timespec
  BY <1>1, SMT DEF Timespec
<1>4. d.nsec \in Int /\ 0 <= d.nsec
  BY <1>3, Fields
<1>5. d.sec * Sec + d.nsec \in Nat
  <2>1. d.sec * Sec \in Nat
    BY <1>2, SMT DEF Sec
  <2> QED BY <1>4, <2>1, SMT
<1> QED
  BY <1>3, <1>5 DEF Ns

\* The invariant holds when the call is made.
LEMMA InitIInv == Init => IInv
<1> SUFFICES ASSUME Init PROVE IInv
  OBVIOUS
<1>1. mono \in Timespec /\ real \in Timespec /\ abstime \in Timespec
  BY CondDeadlineAssumption DEF Init
<1>2. rem \in 0 .. Quantum
  BY QuantumInt, SMT DEF Init
<1> QED
  BY <1>1, <1>2 DEF Init, IInv, TypeOK, Computed, Waiting

\* vita_mono_deadline_to_realtime, up to the clamped rem_ms, keeps the invariant.
LEMMA ReadMonoStep == IInv /\ ReadMono => IInv'
<1> SUFFICES ASSUME IInv, ReadMono PROVE IInv'
  OBVIOUS
<1> USE DEF IInv, TypeOK
<1>1. PICK d \in Delays : Pass(d)
  BY DEF ReadMono
<1>2. d \in Timespec /\ Ns(d) \in Nat
  BY DelayNs
<1>3. /\ mono' \in Timespec /\ Ns(mono)' = Ns(mono) + Ns(d)
      /\ real' \in Timespec
  BY <1>1, <1>2, PassNs
<1>4. /\ pc' = "mono" /\ entered' = mono
      /\ abstime' = abstime /\ asked' = asked /\ dl' = dl
      /\ IF Near(abstime, mono) THEN rem' = RemMs(abstime, mono) ELSE rem' \in Overflow
  BY DEF ReadMono
<1>5. rem' \in 0 .. Quantum
  BY <1>4, RemMsAccurate, CondDeadlineAssumption
<1>6. TypeOK'
  BY <1>3, <1>4, <1>5
<1>7. Ns(entered)' = Ns(mono) /\ Ns(mono) \in Int
  BY <1>4, BeforeNs DEF Ns
<1>8. Ns(entered)' <= Ns(mono)'
  BY <1>2, <1>3, <1>7, SMT
<1> QED
  BY <1>4, <1>6, <1>8 DEF Computed, Waiting, Near

\* The reading of the realtime clock and the deadline keep it.
LEMMA ReadRealStep == IInv /\ ReadReal => IInv'
<1> SUFFICES ASSUME IInv, ReadReal PROVE IInv'
  OBVIOUS
<1> USE DEF IInv, TypeOK
<1>1. PICK d \in Delays : Pass(d)
  BY DEF ReadReal
<1>2. d \in Timespec /\ Ns(d) \in Nat
  BY DelayNs
<1>3. /\ mono' \in Timespec /\ Ns(mono)' = Ns(mono) + Ns(d)
      /\ real' \in Timespec /\ Ns(real)' = Ns(real) + Ns(d)
  BY <1>1, <1>2, PassNs
<1>4. /\ pc = "mono" /\ pc' = "parked" /\ asked' = real /\ dl' = AddQms(real, rem)
      /\ abstime' = abstime /\ entered' = entered /\ rem' = rem
  BY DEF ReadReal
<1>5. rem \in Nat
  BY QuantumInt, SMT
<1>6. TypeOK'
  BY <1>3, <1>4, <1>5, AddQmsExact
<1>7. Ns(asked)' = Ns(real) /\ Ns(entered)' = Ns(entered)
  BY <1>4 DEF Ns
<1>8. Ns(real) \in Int /\ Ns(mono) \in Int /\ Ns(entered) \in Int
  BY BeforeNs
<1>9. Ns(real)' - Ns(asked)' <= Ns(mono)' - Ns(entered)'
  BY <1>2, <1>3, <1>4, <1>7, <1>8, SMT DEF Computed
<1> QED
  BY <1>4, <1>6, <1>9 DEF Computed, Waiting, Near

\* The timeout of the primitive keeps it.
LEMMA ExpireStep == IInv /\ Expire => IInv'
<1> SUFFICES ASSUME IInv, Expire PROVE IInv'
  OBVIOUS
<1> USE DEF IInv, TypeOK
<1>1. /\ pc = "parked" /\ pc' = "timedout" /\ abstime' = abstime /\ entered' = entered
      /\ asked' = asked /\ rem' = rem /\ dl' = dl
  BY DEF Expire
<1>2. /\ Ns(real) \in Int /\ Ns(mono) \in Int /\ Ns(dl) \in Int
      /\ Ns(asked) \in Int /\ Ns(entered) \in Int
  BY BeforeNs
<1>3. Ns(asked)' = Ns(asked) /\ Ns(entered)' = Ns(entered) /\ Ns(dl)' = Ns(dl)
  BY <1>1 DEF Ns
<1>4. /\ mono' \in Timespec /\ real' \in Timespec
      /\ Ns(real)' - Ns(real) = Ns(mono)' - Ns(mono)
      /\ Ns(real)' \in Int /\ Ns(mono)' \in Int
      /\ Ns(dl) <= Ns(real)'
  <2>1. CASE Before(real, dl)
    <3>1. Pass(Span(real, dl))
      BY <2>1 DEF Expire
    <3>2. Span(real, dl) \in Timespec /\ Ns(Span(real, dl)) = Ns(dl) - Ns(real)
      BY SpanNs
    <3> QED BY <1>2, <3>1, <3>2, PassNs, SMT
  <2>2. CASE ~Before(real, dl)
    <3>1. mono' = mono /\ real' = real
      BY <2>2 DEF Expire
    <3>2. Ns(mono)' = Ns(mono) /\ Ns(real)' = Ns(real)
      BY <3>1 DEF Ns
    <3>3. ~(Ns(real) < Ns(dl))
      BY <2>2, BeforeNs
    <3> QED BY <1>2, <3>1, <3>2, <3>3, SMT
  <2> QED BY <2>1, <2>2
<1>5. TypeOK'
  BY <1>1, <1>4
<1>6. Ns(real)' - Ns(asked)' <= Ns(mono)' - Ns(entered)'
  BY <1>1, <1>2, <1>3, <1>4, SMT DEF Computed, Waiting
<1>7. Ns(dl)' <= Ns(real)'
  BY <1>3, <1>4
<1> QED
  BY <1>1, <1>5, <1>6, <1>7 DEF Computed, Waiting, Near

\* A signal keeps it.
LEMMA SignalledStep == IInv /\ Signalled => IInv'
  BY DEF IInv, TypeOK, Computed, Waiting, Signalled, Ns, Near

\* So every step keeps it.
LEMMA NextIInv == IInv /\ [Next]_vars => IInv'
<1> SUFFICES ASSUME IInv, [Next]_vars PROVE IInv'
  OBVIOUS
<1>1. CASE UNCHANGED vars
  BY <1>1 DEF vars, IInv, TypeOK, Computed, Waiting, Ns, Near
<1> QED
  BY <1>1, ReadMonoStep, ReadRealStep, ExpireStep, SignalledStep DEF Next

\* In every behaviour, for all clocks, deadlines and delays.
THEOREM Invariance == Spec => []IInv
  BY InitIInv, NextIInv, PTL DEF Spec

-----------------------------------------------------------------------------
(* The properties. *)

\* Type correctness; in particular the primitive always gets a normalised
\* deadline.
THEOREM TypeCorrect == Spec => []TypeOK
<1>1. IInv => TypeOK
  BY DEF IInv
<1> QED
  BY Invariance, <1>1, PTL

\* One millisecond, in nanoseconds.
LEMMA OneMsecNs == OneMsec \in Timespec /\ Ns(OneMsec) = Msec
<1>1. OneMsec \in Timespec
  BY Normalised, SMT DEF OneMsec, Msec, Sec
<1>2. Ns(OneMsec) = 0 * Sec + Msec
  BY DEF Ns, OneMsec
<1> QED
  BY <1>1, <1>2, SMT DEF Sec, Msec

\* What the invariant says once the deadline is computed.
LEMMA WaitingFacts ==
  ASSUME IInv, Waiting, Near(abstime, entered)
  PROVE  /\ rem \in Nat /\ Ns(dl) = Ns(asked) + rem * Msec
         /\ rem = Quantum \/ Ns(abstime) - Ns(entered) < rem * Msec + Msec
         /\ rem = 0 \/ rem * Msec < Ns(abstime) - Ns(entered) + Msec
<1>1. rem \in Nat /\ asked \in Timespec /\ abstime \in Timespec /\ entered \in Timespec
  BY QuantumInt, SMT DEF IInv, TypeOK
<1>2. dl = AddQms(asked, rem) /\ rem = RemMs(abstime, entered)
  BY DEF IInv, Computed, Waiting
<1> QED
  BY <1>1, <1>2, AddQmsExact, RemMsAccurate

\* The timeout comes when the monotonic clock has moved on by rem_ms at least.
LEMMA IInvNotTooEarly == IInv => NotTooEarly
<1> SUFFICES ASSUME IInv, pc = "timedout", Near(abstime, entered)
             PROVE  \/ Before(abstime, Later(mono, OneMsec))
                    \/ ~Before(mono, AddQms(entered, Quantum))
  BY DEF NotTooEarly
<1>1. /\ mono \in Timespec /\ real \in Timespec /\ abstime \in Timespec
      /\ entered \in Timespec /\ asked \in Timespec /\ dl \in Timespec
  BY DEF IInv, TypeOK
<1>2. /\ rem \in Nat /\ Ns(dl) = Ns(asked) + rem * Msec
      /\ rem = Quantum \/ Ns(abstime) - Ns(entered) < rem * Msec + Msec
  BY WaitingFacts DEF Waiting
<1>3. Ns(real) - Ns(asked) <= Ns(mono) - Ns(entered) /\ Ns(dl) <= Ns(real)
  BY DEF IInv, Computed, Waiting
<1>4. /\ Ns(mono) \in Int /\ Ns(real) \in Int /\ Ns(abstime) \in Int
      /\ Ns(entered) \in Int /\ Ns(asked) \in Int /\ Ns(dl) \in Int
  BY <1>1, BeforeNs
<1>5. Ns(entered) + rem * Msec <= Ns(mono)
  BY <1>2, <1>3, <1>4, SMT DEF Msec
<1>6. CASE rem = Quantum
  <2>1. Quantum \in Nat
    BY QuantumInt, SMT
  <2>2. /\ AddQms(entered, Quantum) \in Timespec
        /\ Ns(AddQms(entered, Quantum)) = Ns(entered) + Quantum * Msec
    BY <1>1, <2>1, AddQmsExact
  <2>3. ~(Ns(mono) < Ns(AddQms(entered, Quantum)))
    BY <1>4, <1>5, <1>6, <2>2, SMT DEF Msec, Quantum
  <2> QED BY <1>1, <2>2, <2>3, BeforeNs
<1>7. CASE Ns(abstime) - Ns(entered) < rem * Msec + Msec
  <2>1. /\ Later(mono, OneMsec) \in Timespec
        /\ Ns(Later(mono, OneMsec)) = Ns(mono) + Msec
    BY <1>1, OneMsecNs, LaterNs
  <2>2. Ns(abstime) < Ns(Later(mono, OneMsec))
    BY <1>2, <1>4, <1>5, <1>7, <2>1, SMT DEF Msec
  <2> QED BY <1>1, <2>1, <2>2, BeforeNs
<1> QED
  BY <1>2, <1>6, <1>7

\* The time asked for is rem_ms exactly.
LEMMA IInvNotTooLate == IInv => NotTooLate
<1> SUFFICES ASSUME IInv, Waiting, Before(asked, dl), Near(abstime, entered)
             PROVE  Before(Later(entered, Span(asked, dl)), Later(abstime, OneMsec))
  BY DEF NotTooLate, Waiting
<1>1. /\ abstime \in Timespec /\ entered \in Timespec
      /\ asked \in Timespec /\ dl \in Timespec
  BY DEF IInv, TypeOK
<1>2. /\ rem \in Nat /\ Ns(dl) = Ns(asked) + rem * Msec
      /\ rem = 0 \/ rem * Msec < Ns(abstime) - Ns(entered) + Msec
  BY WaitingFacts
<1>3. /\ Ns(abstime) \in Int /\ Ns(entered) \in Int /\ Ns(asked) \in Int /\ Ns(dl) \in Int
      /\ Ns(asked) < Ns(dl)
  BY <1>1, BeforeNs
<1>4. rem # 0
  BY <1>2, <1>3, SMT DEF Msec
<1>5. Span(asked, dl) \in Timespec /\ Ns(Span(asked, dl)) = Ns(dl) - Ns(asked)
  BY <1>1, SpanNs
<1>6. /\ Later(entered, Span(asked, dl)) \in Timespec
      /\ Ns(Later(entered, Span(asked, dl))) = Ns(entered) + (Ns(dl) - Ns(asked))
  BY <1>1, <1>5, LaterNs
<1>7. Later(abstime, OneMsec) \in Timespec /\ Ns(Later(abstime, OneMsec)) = Ns(abstime) + Msec
  BY <1>1, OneMsecNs, LaterNs
<1>8. Ns(Later(entered, Span(asked, dl))) < Ns(Later(abstime, OneMsec))
  BY <1>2, <1>3, <1>4, <1>6, <1>7, SMT DEF Msec
<1> QED
  BY <1>6, <1>7, <1>8, BeforeNs

\* The timeout is never reported more than a millisecond before the caller's
\* deadline, but after a whole quantum.
THEOREM TimeoutNotEarly == Spec => []NotTooEarly
  BY Invariance, IInvNotTooEarly, PTL

\* The primitive is never asked to wait more than a millisecond too long.
THEOREM TimeoutNotLate == Spec => []NotTooLate
  BY Invariance, IInvNotTooLate, PTL
=============================================================================
