--------------------------- MODULE FreeRangesProofs ---------------------------
(* What the operators on free ranges preserve, for every page size. *)
EXTENDS FreeRanges, TLAPS

\* Multiples of the page size are aligned, and an aligned address is one.
LEMMA MultipleAligned == \A k \in Int : Aligned(k * PageSize)
  BY PageSizeAssumption, SMT DEF Aligned

\* An aligned address is a multiple of the page size.
LEMMA AlignedMultiple ==
  ASSUME NEW a \in Int, Aligned(a)
  PROVE  \E k \in Int : a = k * PageSize
<1>1. a = (a \div PageSize) * PageSize + (a % PageSize)
  BY PageSizeAssumption, SMT
<1>2. a \div PageSize \in Int
  BY PageSizeAssumption, SMT
<1> DEFINE k == a \div PageSize
<1> HIDE DEF k
<1>3. k \in Int /\ a = k * PageSize + 0
  BY <1>1, <1>2 DEF Aligned, k
<1> QED
  BY <1>3, PageSizeAssumption, SMT

\* The sum and the difference of two aligned addresses are aligned.
LEMMA AlignedSum ==
  ASSUME NEW a \in Int, NEW b \in Int, Aligned(a), Aligned(b)
  PROVE  Aligned(a + b) /\ Aligned(a - b)
<1>1. PICK k \in Int : a = k * PageSize
  BY AlignedMultiple
<1>2. PICK l \in Int : b = l * PageSize
  BY AlignedMultiple
<1>3. /\ a + b = (k + l) * PageSize
      /\ a - b = (k - l) * PageSize
  BY <1>1, <1>2, PageSizeAssumption, SMT
<1>4. k + l \in Int /\ k - l \in Int
  OBVIOUS
<1> QED
  BY <1>3, <1>4, MultipleAligned

\* Rounding down gives an aligned address, at most a page below.
LEMMA RoundDownProps ==
  ASSUME NEW a \in Int
  PROVE  /\ RoundDown(a) \in Int
         /\ RoundDown(a) <= a
         /\ a < RoundDown(a) + PageSize
         /\ Aligned(RoundDown(a))
         /\ a \in Nat => RoundDown(a) \in Nat
<1>1. /\ RoundDown(a) \in Int
      /\ RoundDown(a) <= a
      /\ a < RoundDown(a) + PageSize
  BY PageSizeAssumption, SMT DEF RoundDown
<1>2. RoundDown(a) = (a \div PageSize) * PageSize
  BY PageSizeAssumption, SMT DEF RoundDown
<1>3. a \div PageSize \in Int
  BY PageSizeAssumption, SMT
<1>4. Aligned(RoundDown(a))
  BY <1>2, <1>3, MultipleAligned
<1>5. a \in Nat => a \div PageSize \in Nat
  BY PageSizeAssumption, SMT
<1>6. a \in Nat => RoundDown(a) \in Nat
  BY <1>2, <1>5, PageSizeAssumption, SMT
<1> QED
  BY <1>1, <1>4, <1>6

\* page_round gives an aligned size, less than a page above.
LEMMA PageRoundProps ==
  ASSUME NEW a \in Nat
  PROVE  /\ page_round(a) \in Nat
         /\ a <= page_round(a)
         /\ page_round(a) < a + PageSize
         /\ Aligned(page_round(a))
<1>1. a + (PageSize - 1) \in Nat
  BY PageSizeAssumption, SMT
<1> QED
  BY <1>1, RoundDownProps, PageSizeAssumption, SMT DEF page_round

-----------------------------------------------------------------------------
\* A set of non-empty ranges.
RangeSet(fr) == fr \subseteq RangeRecord /\ \A r \in fr : r.lo < r.hi

AllAligned(fr) == \A r \in fr : Aligned(r.lo) /\ Aligned(r.hi)

\* u is a unit of the range, block or mapping r.
In(u, r) == r.lo <= u /\ u < r.hi

Apart(p, q) == p.hi <= q.lo \/ q.hi <= p.lo

\* The pages inside a range lie in it.
LEMMA SnapProps ==
  ASSUME NEW lo \in Nat, NEW hi \in Nat, NEW x \in BOOLEAN
  PROVE  /\ Snap(lo, hi, x) \in RangeRecord
         /\ lo <= Snap(lo, hi, x).lo
         /\ Snap(lo, hi, x).hi <= hi
         /\ Snap(lo, hi, x).exec = x
         /\ Aligned(Snap(lo, hi, x).lo) /\ Aligned(Snap(lo, hi, x).hi)
<1>1. page_round(lo) \in Nat /\ lo <= page_round(lo) /\ Aligned(page_round(lo))
  BY PageRoundProps
<1>2. RoundDown(hi) \in Nat /\ RoundDown(hi) <= hi /\ Aligned(RoundDown(hi))
  BY RoundDownProps, SMT
<1> QED
  BY <1>1, <1>2 DEF Snap, RangeRecord

\* What Merged returns: the hull of r and the at most two ranges, one on each
\* side, that touch it.
LEMMA MergedProps ==
  ASSUME NEW fr, RangeSet(fr), Separate(fr),
         NEW r \in RangeRecord, r.lo < r.hi
  PROVE  LET m == Merged(fr, r)
         IN /\ m \in RangeRecord
            /\ m.exec = r.exec
            /\ m.lo = r.lo \/ \E q \in Touching(fr, r) : q.lo = m.lo /\ q.lo < r.lo
            /\ m.hi = r.hi \/ \E q \in Touching(fr, r) : q.hi = m.hi /\ q.hi > r.hi
            /\ \A q \in Touching(fr, r) : m.lo <= q.lo /\ q.hi <= m.hi
<1> DEFINE left  == {q \in Touching(fr, r) : q.lo < r.lo}
           right == {q \in Touching(fr, r) : q.hi > r.hi}
           ql == CHOOSE q \in left : TRUE
           qr == CHOOSE q \in right : TRUE
           mlo == IF left = {} THEN r.lo ELSE ql.lo
           mhi == IF right = {} THEN r.hi ELSE qr.hi
           m == Merged(fr, r)
<1>1. m = [lo |-> mlo, hi |-> mhi, exec |-> r.exec]
  BY DEF Merged
<1>2. left # {} => ql \in left
  OBVIOUS
<1>3. right # {} => qr \in right
  OBVIOUS
<1>4. \A q \in Touching(fr, r) : /\ q \in fr /\ q.exec = r.exec
                                 /\ q.lo \in Nat /\ q.hi \in Nat /\ q.lo < q.hi
                                 /\ q.lo <= r.hi /\ r.lo <= q.hi
  BY SMT DEF Touching, RangeSet, RangeRecord
<1>5. \A p, q \in left : p = q
  BY <1>4, SMT DEF Separate, RangeRecord
<1>6. \A p, q \in right : p = q
  BY <1>4, SMT DEF Separate, RangeRecord
<1> HIDE DEF left, right, ql, qr
<1>7. left \subseteq Touching(fr, r) /\ right \subseteq Touching(fr, r)
  BY DEF left, right
<1>8. mlo \in Nat /\ mhi \in Nat
  BY <1>2, <1>3, <1>4, <1>7 DEF RangeRecord
<1>9. m \in RangeRecord /\ m.exec = r.exec /\ m.lo = mlo /\ m.hi = mhi
  BY <1>1, <1>8 DEF RangeRecord
<1>10. mlo = r.lo \/ \E q \in Touching(fr, r) : q.lo = mlo /\ q.lo < r.lo
  BY <1>2, <1>7 DEF left
<1>11. mhi = r.hi \/ \E q \in Touching(fr, r) : q.hi = mhi /\ q.hi > r.hi
  BY <1>3, <1>7 DEF right
<1>12. ASSUME NEW q \in Touching(fr, r)
       PROVE  mlo <= q.lo /\ q.hi <= mhi
  <2>1. mlo <= q.lo
    <3>1. CASE q \in left
      <4>1. q = ql BY <3>1, <1>2, <1>5
      <4> QED BY <3>1, <4>1, <1>4, SMT
    <3>2. CASE q \notin left
      <4>1. r.lo <= q.lo BY <3>2, <1>4, SMT DEF left, RangeRecord
      <4> QED BY <4>1, <1>4, <1>8, <1>10, SMT DEF RangeRecord
    <3> QED BY <3>1, <3>2
  <2>2. q.hi <= mhi
    <3>1. CASE q \in right
      <4>1. q = qr BY <3>1, <1>3, <1>6
      <4> QED BY <3>1, <4>1, <1>4, SMT
    <3>2. CASE q \notin right
      <4>1. q.hi <= r.hi BY <3>2, <1>4, SMT DEF right, RangeRecord
      <4> QED BY <4>1, <1>4, <1>8, <1>11, SMT DEF RangeRecord
    <3> QED BY <3>1, <3>2
  <2> QED BY <2>1, <2>2
<1> QED
  BY <1>9, <1>10, <1>11, <1>12

\* vita_freerange_add_locked keeps the list a list of non-empty page-aligned
\* ranges.
LEMMA AddType ==
  ASSUME NEW fr, RangeSet(fr), Separate(fr), AllAligned(fr),
         NEW lo \in Nat, NEW hi \in Nat, NEW x \in BOOLEAN
  PROVE  RangeSet(Add(fr, lo, hi, x)) /\ AllAligned(Add(fr, lo, hi, x))
<1> DEFINE r == Snap(lo, hi, x)
           m == Merged(fr, r)
<1>1. r \in RangeRecord /\ Aligned(r.lo) /\ Aligned(r.hi)
  BY SnapProps
<1>2. Add(fr, lo, hi, x) = IF r.hi <= r.lo THEN fr ELSE (fr \ Touching(fr, r)) \cup {m}
  BY DEF Add
<1>3. CASE r.hi <= r.lo
  BY <1>2, <1>3
<1>4. CASE ~(r.hi <= r.lo)
  <2>1. r.lo < r.hi
    BY <1>1, <1>4, SMT DEF RangeRecord
  <2>2. /\ m \in RangeRecord
        /\ m.lo = r.lo \/ \E q \in Touching(fr, r) : q.lo = m.lo /\ q.lo < r.lo
        /\ m.hi = r.hi \/ \E q \in Touching(fr, r) : q.hi = m.hi /\ q.hi > r.hi
    BY <1>1, <2>1, MergedProps
  <2>3. Touching(fr, r) \subseteq fr
    BY DEF Touching
  <2> HIDE DEF m, r
  <2>4. m.lo < m.hi
    BY <1>1, <2>1, <2>2, SMT DEF RangeRecord
  <2>5. Aligned(m.lo) /\ Aligned(m.hi)
    BY <1>1, <2>2, <2>3 DEF AllAligned
  <2>6. Add(fr, lo, hi, x) = (fr \ Touching(fr, r)) \cup {m}
    BY <1>2, <1>4
  <2>7. RangeSet(Add(fr, lo, hi, x))
    BY <2>2, <2>4, <2>6 DEF RangeSet
  <2>8. AllAligned(Add(fr, lo, hi, x))
    BY <2>5, <2>6 DEF AllAligned
  <2> QED BY <2>7, <2>8
<1> QED
  BY <1>3, <1>4

\* Every unit on the list after vita_freerange_add_locked was on the list, or
\* in the range added, with the same kind.
LEMMA AddUnits ==
  ASSUME NEW fr, RangeSet(fr), Separate(fr),
         NEW lo \in Nat, NEW hi \in Nat, NEW x \in BOOLEAN,
         NEW q \in Add(fr, lo, hi, x), NEW u \in Int, In(u, q)
  PROVE  \/ lo <= u /\ u < hi /\ q.exec = x
         \/ \E p \in fr : In(u, p) /\ p.exec = q.exec
<1> DEFINE r == Snap(lo, hi, x)
           m == Merged(fr, r)
<1>1. r \in RangeRecord /\ r.exec = x /\ lo <= r.lo /\ r.hi <= hi
  BY SnapProps
<1>2. Add(fr, lo, hi, x) = IF r.hi <= r.lo THEN fr ELSE (fr \ Touching(fr, r)) \cup {m}
  BY DEF Add
<1>3. CASE q \in fr
  BY <1>3
<1>4. CASE q \notin fr
  <2>1. q = m /\ r.lo < r.hi
    BY <1>1, <1>2, <1>4, SMT DEF RangeRecord
  <2>2. /\ m \in RangeRecord
        /\ m.exec = r.exec
        /\ m.lo = r.lo \/ \E p \in Touching(fr, r) : p.lo = m.lo /\ p.lo < r.lo
        /\ m.hi = r.hi \/ \E p \in Touching(fr, r) : p.hi = m.hi /\ p.hi > r.hi
    BY <1>1, <2>1, MergedProps
  <2>3. \A p \in Touching(fr, r) : /\ p \in fr /\ p.exec = r.exec
                                   /\ p.lo \in Nat /\ p.hi \in Nat
                                   /\ p.lo <= r.hi /\ r.lo <= p.hi
    BY SMT DEF Touching, RangeSet, RangeRecord
  <2> HIDE DEF m, r
  <2>4. CASE In(u, r)
    BY <1>1, <2>1, <2>2, <2>4, SMT DEF In, RangeRecord
  <2>5. CASE u < r.lo
    <3>1. m.lo <= u /\ m.lo \in Nat /\ r.lo \in Nat
      BY <1>1, <2>1, <2>2 DEF In, RangeRecord
    <3>2. PICK p \in Touching(fr, r) : p.lo = m.lo
      BY <2>2, <2>5, <3>1, SMT
    <3>3. In(u, p)
      BY <2>3, <2>5, <3>1, <3>2, SMT DEF In
    <3> QED BY <2>1, <2>2, <2>3, <3>3
  <2>6. CASE r.hi <= u
    <3>1. u < m.hi /\ m.hi \in Nat /\ r.hi \in Nat
      BY <1>1, <2>1, <2>2 DEF In, RangeRecord
    <3>2. PICK p \in Touching(fr, r) : p.hi = m.hi
      BY <2>2, <2>6, <3>1, SMT
    <3>3. In(u, p)
      BY <2>3, <2>6, <3>1, <3>2, SMT DEF In
    <3> QED BY <2>1, <2>2, <2>3, <3>3
  <2> QED BY <1>1, <2>4, <2>5, <2>6, SMT DEF In, RangeRecord
<1> QED
  BY <1>3, <1>4

\* The list stays sorted, disjoint and fully merged, if what is added does not
\* overlap a range of the other kind.
LEMMA AddSeparate ==
  ASSUME NEW fr, RangeSet(fr), Separate(fr),
         NEW lo \in Nat, NEW hi \in Nat, NEW x \in BOOLEAN,
         \A q \in fr : q.exec # x => q.hi <= lo \/ hi <= q.lo
  PROVE  Separate(Add(fr, lo, hi, x))
<1> DEFINE r == Snap(lo, hi, x)
           m == Merged(fr, r)
<1>1. r \in RangeRecord /\ r.exec = x /\ lo <= r.lo /\ r.hi <= hi
  BY SnapProps
<1>2. Add(fr, lo, hi, x) = IF r.hi <= r.lo THEN fr ELSE (fr \ Touching(fr, r)) \cup {m}
  BY DEF Add
<1>3. CASE r.hi <= r.lo
  BY <1>2, <1>3
<1>4. CASE ~(r.hi <= r.lo)
  <2>1. r.lo < r.hi
    BY <1>1, <1>4, SMT DEF RangeRecord
  <2>2. /\ m \in RangeRecord
        /\ m.exec = r.exec
        /\ m.lo = r.lo \/ \E q \in Touching(fr, r) : q.lo = m.lo /\ q.lo < r.lo
        /\ m.hi = r.hi \/ \E q \in Touching(fr, r) : q.hi = m.hi /\ q.hi > r.hi
    BY <1>1, <2>1, MergedProps
  <2>3. \A q \in Touching(fr, r) : /\ q \in fr /\ q.exec = r.exec
                                   /\ q.lo <= r.hi /\ r.lo <= q.hi
    BY SMT DEF Touching
  <2>4. \A q \in fr \ Touching(fr, r) : q.exec = r.exec => q.lo > r.hi \/ r.lo > q.hi
    BY <1>1, SMT DEF Touching, RangeSet, RangeRecord
  <2>5. \A q \in fr : q.lo \in Nat /\ q.hi \in Nat /\ q.lo < q.hi /\ q.exec \in BOOLEAN
    BY DEF RangeSet, RangeRecord
  <2> HIDE DEF m, r
  <2>6. r.lo \in Nat /\ r.hi \in Nat /\ m.lo \in Nat /\ m.hi \in Nat
    BY <1>1, <2>2 DEF RangeRecord
  <2>7. ASSUME NEW q \in fr \ Touching(fr, r), q.exec = m.exec
        PROVE  m.hi < q.lo \/ q.hi < m.lo
    <3>1. CASE q.lo > r.hi
      <4>1. m.hi < q.lo
        BY <2>2, <2>3, <2>5, <2>6, <2>7, <3>1, SMT DEF Separate
      <4> QED BY <4>1
    <3>2. CASE r.lo > q.hi
      <4>1. q.hi < m.lo
        BY <2>2, <2>3, <2>5, <2>6, <2>7, <3>2, SMT DEF Separate
      <4> QED BY <4>1
    <3> QED BY <2>2, <2>4, <2>7, <3>1, <3>2
  <2>8. ASSUME NEW q \in fr, q.exec # m.exec
        PROVE  m.hi <= q.lo \/ q.hi <= m.lo
    <3>1. CASE q.lo >= r.hi
      <4>1. m.hi <= q.lo
        BY <2>2, <2>3, <2>5, <2>6, <2>8, <3>1, SMT DEF Separate
      <4> QED BY <4>1
    <3>2. CASE r.lo >= q.hi
      <4>1. q.hi <= m.lo
        BY <2>2, <2>3, <2>5, <2>6, <2>8, <3>2, SMT DEF Separate
      <4> QED BY <4>1
    <3> QED BY <1>1, <2>2, <2>5, <2>6, <2>8, <3>1, <3>2, SMT
  <2>9. Add(fr, lo, hi, x) = (fr \ Touching(fr, r)) \cup {m}
    BY <1>2, <1>4
  <2>10. SUFFICES ASSUME NEW p \in (fr \ Touching(fr, r)) \cup {m},
                         NEW q \in (fr \ Touching(fr, r)) \cup {m}, p # q
                  PROVE  IF p.exec = q.exec THEN p.hi < q.lo \/ q.hi < p.lo
                                            ELSE p.hi <= q.lo \/ q.hi <= p.lo
    BY <2>9 DEF Separate
  <2>11. CASE p = m
    BY <2>7, <2>8, <2>10, <2>11
  <2>12. CASE q = m
    BY <2>7, <2>8, <2>10, <2>12
  <2>13. CASE p # m /\ q # m
    BY <2>10, <2>13 DEF Separate
  <2> QED BY <2>11, <2>12, <2>13
<1> QED
  BY <1>3, <1>4

-----------------------------------------------------------------------------
\* What stays on the list when len units are cut off the front of r was there,
\* and none of it is in the piece cut off.
LEMMA CarveProps ==
  ASSUME NEW fr, RangeSet(fr), Separate(fr), AllAligned(fr),
         NEW r \in fr, NEW len \in Nat \ {0}, Aligned(len), len <= r.hi - r.lo
  PROVE  /\ RangeSet(Carve(fr, r, len))
         /\ AllAligned(Carve(fr, r, len))
         /\ Separate(Carve(fr, r, len))
         /\ \A q \in Carve(fr, r, len) :
              /\ q.hi <= r.lo \/ r.lo + len <= q.lo
              /\ \E p \in fr : p.exec = q.exec /\ p.lo <= q.lo /\ q.hi <= p.hi
<1> DEFINE rest == [lo |-> r.lo + len, hi |-> r.hi, exec |-> r.exec]
<1>1. r.lo \in Nat /\ r.hi \in Nat /\ r.exec \in BOOLEAN /\ r.lo < r.hi
  BY DEF RangeSet, RangeRecord
<1>2. [r EXCEPT !.lo = @ + len] = rest
  BY DEF RangeSet, RangeRecord
<1>3. Carve(fr, r, len) = (fr \ {r}) \cup (IF r.hi - r.lo = len THEN {} ELSE {rest})
  BY <1>2 DEF Carve
<1>4. Aligned(r.lo + len) /\ Aligned(r.hi)
  <2>1. r.lo \in Int /\ len \in Int
    BY <1>1, SMT
  <2>2. Aligned(r.lo) /\ Aligned(r.hi)
    BY DEF AllAligned
  <2> QED BY <2>1, <2>2, AlignedSum
<1>5. /\ r.hi - r.lo # len => r.lo + len < r.hi
      /\ r.lo + len \in Nat
      /\ r.lo <= r.lo + len
  BY <1>1, SMT
<1>6. /\ rest \in RangeRecord
      /\ rest.lo = r.lo + len /\ rest.hi = r.hi /\ rest.exec = r.exec
  BY <1>1, <1>5 DEF RangeRecord
<1> HIDE DEF rest
<1>7. \A q \in Carve(fr, r, len) : q \in fr \ {r} \/ (q = rest /\ r.hi - r.lo # len)
  BY <1>3
<1>8. RangeSet(Carve(fr, r, len))
  BY <1>5, <1>6, <1>7 DEF RangeSet
<1>9. AllAligned(Carve(fr, r, len))
  BY <1>4, <1>6, <1>7 DEF AllAligned
<1>10. \A q \in fr : q.lo \in Nat /\ q.hi \in Nat /\ q.lo < q.hi
  BY DEF RangeSet, RangeRecord
<1>11. \A q \in fr : q # r => IF q.exec = r.exec THEN r.hi < q.lo \/ q.hi < r.lo
                                               ELSE r.hi <= q.lo \/ q.hi <= r.lo
  BY DEF Separate
<1>12. Separate(Carve(fr, r, len))
  <2>1. SUFFICES ASSUME NEW p \in Carve(fr, r, len), NEW q \in Carve(fr, r, len), p # q
                 PROVE  IF p.exec = q.exec THEN p.hi < q.lo \/ q.hi < p.lo
                                           ELSE p.hi <= q.lo \/ q.hi <= p.lo
    BY DEF Separate
  <2>2. CASE p = rest
    BY <1>1, <1>5, <1>6, <1>7, <1>10, <1>11, <2>1, <2>2, SMT
  <2>3. CASE q = rest
    BY <1>1, <1>5, <1>6, <1>7, <1>10, <1>11, <2>1, <2>3, SMT
  <2>4. CASE p # rest /\ q # rest
    BY <1>7, <2>1, <2>4 DEF Separate
  <2> QED BY <2>2, <2>3, <2>4
<1>13. ASSUME NEW q \in Carve(fr, r, len)
       PROVE  /\ q.hi <= r.lo \/ r.lo + len <= q.lo
              /\ \E p \in fr : p.exec = q.exec /\ p.lo <= q.lo /\ q.hi <= p.hi
  <2>1. CASE q = rest
    BY <1>1, <1>5, <1>6, <2>1, SMT
  <2>2. CASE q \in fr \ {r}
    <3>1. r.hi <= q.lo \/ q.hi <= r.lo
      BY <1>1, <1>10, <1>11, <2>2, SMT
    <3>2. q.lo \in Nat /\ q.hi \in Nat
      BY <1>10, <2>2
    <3>3. q.hi <= r.lo \/ r.lo + len <= q.lo
      BY <1>1, <3>1, <3>2, SMT
    <3> QED BY <2>2, <3>2, <3>3, SMT
  <2> QED BY <1>7, <2>1, <2>2
<1> QED
  BY <1>8, <1>9, <1>12, <1>13

\* After the purge in munmap no range on the list overlaps the released block.
LEMMA PurgeProps ==
  ASSUME NEW fr, RangeSet(fr), NEW lo \in Nat, NEW hi \in Nat, lo < hi
  PROVE  /\ Purge(fr, lo, hi) \subseteq fr
         /\ \A q \in Purge(fr, lo, hi) : q.hi <= lo \/ hi <= q.lo
  BY SMT DEF Purge, RangeSet, RangeRecord
=============================================================================
