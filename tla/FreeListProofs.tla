---------------------------- MODULE FreeListProofs -----------------------------
(* Proofs that the list implements the set of free ranges, for every page     *)
(* size, address space and length of the list.                                *)
EXTENDS FreeList, FreeRangesProofs, WellFoundedInduction, TLAPS

Lists == Seq(RangeRecord)

\* q comes behind p, and does not touch it when they are of one kind.
Below(p, q) == p.hi <= q.lo /\ (p.exec = q.exec => p.hi < q.lo)

\* Ranges that are not empty, by address, without neighbours to be joined.
Tidy(s) == /\ s \in Lists /\ RangeSet(ToSet(s))
           /\ \A i, j \in 1 .. Len(s) : i < j => Below(s[i], s[j])

IInv == Tidy(list) /\ AllAligned(ToSet(list))

-----------------------------------------------------------------------------
(* Walks *)

\* A set of numbers that is not empty has a least one.
LEMMA LeastOf ==
  ASSUME NEW I \in SUBSET Nat, I # {}
  PROVE  \E k \in I : \A j \in I : k <= j
<1> DEFINE R == OpToRel(<, Nat)
<1>1. \A x, y \in Nat : x < y => <<x, y>> \in R
  BY SMT DEF OpToRel
<1>2. \E k \in I : \A j \in I : ~(<<j, k>> \in R)
  <2>1. IsWellFoundedOn(R, Nat)
    BY NatLessThanWellFounded
  <2> HIDE DEF R
  <2> QED
    BY <2>1, WFMin
<1> HIDE DEF R
<1>3. PICK k \in I : \A j \in I : ~(<<j, k>> \in R)
  BY <1>2
<1>4. \A j \in I : ~(j < k)
  BY <1>1, <1>3
<1> QED
  BY <1>4

\* What holds at 0 and passes from each number to the next holds up to n.
LEMMA UpTo ==
  ASSUME NEW n \in Nat, NEW T, 0 \in T, \A i \in 1 .. n : i - 1 \in T => i \in T
  PROVE  \A i \in 0 .. n : i \in T
<1> SUFFICES ASSUME (0 .. n) \ T # {} PROVE FALSE
  OBVIOUS
<1>1. (0 .. n) \ T \in SUBSET Nat
  OBVIOUS
<1>2. PICK k \in (0 .. n) \ T : \A j \in (0 .. n) \ T : k <= j
  BY <1>1, LeastOf
<1>3. k \in 1 .. n /\ k - 1 \in 0 .. n /\ ~(k <= k - 1)
  BY <1>2
<1>4. k - 1 \in T
  BY <1>2, <1>3
<1> QED
  BY <1>2, <1>3, <1>4

\* A walk of m steps starts with b; step i goes on with what g gives.
Walk(f, m, b, g) == f[0] = b /\ \A i \in 1 .. m : f[i] = g[i][f[i - 1]]
CanWalk(m, S, b, g) == \E f \in [0 .. m -> S] : Walk(f, m, b, g)

\* There is a walk of every length.
LEMMA WalkExists ==
  ASSUME NEW n \in Nat, NEW S, NEW b \in S, NEW g \in [1 .. n -> [S -> S]]
  PROVE  CanWalk(n, S, b, g)
<1> DEFINE T == {m \in 0 .. n : CanWalk(m, S, b, g)}
<1>1. 0 \in T
  <2> DEFINE z == [i \in 0 .. 0 |-> b]
  <2>1. z \in [0 .. 0 -> S] /\ z[0] = b
    OBVIOUS
  <2> HIDE DEF z
  <2>2. Walk(z, 0, b, g)
    BY <2>1 DEF Walk
  <2>3. CanWalk(0, S, b, g)
    BY <2>1, <2>2 DEF CanWalk
  <2> QED
    BY <2>3
<1>2. ASSUME NEW m \in 1 .. n, m - 1 \in T PROVE m \in T
  <2>1. PICK f \in [0 .. (m - 1) -> S] : Walk(f, m - 1, b, g)
    BY <1>2 DEF CanWalk
  <2> DEFINE e == g[m][f[m - 1]] h == [i \in 0 .. m |-> IF i = m THEN e ELSE f[i]]
  <2>2. e \in S
    BY <2>1
  <2>3. h \in [0 .. m -> S] /\ h[0] = b /\ h[m] = e /\ \A i \in 0 .. (m - 1) : h[i] = f[i]
    BY <2>1, <2>2 DEF Walk
  <2> HIDE DEF h
  <2>4. ASSUME NEW i \in 1 .. m PROVE h[i] = g[i][h[i - 1]]
    <3>1. CASE i = m
      <4>1. m - 1 \in 0 .. (m - 1)
        OBVIOUS
      <4>2. h[m - 1] = f[m - 1]
        BY <2>3, <4>1
      <4> QED
        BY <2>3, <3>1, <4>2
    <3>2. CASE i # m
      <4>1. i \in 1 .. (m - 1) /\ i \in 0 .. (m - 1) /\ i - 1 \in 0 .. (m - 1)
        BY <3>2
      <4> QED
        BY <2>1, <2>3, <4>1 DEF Walk
    <3> QED
      BY <3>1, <3>2
  <2>5. CanWalk(m, S, b, g)
    BY <2>3, <2>4 DEF CanWalk, Walk
  <2> QED
    BY <2>5
<1> HIDE DEF T
<1>3. n \in T
  <2>1. \A i \in 1 .. n : i - 1 \in T => i \in T
    BY <1>2
  <2>2. \A i \in 0 .. n : i \in T
    BY <1>1, <2>1, UpTo
  <2> QED
    BY <2>2
<1> QED
  BY <1>3 DEF T

\* A step of the merging pass leaves a list.
LEMMA WalkedType ==
  ASSUME NEW d \in Lists, NEW r \in RangeRecord
  PROVE  Walked(d, r) \in Lists
<1>1. Append(d, r) \in Lists
  BY DEF Lists
<1>2. ASSUME d # <<>> PROVE ReplaceAt(d, Len(d), Glue(Last(d), r)) \in Lists
  <2>1. Len(d) \in 1 .. Len(d) /\ Last(d) \in RangeRecord
    BY <1>2 DEF Lists, Last
  <2>2. Glue(Last(d), r) \in RangeRecord
    BY <2>1 DEF Glue, RangeRecord
  <2> QED
    BY <2>1, <2>2 DEF Lists, ReplaceAt
<1> QED
  BY <1>1, <1>2 DEF Walked

\* The merging pass takes its steps from the empty list on.
LEMMA MergePassWalks ==
  ASSUME NEW s \in Lists
  PROVE  \E p \in [0 .. Len(s) -> Lists] :
           /\ p[0] = <<>> /\ \A i \in 1 .. Len(s) : p[i] = Walked(p[i - 1], s[i])
           /\ MergePass(s) = p[Len(s)]
<1> DEFINE n == Len(s)
           Eq(q) == q = [i \in 0 .. n |-> IF i = 0 THEN <<>> ELSE Walked(q[i - 1], s[i])]
           g == [i \in 1 .. n |-> [d \in Lists |-> Walked(d, s[i])]]
<1>1. n \in Nat /\ <<>> \in Lists /\ \A i \in 1 .. n : s[i] \in RangeRecord
  BY DEF Lists
<1>2. g \in [1 .. n -> [Lists -> Lists]]
  BY <1>1, WalkedType
<1>3. \A i \in 1 .. n, d \in Lists : g[i][d] = Walked(d, s[i])
  OBVIOUS
<1> HIDE DEF g, n
<1>4. PICK f \in [0 .. n -> Lists] : f[0] = <<>> /\ \A i \in 1 .. n : f[i] = g[i][f[i - 1]]
  <2>1. CanWalk(n, Lists, <<>>, g)
    BY <1>1, <1>2, WalkExists
  <2> QED
    BY <2>1 DEF CanWalk, Walk
<1>5. ASSUME NEW i \in 1 .. n PROVE i \in 0 .. n /\ i - 1 \in 0 .. n /\ i # 0
  BY <1>1
<1>6. Eq(f)
  <2>1. \A i \in 0 .. n : f[i] = IF i = 0 THEN <<>> ELSE Walked(f[i - 1], s[i])
    <3> SUFFICES ASSUME NEW i \in 0 .. n, i # 0 PROVE f[i] = Walked(f[i - 1], s[i])
      BY <1>4
    <3>1. i \in 1 .. n
      BY <1>1
    <3>2. f[i - 1] \in Lists
      BY <1>4, <1>5, <3>1
    <3> QED
      BY <1>3, <1>4, <3>1, <3>2
  <2> QED
    BY <1>4, <2>1
<1> DEFINE p == CHOOSE q : Eq(q)
<1>7. Eq(p)
  BY <1>6
<1>8. MergePass(s) = p[n]
  BY DEF MergePass, n
<1> HIDE DEF p
<1>9. p[0] = <<>> /\ \A i \in 1 .. n : p[i] = Walked(p[i - 1], s[i])
  BY <1>1, <1>5, <1>7
<1>10. \A i \in 0 .. n : p[i] \in Lists
  <2> DEFINE T == {i \in 0 .. n : p[i] \in Lists}
  <2>1. 0 \in T
    BY <1>1, <1>9
  <2>2. \A i \in 1 .. n : i - 1 \in T => i \in T
    BY <1>1, <1>5, <1>9, WalkedType
  <2> HIDE DEF T
  <2>3. \A i \in 0 .. n : i \in T
    BY <1>1, <2>1, <2>2, UpTo
  <2> QED
    BY <2>3 DEF T
<1>11. p \in [0 .. n -> Lists]
  BY <1>7, <1>10
<1> QED
  BY <1>8, <1>9, <1>11 DEF n

\* The walk of munmap likewise.
LEMMA PurgeWalks ==
  ASSUME NEW s \in Lists, NEW lo \in Nat, NEW hi \in Nat
  PROVE  \E p \in [0 .. Len(s) -> Lists] :
           /\ p[0] = <<>> /\ \A i \in 1 .. Len(s) : p[i] = Passed(p[i - 1], s[i], lo, hi)
           /\ ListPurge(s, lo, hi) = p[Len(s)]
<1> DEFINE n == Len(s)
           Eq(q) == q = [i \in 0 .. n |-> IF i = 0 THEN <<>> ELSE Passed(q[i - 1], s[i], lo, hi)]
           g == [i \in 1 .. n |-> [d \in Lists |-> Passed(d, s[i], lo, hi)]]
<1>1. n \in Nat /\ <<>> \in Lists /\ \A i \in 1 .. n : s[i] \in RangeRecord
  BY DEF Lists
<1>2. \A d \in Lists, r \in RangeRecord : Passed(d, r, lo, hi) \in Lists
  BY DEF Passed, Lists
<1>3. g \in [1 .. n -> [Lists -> Lists]]
  BY <1>1, <1>2
<1>4. \A i \in 1 .. n, d \in Lists : g[i][d] = Passed(d, s[i], lo, hi)
  OBVIOUS
<1> HIDE DEF g, n
<1>5. PICK f \in [0 .. n -> Lists] : f[0] = <<>> /\ \A i \in 1 .. n : f[i] = g[i][f[i - 1]]
  <2>1. CanWalk(n, Lists, <<>>, g)
    BY <1>1, <1>3, WalkExists
  <2> QED
    BY <2>1 DEF CanWalk, Walk
<1>6. ASSUME NEW i \in 1 .. n PROVE i \in 0 .. n /\ i - 1 \in 0 .. n /\ i # 0
  BY <1>1
<1>7. Eq(f)
  <2>1. \A i \in 0 .. n : f[i] = IF i = 0 THEN <<>> ELSE Passed(f[i - 1], s[i], lo, hi)
    <3> SUFFICES ASSUME NEW i \in 0 .. n, i # 0 PROVE f[i] = Passed(f[i - 1], s[i], lo, hi)
      BY <1>5
    <3>1. i \in 1 .. n
      BY <1>1
    <3>2. f[i - 1] \in Lists
      BY <1>5, <1>6, <3>1
    <3> QED
      BY <1>4, <1>5, <3>1, <3>2
  <2> QED
    BY <1>5, <2>1
<1> DEFINE p == CHOOSE q : Eq(q)
<1>8. Eq(p)
  BY <1>7
<1>9. ListPurge(s, lo, hi) = p[n]
  BY DEF ListPurge, n
<1> HIDE DEF p
<1>10. p[0] = <<>> /\ \A i \in 1 .. n : p[i] = Passed(p[i - 1], s[i], lo, hi)
  BY <1>1, <1>6, <1>8
<1>11. \A i \in 0 .. n : p[i] \in Lists
  <2> DEFINE T == {i \in 0 .. n : p[i] \in Lists}
  <2>1. 0 \in T
    BY <1>1, <1>10
  <2>2. \A i \in 1 .. n : i - 1 \in T => i \in T
    BY <1>1, <1>2, <1>6, <1>10
  <2> HIDE DEF T
  <2>3. \A i \in 0 .. n : i \in T
    BY <1>1, <2>1, <2>2, UpTo
  <2> QED
    BY <2>3 DEF T
<1>12. p \in [0 .. n -> Lists]
  BY <1>8, <1>11
<1> QED
  BY <1>9, <1>10, <1>12 DEF n

-----------------------------------------------------------------------------
(* Ranges, one behind the other *)

\* What the set has when r is added to it.
AddTo(fr, r) == (fr \ Touching(fr, r)) \cup {Merged(fr, r)}

NonEmpty(r) == r \in RangeRecord /\ r.lo < r.hi

\* r overlaps no range of the other kind.
KindsApart(fr, r) == \A q \in fr : q.exec # r.exec => q.hi <= r.lo \/ r.hi <= q.lo

\* What Merged gives, without its choices.
LEMMA MergedIs ==
  ASSUME NEW fr, RangeSet(fr), Separate(fr), NEW r, NonEmpty(r)
  PROVE  LET m == Merged(fr, r)
         IN /\ NonEmpty(m) /\ m.exec = r.exec /\ m.lo <= r.lo /\ r.hi <= m.hi
            /\ m.lo = r.lo \/ \E q \in Touching(fr, r) : q.lo = m.lo
            /\ m.hi = r.hi \/ \E q \in Touching(fr, r) : q.hi = m.hi /\ q.hi > r.hi
            /\ \A q \in Touching(fr, r) : m.lo <= q.lo /\ q.hi <= m.hi
<1> DEFINE m == Merged(fr, r)
<1>1. /\ m \in RangeRecord
      /\ m.exec = r.exec
      /\ m.lo = r.lo \/ \E q \in Touching(fr, r) : q.lo = m.lo /\ q.lo < r.lo
      /\ m.hi = r.hi \/ \E q \in Touching(fr, r) : q.hi = m.hi /\ q.hi > r.hi
      /\ \A q \in Touching(fr, r) : m.lo <= q.lo /\ q.hi <= m.hi
  BY MergedProps DEF NonEmpty
<1> HIDE DEF m
<1>2. m.lo \in Nat /\ m.hi \in Nat /\ r.lo \in Nat /\ r.hi \in Nat /\ r.lo < r.hi
  BY <1>1 DEF RangeRecord, NonEmpty
<1>3. m.lo <= r.lo /\ r.hi <= m.hi
  BY <1>1, <1>2
<1> QED
  BY <1>1, <1>2, <1>3 DEF NonEmpty, m

\* A range that is given by its ends.
LEMMA SameRange ==
  ASSUME NEW p \in RangeRecord, NEW q \in RangeRecord, p.lo = q.lo, p.hi = q.hi, p.exec = q.exec
  PROVE  p = q
BY DEF RangeRecord

\* It depends on what r touches, no more.
LEMMA MergedSame ==
  ASSUME NEW f, RangeSet(f), Separate(f), NEW g, RangeSet(g), Separate(g), NEW r, NonEmpty(r),
         Touching(f, r) = Touching(g, r)
  PROVE  Merged(f, r) = Merged(g, r)
<1> DEFINE m == Merged(f, r) n == Merged(g, r)
<1>1. /\ NonEmpty(m) /\ m.exec = r.exec /\ m.lo <= r.lo /\ r.hi <= m.hi
      /\ m.lo = r.lo \/ \E q \in Touching(f, r) : q.lo = m.lo
      /\ m.hi = r.hi \/ \E q \in Touching(f, r) : q.hi = m.hi /\ q.hi > r.hi
      /\ \A q \in Touching(f, r) : m.lo <= q.lo /\ q.hi <= m.hi
  BY MergedIs
<1>2. /\ NonEmpty(n) /\ n.exec = r.exec /\ n.lo <= r.lo /\ r.hi <= n.hi
      /\ n.lo = r.lo \/ \E q \in Touching(f, r) : q.lo = n.lo
      /\ n.hi = r.hi \/ \E q \in Touching(f, r) : q.hi = n.hi /\ q.hi > r.hi
      /\ \A q \in Touching(f, r) : n.lo <= q.lo /\ q.hi <= n.hi
  BY MergedIs
<1> HIDE DEF m, n
<1>3. /\ r.lo \in Nat /\ r.hi \in Nat /\ m.lo \in Nat /\ m.hi \in Nat /\ n.lo \in Nat /\ n.hi \in Nat
      /\ m \in RangeRecord /\ n \in RangeRecord
  BY <1>1, <1>2 DEF NonEmpty, RangeRecord
<1>4. m.lo <= n.lo /\ n.lo <= m.lo /\ m.hi <= n.hi /\ n.hi <= m.hi
  BY <1>1, <1>2
<1>5. m.lo = n.lo /\ m.hi = n.hi /\ m.exec = n.exec
  BY <1>1, <1>2, <1>3, <1>4
<1>6. m = n
  BY <1>3, <1>5, SameRange
<1> QED
  BY <1>6 DEF m, n

\* Ranges stay apart with one more behind them.
LEMMA WithNext ==
  ASSUME NEW fr, RangeSet(fr), Separate(fr), NEW next, NonEmpty(next), \A q \in fr : Below(q, next)
  PROVE  RangeSet(fr \cup {next}) /\ Separate(fr \cup {next}) /\ next \notin fr
<1>1. \A q \in fr : q.hi <= next.lo /\ (q.exec = next.exec => q.hi < next.lo)
  BY DEF Below
<1>2. RangeSet(fr \cup {next})
  BY DEF RangeSet, NonEmpty
<1>3. Separate(fr \cup {next})
  <2> SUFFICES ASSUME NEW q \in fr \cup {next}, NEW p \in fr \cup {next}, q # p
               PROVE  IF q.exec = p.exec THEN q.hi < p.lo \/ p.hi < q.lo
                                         ELSE q.hi <= p.lo \/ p.hi <= q.lo
    BY DEF Separate
  <2>1. CASE q \in fr /\ p \in fr
    BY <2>1 DEF Separate
  <2>2. CASE q = next \/ p = next
    BY <1>1, <2>2
  <2> QED
    BY <2>1, <2>2
<1>4. next \notin fr
  BY <1>1 DEF NonEmpty, RangeRecord
<1> QED
  BY <1>2, <1>3, <1>4

\* Glue gives the longer end.
LEMMA GlueIs ==
  ASSUME NEW p, NonEmpty(p), NEW q, NonEmpty(q)
  PROVE  LET g == Glue(p, q)
         IN  /\ g \in RangeRecord /\ NonEmpty(g) /\ g.lo = p.lo /\ g.exec = p.exec
             /\ g.hi = IF q.hi > p.hi THEN q.hi ELSE p.hi
BY DEF Glue, NonEmpty, RangeRecord

\* Behind the ranges so far comes one that touches r: r has then swallowed all
\* it touches, is the last, and joins.
LEMMA NextTouches ==
  ASSUME NEW fr, RangeSet(fr), Separate(fr), NEW r, NonEmpty(r), NEW next, NonEmpty(next),
         \A q \in fr : Below(q, next), KindsApart(fr, r),
         r.lo <= next.lo, next.exec = r.exec, next.lo <= r.hi
  PROVE  LET m == Merged(fr, r)
         IN  /\ Touching(fr \cup {next}, r) = Touching(fr, r) \cup {next}
             /\ m.hi = r.hi /\ next.lo <= m.hi /\ NonEmpty(m) /\ m.exec = r.exec
             /\ \A q \in fr \ Touching(fr, r) : Below(q, m)
<1> DEFINE m == Merged(fr, r)
<1>1. /\ NonEmpty(m) /\ m.exec = r.exec /\ m.lo <= r.lo /\ r.hi <= m.hi
      /\ m.lo = r.lo \/ \E q \in Touching(fr, r) : q.lo = m.lo
      /\ m.hi = r.hi \/ \E q \in Touching(fr, r) : q.hi = m.hi /\ q.hi > r.hi
  BY MergedIs
<1> HIDE DEF m
<1>2. /\ r.lo \in Nat /\ r.hi \in Nat /\ r.lo < r.hi /\ next.lo \in Nat /\ next.hi \in Nat
      /\ next.lo < next.hi /\ m.lo \in Nat /\ m.hi \in Nat /\ m.lo < m.hi
      /\ \A q \in fr : q.lo \in Nat /\ q.hi \in Nat /\ q.lo < q.hi
  BY <1>1 DEF NonEmpty, RangeRecord, RangeSet
<1>3. Touching(fr \cup {next}, r) = Touching(fr, r) \cup {next}
  BY <1>2 DEF Touching
<1>4. \A q \in fr : q.hi <= next.lo
  BY DEF Below
<1>5. m.hi = r.hi
  BY <1>1, <1>2, <1>4 DEF Touching
<1>6. ASSUME NEW q \in fr \ Touching(fr, r) PROVE Below(q, m)
  <2>1. q.hi <= r.lo /\ (q.exec = r.exec => q.hi < r.lo)
    <3>1. q.lo < r.hi
      BY <1>2, <1>4
    <3> QED
      BY <1>2, <3>1 DEF KindsApart, Touching
  <2>2. ASSUME NEW p \in Touching(fr, r), p.lo = m.lo PROVE Below(q, m)
    <3>1. p \in fr /\ p # q /\ p.exec = r.exec /\ r.lo <= p.hi
      BY <1>6, <2>2 DEF Touching
    <3>2. q.lo < p.hi
      BY <1>2, <2>1, <3>1
    <3>3. q.hi <= p.lo /\ (q.exec = p.exec => q.hi < p.lo)
      BY <1>2, <3>1, <3>2 DEF Separate
    <3> QED
      BY <1>1, <2>2, <3>1, <3>3 DEF Below
  <2> QED
    BY <1>1, <2>1, <2>2 DEF Below
<1> QED
  BY <1>1, <1>2, <1>3, <1>5, <1>6 DEF m

\* ... or one that does not: it is behind all of them, r included.
LEMMA NextApart ==
  ASSUME NEW fr, RangeSet(fr), Separate(fr), NEW r, NonEmpty(r), NEW next, NonEmpty(next),
         \A q \in fr : Below(q, next), KindsApart({next}, r),
         r.lo <= next.lo, ~(next.exec = r.exec /\ next.lo <= r.hi)
  PROVE  /\ Touching(fr \cup {next}, r) = Touching(fr, r)
         /\ Merged(fr \cup {next}, r) = Merged(fr, r)
         /\ NonEmpty(Merged(fr, r)) /\ Below(Merged(fr, r), next)
<1> DEFINE m == Merged(fr, r)
<1>1. /\ NonEmpty(m) /\ m.exec = r.exec /\ m.lo <= r.lo /\ r.hi <= m.hi
      /\ m.hi = r.hi \/ \E q \in Touching(fr, r) : q.hi = m.hi /\ q.hi > r.hi
  BY MergedIs
<1>2. Touching(fr \cup {next}, r) = Touching(fr, r)
  BY DEF Touching
<1>3. Merged(fr \cup {next}, r) = m
  <2>1. RangeSet(fr \cup {next}) /\ Separate(fr \cup {next})
    BY WithNext
  <2> QED
    BY <1>2, <2>1, MergedSame
<1> HIDE DEF m
<1>4. /\ r.lo \in Nat /\ r.hi \in Nat /\ r.lo < r.hi /\ next.lo \in Nat /\ next.hi \in Nat
      /\ next.lo < next.hi /\ m.lo \in Nat /\ m.hi \in Nat
  BY <1>1 DEF NonEmpty, RangeRecord
<1>5. r.hi <= next.lo /\ (next.exec = r.exec => r.hi < next.lo)
  BY <1>4 DEF KindsApart
<1>6. \A q \in Touching(fr, r) : q.hi <= next.lo /\ (next.exec = r.exec => q.hi < next.lo)
  BY DEF Touching, Below
<1>7. Below(m, next)
  BY <1>1, <1>4, <1>5, <1>6 DEF Below
<1> QED
  BY <1>1, <1>2, <1>3, <1>7 DEF m

\* When it joins, the pass leaves what Merged says.
LEMMA NextMerged ==
  ASSUME NEW fr, RangeSet(fr), Separate(fr), NEW r, NonEmpty(r), NEW next, NonEmpty(next),
         \A q \in fr : Below(q, next), KindsApart(fr, r),
         r.lo <= next.lo, next.exec = r.exec, next.lo <= r.hi
  PROVE  Merged(fr \cup {next}, r) = Glue(Merged(fr, r), next)
<1> DEFINE m == Merged(fr, r) n == Merged(fr \cup {next}, r) g == Glue(m, next)
<1>1. /\ Touching(fr \cup {next}, r) = Touching(fr, r) \cup {next}
      /\ m.hi = r.hi /\ NonEmpty(m) /\ m.exec = r.exec
  BY NextTouches
<1>2. /\ NonEmpty(m) /\ m.lo <= r.lo
      /\ m.lo = r.lo \/ \E q \in Touching(fr, r) : q.lo = m.lo
      /\ \A q \in Touching(fr, r) : m.lo <= q.lo /\ q.hi <= m.hi
  BY MergedIs
<1>3. RangeSet(fr \cup {next}) /\ Separate(fr \cup {next})
  BY WithNext
<1>4. /\ NonEmpty(n) /\ n.exec = r.exec /\ n.lo <= r.lo /\ r.hi <= n.hi
      /\ n.lo = r.lo \/ \E q \in Touching(fr \cup {next}, r) : q.lo = n.lo
      /\ n.hi = r.hi \/ \E q \in Touching(fr \cup {next}, r) : q.hi = n.hi /\ q.hi > r.hi
      /\ \A q \in Touching(fr \cup {next}, r) : n.lo <= q.lo /\ q.hi <= n.hi
  BY <1>3, MergedIs
<1>5. /\ NonEmpty(g) /\ g.lo = m.lo /\ g.exec = m.exec
      /\ g.hi = IF next.hi > m.hi THEN next.hi ELSE m.hi
  BY <1>1, GlueIs
<1> HIDE DEF m, n, g
<1>6. /\ r.lo \in Nat /\ r.hi \in Nat /\ m.lo \in Nat /\ m.hi \in Nat /\ n.lo \in Nat /\ n.hi \in Nat
      /\ next.lo \in Nat /\ next.hi \in Nat /\ g.lo \in Nat /\ g.hi \in Nat
      /\ n \in RangeRecord /\ g \in RangeRecord
  BY <1>2, <1>4, <1>5 DEF NonEmpty, RangeRecord
<1>7. /\ n.lo = r.lo \/ n.lo = next.lo \/ \E q \in Touching(fr, r) : q.lo = n.lo
      /\ n.hi = r.hi \/ n.hi = next.hi \/ \E q \in Touching(fr, r) : q.hi = n.hi
      /\ n.lo <= next.lo /\ next.hi <= n.hi
      /\ \A q \in Touching(fr, r) : n.lo <= q.lo /\ q.hi <= n.hi
  BY <1>1, <1>4
<1>8. n.lo <= m.lo /\ m.lo <= n.lo
  BY <1>2, <1>4, <1>6, <1>7
<1>9. n.hi <= g.hi /\ g.hi <= n.hi
  BY <1>1, <1>2, <1>4, <1>5, <1>6, <1>7
<1>10. n = g
  <2>1. n.lo = g.lo /\ n.hi = g.hi /\ n.exec = g.exec
    BY <1>1, <1>4, <1>5, <1>6, <1>8, <1>9
  <2> QED
    BY <1>6, <2>1, SameRange
<1> QED
  BY <1>10 DEF m, n, g

\* Nothing but the last of the ranges that start below r can touch r.
LEMMA LastTouches ==
  ASSUME NEW fr, RangeSet(fr), Separate(fr), NEW r, NonEmpty(r), KindsApart(fr, r),
         \A q \in fr : q.lo < r.lo, NEW l \in fr, \A q \in fr \ {l} : Below(q, l)
  PROVE  IF Joins(l, r)
         THEN Touching(fr, r) = {l} /\ Merged(fr, r) = Glue(l, r)
         ELSE /\ Touching(fr, r) = {} /\ Merged(fr, r) = r
              /\ \A q \in fr : Below(q, r)
<1> DEFINE m == Merged(fr, r) g == Glue(l, r)
<1>1. /\ r.lo \in Nat /\ r.hi \in Nat /\ r.lo < r.hi /\ r \in RangeRecord /\ NonEmpty(l)
      /\ \A q \in fr : q.lo \in Nat /\ q.hi \in Nat /\ q.lo < q.hi
  BY DEF NonEmpty, RangeRecord, RangeSet
<1>2. /\ NonEmpty(m) /\ m.exec = r.exec /\ m.lo <= r.lo /\ r.hi <= m.hi
      /\ m.lo = r.lo \/ \E q \in Touching(fr, r) : q.lo = m.lo
      /\ m.hi = r.hi \/ \E q \in Touching(fr, r) : q.hi = m.hi /\ q.hi > r.hi
      /\ \A q \in Touching(fr, r) : m.lo <= q.lo /\ q.hi <= m.hi
  BY MergedIs
<1>3. /\ NonEmpty(g) /\ g.lo = l.lo /\ g.exec = l.exec
      /\ g.hi = IF r.hi > l.hi THEN r.hi ELSE l.hi
  BY <1>1, GlueIs
<1> HIDE DEF m, g
<1>4. /\ m \in RangeRecord /\ g \in RangeRecord /\ m.lo \in Nat /\ m.hi \in Nat /\ g.lo \in Nat /\ g.hi \in Nat
  BY <1>2, <1>3 DEF NonEmpty, RangeRecord
<1>5. ASSUME NEW q \in fr, q # l PROVE q \notin Touching(fr, r) /\ Below(q, r)
  <2>1. q.hi <= l.lo /\ (q.exec = l.exec => q.hi < l.lo) /\ l.lo < r.lo
    BY <1>5 DEF Below
  <2>2. q.hi < r.lo
    BY <1>1, <2>1
  <2> QED
    BY <1>1, <2>2 DEF Touching, Below
<1>6. CASE Joins(l, r)
  <2>1. Touching(fr, r) = {l}
    BY <1>1, <1>5, <1>6 DEF Joins, Touching
  <2>2. m.lo = g.lo /\ m.hi = g.hi /\ m.exec = g.exec
    BY <1>1, <1>2, <1>3, <1>4, <1>6, <2>1 DEF Joins
  <2>3. m = g
    BY <1>4, <2>2, SameRange
  <2> QED
    BY <1>6, <2>1, <2>3 DEF m, g
<1>7. CASE ~Joins(l, r)
  <2>1. l \notin Touching(fr, r) /\ Below(l, r)
    <3>1. l.exec = r.exec => l.hi < r.lo
      BY <1>1, <1>7 DEF Joins
    <3>2. l.exec # r.exec => l.hi <= r.lo
      BY <1>1 DEF KindsApart
    <3> QED
      BY <1>1, <3>1, <3>2 DEF Touching, Below
  <2>2. Touching(fr, r) = {}
    BY <1>5, <2>1 DEF Touching
  <2>3. m = r
    BY <1>1, <1>2, <1>4, <2>2, SameRange
  <2> QED
    BY <1>5, <1>7, <2>1, <2>2, <2>3 DEF m
<1> QED
  BY <1>6, <1>7

-----------------------------------------------------------------------------
(* Tidy lists *)

\* A list, by its elements.
LEMMA Elements ==
  ASSUME NEW s \in Lists
  PROVE  /\ Len(s) \in Nat /\ \A i \in 1 .. Len(s) : s[i] \in RangeRecord
         /\ ToSet(s) = {s[i] : i \in 1 .. Len(s)} /\ ToSet(s) \subseteq RangeRecord
<1>1. Len(s) \in Nat /\ DOMAIN s = 1 .. Len(s) /\ \A i \in 1 .. Len(s) : s[i] \in RangeRecord
  BY DEF Lists
<1> QED
  BY <1>1 DEF ToSet

\* The elements of a tidy list do not overlap, nor touch when of one kind.
LEMMA TidySeparate ==
  ASSUME NEW s, Tidy(s)
  PROVE  RangeSet(ToSet(s)) /\ Separate(ToSet(s))
<1>1. s \in Lists /\ RangeSet(ToSet(s)) /\ \A i, j \in 1 .. Len(s) : i < j => Below(s[i], s[j])
  BY DEF Tidy
<1>2. Len(s) \in Nat /\ ToSet(s) = {s[i] : i \in 1 .. Len(s)}
  BY <1>1, Elements
<1>3. ASSUME NEW p \in ToSet(s), NEW q \in ToSet(s), p # q
      PROVE  IF p.exec = q.exec THEN p.hi < q.lo \/ q.hi < p.lo
                                ELSE p.hi <= q.lo \/ q.hi <= p.lo
  <2>1. PICK i \in 1 .. Len(s), j \in 1 .. Len(s) : p = s[i] /\ q = s[j]
    BY <1>2
  <2>2. i < j \/ j < i
    BY <1>2, <1>3, <2>1
  <2>3. Below(p, q) \/ Below(q, p)
    BY <1>1, <2>1, <2>2
  <2> QED
    BY <2>3 DEF Below
<1> QED
  BY <1>1, <1>3 DEF Separate

\* One more behind all others.
LEMMA TidyAppend ==
  ASSUME NEW s, Tidy(s), NEW e, NonEmpty(e), \A q \in ToSet(s) : Below(q, e)
  PROVE  Tidy(Append(s, e)) /\ ToSet(Append(s, e)) = ToSet(s) \cup {e}
<1> DEFINE t == Append(s, e) n == Len(s)
<1>1. s \in Lists /\ RangeSet(ToSet(s)) /\ \A i, j \in 1 .. n : i < j => Below(s[i], s[j])
  BY DEF Tidy
<1>2. n \in Nat /\ ToSet(s) = {s[i] : i \in 1 .. n}
  BY <1>1, Elements
<1>3. t \in Lists /\ Len(t) = n + 1 /\ t[n + 1] = e /\ \A i \in 1 .. n : t[i] = s[i]
  BY <1>1 DEF Lists, NonEmpty
<1>4. ToSet(t) = {t[i] : i \in 1 .. (n + 1)}
  BY <1>3, Elements
<1> HIDE DEF t, n
<1>5. 1 .. (n + 1) = 1 .. n \cup {n + 1} /\ n + 1 \notin 1 .. n
  BY <1>2
<1>6. ToSet(t) = ToSet(s) \cup {e}
  BY <1>2, <1>3, <1>4, <1>5
<1>7. RangeSet(ToSet(t))
  BY <1>1, <1>6 DEF RangeSet, NonEmpty
<1>8. ASSUME NEW i \in 1 .. (n + 1), NEW j \in 1 .. (n + 1), i < j PROVE Below(t[i], t[j])
  <2>1. i \in 1 .. n
    BY <1>2, <1>8
  <2>2. t[i] = s[i] /\ s[i] \in ToSet(s)
    BY <1>2, <1>3, <2>1
  <2>3. CASE j = n + 1
    BY <1>3, <2>2, <2>3
  <2>4. CASE j \in 1 .. n
    BY <1>1, <1>3, <1>8, <2>1, <2>2, <2>4
  <2> QED
    BY <1>5, <2>3, <2>4
<1> QED
  BY <1>3, <1>6, <1>7, <1>8 DEF Tidy, t

\* The last range of a list is behind the others, and may grow.
LEMMA TidyLast ==
  ASSUME NEW s, Tidy(s), s # <<>>
  PROVE  /\ Last(s) \in ToSet(s) /\ \A q \in ToSet(s) \ {Last(s)} : Below(q, Last(s))
         /\ \A g : NonEmpty(g) /\ g.lo = Last(s).lo /\ g.exec = Last(s).exec =>
              /\ Tidy(ReplaceAt(s, Len(s), g))
              /\ ToSet(ReplaceAt(s, Len(s), g)) = (ToSet(s) \ {Last(s)}) \cup {g}
<1> DEFINE n == Len(s) l == Last(s)
<1>1. s \in Lists /\ RangeSet(ToSet(s)) /\ \A i, j \in 1 .. n : i < j => Below(s[i], s[j])
  BY DEF Tidy
<1>2. n \in Nat /\ ToSet(s) = {s[i] : i \in 1 .. n}
  BY <1>1, Elements
<1>3. n \in 1 .. n /\ s[n] = l
  BY <1>1 DEF Lists, Last
<1> HIDE DEF n, l
<1>4. l \in ToSet(s)
  BY <1>2, <1>3
<1>5. \A q \in ToSet(s) : NonEmpty(q)
  BY <1>1 DEF RangeSet, NonEmpty
<1>6. \A i \in 1 .. n : i # n => Below(s[i], l) /\ s[i] # l
  <2> SUFFICES ASSUME NEW i \in 1 .. n, i # n PROVE Below(s[i], l) /\ s[i] # l
    OBVIOUS
  <2>1. i < n
    BY <1>2
  <2>2. Below(s[i], l)
    BY <1>1, <1>3, <2>1
  <2>3. ~Below(l, l)
    BY <1>4, <1>5 DEF Below, NonEmpty, RangeRecord
  <2> QED
    BY <2>2, <2>3
<1>7. \A q \in ToSet(s) \ {l} : Below(q, l)
  BY <1>2, <1>3, <1>6
<1>8. ASSUME NEW g, NonEmpty(g), g.lo = l.lo, g.exec = l.exec
      PROVE  /\ Tidy(ReplaceAt(s, n, g))
             /\ ToSet(ReplaceAt(s, n, g)) = (ToSet(s) \ {l}) \cup {g}
  <2> DEFINE t == ReplaceAt(s, n, g)
  <2>1. t \in Lists /\ Len(t) = n /\ t[n] = g /\ \A i \in 1 .. n : i # n => t[i] = s[i]
    BY <1>1, <1>3, <1>8 DEF Lists, NonEmpty, ReplaceAt, n
  <2>2. ToSet(t) = {t[i] : i \in 1 .. n}
    BY <2>1, Elements
  <2> HIDE DEF t
  <2>3. ToSet(t) = (ToSet(s) \ {l}) \cup {g}
    <3>1. ASSUME NEW q \in ToSet(t) PROVE q \in (ToSet(s) \ {l}) \cup {g}
      BY <1>2, <1>6, <2>1, <2>2
    <3>2. ASSUME NEW q \in (ToSet(s) \ {l}) \cup {g} PROVE q \in ToSet(t)
      BY <1>2, <1>3, <2>1, <2>2
    <3> QED
      BY <3>1, <3>2
  <2>4. RangeSet(ToSet(t))
    BY <1>1, <1>8, <2>3 DEF RangeSet, NonEmpty
  <2>5. ASSUME NEW i \in 1 .. n, NEW j \in 1 .. n, i < j PROVE Below(t[i], t[j])
    <3>1. i # n /\ t[i] = s[i]
      BY <1>2, <2>1, <2>5
    <3>2. CASE j = n
      BY <1>6, <1>8, <2>1, <3>1, <3>2 DEF Below
    <3>3. CASE j # n
      BY <1>1, <2>1, <2>5, <3>1, <3>3
    <3> QED
      BY <3>2, <3>3
  <2> QED
    BY <2>1, <2>3, <2>4, <2>5 DEF Tidy, t
<1> QED
  BY <1>4, <1>7, <1>8 DEF n, l

-----------------------------------------------------------------------------
(* The merging pass *)

\* Over a range that is behind all others the pass steps.
LEMMA StepAppend ==
  ASSUME NEW d, Tidy(d), NEW next, NonEmpty(next), \A q \in ToSet(d) : Below(q, next)
  PROVE  Tidy(Walked(d, next)) /\ ToSet(Walked(d, next)) = ToSet(d) \cup {next}
<1>1. d # <<>> => ~Joins(Last(d), next)
  <2> SUFFICES ASSUME d # <<>>, Joins(Last(d), next) PROVE FALSE
    OBVIOUS
  <2>1. Last(d) \in ToSet(d) /\ Last(d) \in RangeRecord
    BY TidyLast DEF Tidy, RangeSet
  <2> QED
    BY <2>1 DEF Below, Joins, RangeRecord, NonEmpty
<1>2. Walked(d, next) = Append(d, next)
  BY <1>1 DEF Walked
<1> QED
  BY <1>2, TidyAppend

\* The range added itself, when the pass has come to it.
LEMMA StepInsert ==
  ASSUME NEW d, Tidy(d), NEW r, NonEmpty(r), KindsApart(ToSet(d), r), \A q \in ToSet(d) : q.lo < r.lo
  PROVE  Tidy(Walked(d, r)) /\ ToSet(Walked(d, r)) = AddTo(ToSet(d), r)
<1> DEFINE fr == ToSet(d)
<1>1. RangeSet(fr) /\ Separate(fr)
  BY TidySeparate
<1>2. CASE d = <<>>
  <2>1. fr = {}
    BY <1>2 DEF ToSet
  <2>2. Touching(fr, r) = {}
    BY <2>1 DEF Touching
  <2>3. Merged(fr, r) = r
    <3> DEFINE m == Merged(fr, r)
    <3>1. NonEmpty(m) /\ m.exec = r.exec /\ m.lo = r.lo /\ m.hi = r.hi
      BY <1>1, <2>2, MergedIs
    <3> HIDE DEF m
    <3>2. m = r
      BY <3>1, SameRange DEF NonEmpty
    <3> QED
      BY <3>2 DEF m
  <2>4. AddTo(fr, r) = {r}
    BY <2>1, <2>3 DEF AddTo
  <2> QED
    BY <2>1, <2>4, StepAppend
<1>3. CASE d # <<>>
  <2> DEFINE l == Last(d) g == Glue(l, r)
  <2>1. /\ l \in fr /\ \A q \in fr \ {l} : Below(q, l)
        /\ \A h : NonEmpty(h) /\ h.lo = l.lo /\ h.exec = l.exec =>
             Tidy(ReplaceAt(d, Len(d), h)) /\ ToSet(ReplaceAt(d, Len(d), h)) = (fr \ {l}) \cup {h}
    BY <1>3, TidyLast
  <2> HIDE DEF fr, l
  <2>2. IF Joins(l, r) THEN Touching(fr, r) = {l} /\ Merged(fr, r) = g
                       ELSE /\ Touching(fr, r) = {} /\ Merged(fr, r) = r
                            /\ \A q \in fr : Below(q, r)
    <3>1. KindsApart(fr, r) /\ \A q \in fr : q.lo < r.lo
      BY DEF fr
    <3> QED
      BY <1>1, <2>1, <3>1, LastTouches
  <2>3. CASE Joins(l, r)
    <3>1. NonEmpty(l)
      BY <1>1, <2>1 DEF RangeSet, NonEmpty
    <3>2. NonEmpty(g) /\ g.lo = l.lo /\ g.exec = l.exec
      BY <3>1, GlueIs
    <3>3. Walked(d, r) = ReplaceAt(d, Len(d), g)
      BY <1>3, <2>3 DEF Walked, l
    <3>4. AddTo(fr, r) = (fr \ {l}) \cup {g}
      BY <2>2, <2>3 DEF AddTo
    <3> HIDE DEF g
    <3> QED
      BY <2>1, <3>2, <3>3, <3>4 DEF fr
  <2>4. CASE ~Joins(l, r)
    <3>1. AddTo(fr, r) = fr \cup {r} /\ \A q \in fr : Below(q, r)
      BY <2>2, <2>4 DEF AddTo
    <3> QED
      BY <3>1, StepAppend DEF fr
  <2> QED
    BY <2>3, <2>4
<1> QED
  BY <1>2, <1>3

\* A range behind the one added, which may join what the pass has made of it.
LEMMA StepMerge ==
  ASSUME NEW fr, RangeSet(fr), Separate(fr), NEW r, NonEmpty(r), NEW next, NonEmpty(next),
         \A q \in fr : Below(q, next), KindsApart(fr, r), KindsApart({next}, r), r.lo <= next.lo,
         NEW d, Tidy(d), ToSet(d) = AddTo(fr, r)
  PROVE  Tidy(Walked(d, next)) /\ ToSet(Walked(d, next)) = AddTo(fr \cup {next}, r)
<1> DEFINE m == Merged(fr, r) g == Glue(m, next) rest == fr \ Touching(fr, r)
<1>1. ToSet(d) = rest \cup {m}
  BY DEF AddTo
<1>2. next \notin fr
  BY WithNext
<1>3. CASE next.exec = r.exec /\ next.lo <= r.hi
  <2>1. /\ Touching(fr \cup {next}, r) = Touching(fr, r) \cup {next}
        /\ next.lo <= m.hi /\ NonEmpty(m) /\ m.exec = r.exec
        /\ \A q \in rest : Below(q, m)
    BY <1>3, NextTouches
  <2>2. Merged(fr \cup {next}, r) = g
    BY <1>3, NextMerged
  <2> HIDE DEF m
  <2>3. ~Below(m, m)
    BY <2>1 DEF Below, NonEmpty, RangeRecord
  <2>4. AddTo(fr \cup {next}, r) = rest \cup {g}
    BY <1>2, <2>1, <2>2 DEF AddTo
  <2>5. NonEmpty(g) /\ g.lo = m.lo /\ g.exec = m.exec
    BY <2>1, GlueIs
  <2> HIDE DEF rest, g
  <2>6. m \notin rest
    BY <2>1, <2>3
  <2>7. d # <<>>
    BY <1>1 DEF ToSet
  <2>8. /\ Last(d) \in ToSet(d) /\ \A q \in ToSet(d) \ {Last(d)} : Below(q, Last(d))
        /\ \A h : NonEmpty(h) /\ h.lo = Last(d).lo /\ h.exec = Last(d).exec =>
             /\ Tidy(ReplaceAt(d, Len(d), h))
             /\ ToSet(ReplaceAt(d, Len(d), h)) = (ToSet(d) \ {Last(d)}) \cup {h}
    BY <2>7, TidyLast
  <2>9. Last(d) = m
    <3> SUFFICES ASSUME Last(d) # m PROVE FALSE
      OBVIOUS
    <3> DEFINE l == Last(d)
    <3>1. Below(m, l) /\ Below(l, m)
      BY <1>1, <2>1, <2>8
    <3>2. NonEmpty(l)
      BY <2>8 DEF Tidy, RangeSet, NonEmpty
    <3> HIDE DEF l
    <3> QED
      BY <2>1, <3>1, <3>2 DEF Below, NonEmpty, RangeRecord
  <2>10. Walked(d, next) = ReplaceAt(d, Len(d), g)
    <3>1. Joins(m, next)
      BY <1>3, <2>1 DEF Joins, NonEmpty, RangeRecord
    <3> QED
      BY <2>7, <2>9, <3>1 DEF Walked, g
  <2>11. /\ Tidy(ReplaceAt(d, Len(d), g))
         /\ ToSet(ReplaceAt(d, Len(d), g)) = (ToSet(d) \ {m}) \cup {g}
    BY <2>5, <2>8, <2>9
  <2>12. (ToSet(d) \ {m}) \cup {g} = rest \cup {g}
    BY <1>1, <2>6
  <2> QED
    BY <2>4, <2>10, <2>11, <2>12
<1>4. CASE ~(next.exec = r.exec /\ next.lo <= r.hi)
  <2>1. /\ Touching(fr \cup {next}, r) = Touching(fr, r)
        /\ Merged(fr \cup {next}, r) = m /\ Below(m, next)
    BY <1>4, NextApart
  <2>2. next \notin Touching(fr, r)
    BY <1>2 DEF Touching
  <2> HIDE DEF m
  <2>3. AddTo(fr \cup {next}, r) = rest \cup {m} \cup {next}
    BY <2>1, <2>2 DEF AddTo
  <2>4. \A q \in ToSet(d) : Below(q, next)
    BY <1>1, <2>1
  <2> QED
    BY <1>1, <2>3, <2>4, StepAppend
<1> QED
  BY <1>3, <1>4

\* The least index is what SelectInSeq gives.
LEMMA LeastIndex ==
  ASSUME NEW I \in SUBSET Nat, I # {}
  PROVE  Min(I) \in I /\ \A j \in I : Min(I) <= j
<1>1. PICK k \in I : \A j \in I : k <= j
  BY LeastOf
<1> QED
  BY <1>1 DEF Min

\* Two lists, one behind the other.
LEMMA Joined ==
  ASSUME NEW a \in Lists, NEW b \in Lists
  PROVE  /\ a \o b \in Lists /\ Len(a \o b) = Len(a) + Len(b)
         /\ \A i \in 1 .. Len(a) : (a \o b)[i] = a[i]
         /\ \A i \in 1 .. Len(b) : (a \o b)[Len(a) + i] = b[i]
BY DEF Lists

\* The insertion puts r in front of the ranges that do not start below it.
LEMMA InsertedIs ==
  ASSUME NEW s, Tidy(s), NEW r \in RangeRecord
  PROVE  LET t == Inserted(s, r)
         IN  \E k \in 1 .. (Len(s) + 1) :
               /\ t \in Lists /\ Len(t) = Len(s) + 1 /\ t[k] = r
               /\ \A i \in 1 .. (k - 1) : t[i] = s[i] /\ s[i].lo < r.lo
               /\ \A i \in k .. Len(s) : t[i + 1] = s[i] /\ r.lo <= s[i].lo
<1> DEFINE t == Inserted(s, r) n == Len(s)
           I == {i \in 1 .. n : s[i].lo >= r.lo}
<1>1. /\ s \in Lists /\ n \in Nat /\ r.lo \in Nat
      /\ \A i \in 1 .. n : s[i].lo \in Nat /\ s[i].hi \in Nat /\ s[i].lo < s[i].hi
      /\ \A i, j \in 1 .. n : i < j => Below(s[i], s[j])
  BY Elements DEF Tidy, RangeSet, RangeRecord
<1>2. t = LET i == IF I # {} THEN Min(I) ELSE 0
          IN  IF i = 0 THEN Append(s, r) ELSE InsertAt(s, i, r)
  BY DEF Inserted, SelectInSeq
<1> HIDE DEF t
<1>3. CASE I = {}
  <2>1. t = Append(s, r)
    BY <1>2, <1>3
  <2>2. t \in Lists /\ Len(t) = n + 1 /\ t[n + 1] = r /\ \A i \in 1 .. n : t[i] = s[i]
    BY <1>1, <2>1 DEF Lists
  <2>3. \A i \in 1 .. n : s[i].lo < r.lo
    BY <1>1, <1>3
  <2> HIDE DEF n
  <2>4. n + 1 \in 1 .. (n + 1) /\ (n + 1) - 1 = n /\ (n + 1) .. n = {}
    BY <1>1
  <2> QED
    BY <2>2, <2>3, <2>4 DEF t, n
<1>4. CASE I # {}
  <2> DEFINE k == Min(I)
  <2>1. k \in I /\ \A j \in I : k <= j
    <3>1. I \in SUBSET Nat
      BY <1>1
    <3> QED
      BY <1>4, <3>1, LeastIndex
  <2>2. k # 0 => t = InsertAt(s, k, r)
    BY <1>2, <1>4
  <2> HIDE DEF k
  <2>3. k \in 1 .. n /\ r.lo <= s[k].lo
    BY <1>1, <2>1
  <2>4. t = SubSeq(s, 1, k - 1) \o <<r>> \o SubSeq(s, k, n)
    <3>1. t = InsertAt(s, k, r)
      BY <1>1, <2>2, <2>3
    <3> QED
      BY <3>1 DEF InsertAt
  <2> DEFINE a == SubSeq(s, 1, k - 1) b == SubSeq(s, k, n)
  <2>5. a \in Lists /\ Len(a) = k - 1 /\ \A i \in 1 .. (k - 1) : a[i] = s[i]
    BY <1>1, <2>3 DEF Lists
  <2>6. b \in Lists /\ Len(b) = n - k + 1 /\ \A i \in 1 .. (n - k + 1) : b[i] = s[k + i - 1]
    BY <1>1, <2>3 DEF Lists
  <2>7. t = a \o <<r>> \o b
    BY <2>4
  <2> HIDE DEF a, b, n, I
  <2> DEFINE c == a \o <<r>>
  <2>8. c \in Lists /\ Len(c) = k /\ c[k] = r /\ \A i \in 1 .. (k - 1) : c[i] = s[i]
    <3> DEFINE e == <<r>>
    <3>1. e \in Lists /\ Len(e) = 1 /\ e[1] = r
      BY DEF Lists
    <3> HIDE DEF e
    <3>2. /\ c \in Lists /\ Len(c) = (k - 1) + 1
          /\ \A i \in 1 .. (k - 1) : c[i] = a[i]
          /\ \A i \in 1 .. 1 : c[(k - 1) + i] = e[i]
      BY <2>5, <3>1, Joined DEF e
    <3>3. k - 1 \in Nat /\ (k - 1) + 1 = k /\ 1 \in 1 .. 1
      BY <1>1, <2>3
    <3>4. c[k] = r
      BY <3>1, <3>2, <3>3
    <3> QED
      BY <2>5, <3>2, <3>3, <3>4
  <2> HIDE DEF c
  <2>9. t = c \o b
    BY <2>7 DEF c
  <2>10. t \in Lists /\ Len(t) = n + 1
    <3>1. c \in Lists /\ b \in Lists /\ Len(c) = k /\ Len(b) = n - k + 1
      BY <2>6, <2>8
    <3>2. t \in Lists /\ Len(t) = Len(c) + Len(b)
      BY <2>9, <3>1, Joined
    <3>3. k \in Nat /\ n \in Nat
      BY <1>1, <2>3
    <3>4. k + (n - k + 1) = n + 1
      BY <3>3
    <3> QED
      BY <3>1, <3>2, <3>4
  <2>11. \A i \in 1 .. k : t[i] = c[i]
    BY <2>6, <2>8, <2>9, Joined
  <2>12. ASSUME NEW i \in k .. n PROVE t[i + 1] = s[i]
    <3>1. \A j \in 1 .. (n - k + 1) : t[k + j] = b[j]
      BY <2>6, <2>8, <2>9, Joined
    <3>2. /\ i + 1 - k \in 1 .. (n - k + 1) /\ k + (i + 1 - k) - 1 = i
          /\ k + (i + 1 - k) = i + 1
      BY <1>1, <2>3
    <3> QED
      BY <2>6, <3>1, <3>2
  <2>13. ASSUME NEW i \in 1 .. (k - 1) PROVE s[i].lo < r.lo
    <3>1. i \in 1 .. n /\ ~(k <= i)
      BY <1>1, <2>3
    <3>2. i \notin I
      BY <2>1, <3>1
    <3> QED
      BY <1>1, <3>1, <3>2 DEF I, n
  <2>14. ASSUME NEW i \in k .. n PROVE r.lo <= s[i].lo
    <3>1. CASE i = k
      BY <2>3, <3>1
    <3>2. CASE i # k
      <4>1. i \in 1 .. n /\ k < i
        BY <1>1, <2>3, <3>2
      <4>2. s[k].hi <= s[i].lo
        BY <1>1, <2>3, <4>1 DEF Below
      <4> QED
        BY <1>1, <2>3, <4>1, <4>2
    <3> QED
      BY <3>1, <3>2
  <2>15. k \in 1 .. (n + 1) /\ k \in 1 .. k /\ \A i \in 1 .. (k - 1) : i \in 1 .. k
    BY <1>1, <2>3
  <2> QED
    BY <2>8, <2>10, <2>11, <2>12, <2>13, <2>14, <2>15 DEF t, n
<1> QED
  BY <1>3, <1>4

\* The first n ranges of a list.
Firsts(s, n) == {s[i] : i \in 1 .. n}

\* They are as far apart as the whole list, and the next is behind them.
LEMMA FirstsProps ==
  ASSUME NEW s, Tidy(s), NEW n \in 0 .. Len(s)
  PROVE  /\ Firsts(s, n) \subseteq ToSet(s) /\ RangeSet(Firsts(s, n)) /\ Separate(Firsts(s, n))
         /\ n < Len(s) => /\ Firsts(s, n + 1) = Firsts(s, n) \cup {s[n + 1]}
                          /\ NonEmpty(s[n + 1]) /\ s[n + 1] \in ToSet(s)
                          /\ \A q \in Firsts(s, n) : Below(q, s[n + 1])
<1>1. /\ s \in Lists /\ Len(s) \in Nat /\ RangeSet(ToSet(s)) /\ Separate(ToSet(s))
      /\ ToSet(s) = {s[i] : i \in 1 .. Len(s)}
      /\ \A i, j \in 1 .. Len(s) : i < j => Below(s[i], s[j])
  BY Elements, TidySeparate DEF Tidy
<1>2. Firsts(s, n) \subseteq ToSet(s)
  BY <1>1 DEF Firsts
<1>3. RangeSet(Firsts(s, n)) /\ Separate(Firsts(s, n))
  BY <1>1, <1>2 DEF RangeSet, Separate
<1>4. ASSUME n < Len(s)
      PROVE  /\ Firsts(s, n + 1) = Firsts(s, n) \cup {s[n + 1]}
             /\ NonEmpty(s[n + 1]) /\ s[n + 1] \in ToSet(s)
             /\ \A q \in Firsts(s, n) : Below(q, s[n + 1])
  <2>1. n + 1 \in 1 .. Len(s) /\ 1 .. (n + 1) = 1 .. n \cup {n + 1}
    BY <1>1, <1>4
  <2>2. Firsts(s, n + 1) = Firsts(s, n) \cup {s[n + 1]}
    BY <2>1 DEF Firsts
  <2>3. s[n + 1] \in ToSet(s) /\ NonEmpty(s[n + 1])
    BY <1>1, <2>1 DEF RangeSet, NonEmpty
  <2>4. \A i \in 1 .. n : i \in 1 .. Len(s) /\ i < n + 1
    BY <1>1
  <2>5. \A q \in Firsts(s, n) : Below(q, s[n + 1])
    BY <1>1, <2>1, <2>4 DEF Firsts
  <2> QED
    BY <2>2, <2>3, <2>5
<1> QED
  BY <1>2, <1>3, <1>4

\* The insertion and its one pass leave what the set has with r added.
LEMMA PassAdds ==
  ASSUME NEW s, Tidy(s), NEW r, NonEmpty(r), KindsApart(ToSet(s), r)
  PROVE  /\ Tidy(MergePass(Inserted(s, r)))
         /\ ToSet(MergePass(Inserted(s, r))) = AddTo(ToSet(s), r)
<1> DEFINE t == Inserted(s, r) n == Len(s)
<1>1. s \in Lists /\ n \in Nat /\ ToSet(s) = Firsts(s, n)
  BY Elements DEF Tidy, Firsts
<1>2. PICK k \in 1 .. (n + 1) :
        /\ t \in Lists /\ Len(t) = n + 1 /\ t[k] = r
        /\ \A i \in 1 .. (k - 1) : t[i] = s[i] /\ s[i].lo < r.lo
        /\ \A i \in k .. n : t[i + 1] = s[i] /\ r.lo <= s[i].lo
  BY InsertedIs DEF NonEmpty
<1> HIDE DEF t
<1>3. PICK p \in [0 .. (n + 1) -> Lists] :
        /\ p[0] = <<>> /\ \A i \in 1 .. (n + 1) : p[i] = Walked(p[i - 1], t[i])
        /\ MergePass(t) = p[n + 1]
  BY <1>2, MergePassWalks
<1> DEFINE So(i) == IF i < k THEN Firsts(s, i) ELSE AddTo(Firsts(s, i - 1), r)
           T == {i \in 0 .. (n + 1) : Tidy(p[i]) /\ ToSet(p[i]) = So(i)}
<1> HIDE DEF n
<1>4. k \in Nat /\ 1 <= k /\ k <= n + 1
  BY <1>1
<1>5. 0 \in T
  <2>1. ToSet(p[0]) = {}
    BY <1>3 DEF ToSet
  <2>2. Len(p[0]) = 0
    BY <1>3
  <2>3. Tidy(p[0])
    BY <1>1, <1>3, <2>1, <2>2 DEF Tidy, RangeSet
  <2>4. Firsts(s, 0) = {}
    BY DEF Firsts
  <2>5. 0 \in 0 .. (n + 1) /\ 0 < k
    BY <1>1, <1>4
  <2>6. ToSet(p[0]) = So(0)
    BY <2>1, <2>4, <2>5
  <2> QED
    BY <2>3, <2>5, <2>6
<1>6. ASSUME NEW i \in 1 .. (n + 1), i - 1 \in T PROVE i \in T
  <2> DEFINE d == p[i - 1]
  <2>1. p[i] = Walked(d, t[i]) /\ Tidy(d) /\ ToSet(d) = So(i - 1)
    BY <1>3, <1>6
  <2> HIDE DEF d
  <2>2. CASE i < k
    <3>1. i - 1 \in 0 .. n /\ i - 1 < n /\ (i - 1) + 1 = i /\ i - 1 < k /\ i \in 1 .. (k - 1)
      BY <1>1, <1>2, <2>2
    <3>2. /\ Firsts(s, i) = Firsts(s, i - 1) \cup {s[i]} /\ NonEmpty(s[i])
          /\ \A q \in Firsts(s, i - 1) : Below(q, s[i])
      BY <3>1, FirstsProps DEF n
    <3>3. t[i] = s[i]
      BY <1>2, <3>1
    <3>4. ToSet(d) = Firsts(s, i - 1)
      BY <2>1, <3>1
    <3>5. Tidy(Walked(d, s[i])) /\ ToSet(Walked(d, s[i])) = Firsts(s, i)
      BY <2>1, <3>2, <3>4, StepAppend
    <3> QED
      BY <2>1, <2>2, <3>3, <3>5
  <2>3. CASE i = k
    <3>1. i - 1 \in 0 .. n /\ i - 1 < k /\ ~(k < k)
      BY <1>1, <1>2, <2>3
    <3>2. ToSet(d) = Firsts(s, k - 1) /\ Firsts(s, k - 1) \subseteq ToSet(s)
      BY <2>1, <2>3, <3>1, FirstsProps DEF n
    <3>3. KindsApart(ToSet(d), r) /\ \A q \in ToSet(d) : q.lo < r.lo
      BY <1>2, <3>2 DEF KindsApart, Firsts
    <3>4. Tidy(Walked(d, r)) /\ ToSet(Walked(d, r)) = AddTo(Firsts(s, k - 1), r)
      BY <2>1, <3>2, <3>3, StepInsert
    <3> QED
      BY <1>2, <2>1, <2>3, <3>1, <3>4
  <2>4. CASE k < i
    <3> DEFINE j == i - 2
    <3>1. /\ j \in 0 .. n /\ j < n /\ j + 1 = i - 1 /\ ~(i - 1 < k) /\ (i - 1) - 1 = j /\ ~(i < k)
          /\ i - 1 \in k .. n /\ (i - 1) + 1 = i
      BY <1>1, <1>2, <2>4
    <3> HIDE DEF j
    <3> DEFINE next == s[i - 1]
    <3>2. /\ Firsts(s, i - 1) = Firsts(s, j) \cup {next} /\ NonEmpty(next) /\ next \in ToSet(s)
          /\ RangeSet(Firsts(s, j)) /\ Separate(Firsts(s, j)) /\ Firsts(s, j) \subseteq ToSet(s)
          /\ \A q \in Firsts(s, j) : Below(q, next)
      BY <3>1, FirstsProps DEF n
    <3>3. t[i] = next /\ r.lo <= next.lo
      BY <1>2, <3>1
    <3>4. ToSet(d) = AddTo(Firsts(s, j), r)
      BY <2>1, <3>1
    <3> DEFINE fr == Firsts(s, j)
    <3> HIDE DEF next, fr
    <3>5. KindsApart(fr, r) /\ KindsApart({next}, r)
      BY <3>2 DEF KindsApart, fr
    <3>6. RangeSet(fr) /\ Separate(fr) /\ NonEmpty(next) /\ \A q \in fr : Below(q, next)
      BY <3>2 DEF fr
    <3>7. Tidy(d) /\ ToSet(d) = AddTo(fr, r)
      BY <2>1, <3>4 DEF fr
    <3>8. Tidy(Walked(d, next)) /\ ToSet(Walked(d, next)) = AddTo(fr \cup {next}, r)
      BY <3>3, <3>5, <3>6, <3>7, StepMerge
    <3>9. So(i) = AddTo(fr \cup {next}, r)
      BY <3>1, <3>2 DEF fr
    <3>10. p[i] = Walked(d, next)
      BY <2>1, <3>3
    <3> QED
      BY <3>8, <3>9, <3>10
  <2> QED
    BY <1>2, <2>2, <2>3, <2>4
<1> HIDE DEF T
<1>7. n + 1 \in T
  <2>1. n + 1 \in Nat /\ n + 1 \in 0 .. (n + 1)
    BY <1>1
  <2>2. \A i \in 0 .. (n + 1) : i \in T
    BY <1>5, <1>6, <2>1, UpTo
  <2> QED
    BY <2>1, <2>2
<1>8. Tidy(p[n + 1]) /\ ToSet(p[n + 1]) = AddTo(Firsts(s, n), r)
  <2>1. ~(n + 1 < k) /\ (n + 1) - 1 = n
    BY <1>1, <1>4
  <2> QED
    BY <1>7, <2>1 DEF T
<1> QED
  BY <1>1, <1>3, <1>8 DEF t, n

\* vita_freerange_add_locked on the list is Add on its ranges.
LEMMA ListAddIs ==
  ASSUME NEW s, Tidy(s), NEW lo \in Nat, NEW hi \in Nat, NEW x \in BOOLEAN,
         \A q \in ToSet(s) : q.exec # x => q.hi <= lo \/ hi <= q.lo
  PROVE  Tidy(ListAdd(s, lo, hi, x)) /\ ToSet(ListAdd(s, lo, hi, x)) = Add(ToSet(s), lo, hi, x)
<1> DEFINE r == Snap(lo, hi, x)
<1>1. r \in RangeRecord /\ r.exec = x /\ lo <= r.lo /\ r.hi <= hi
  BY SnapProps
<1>2. ListAdd(s, lo, hi, x) = IF r.hi <= r.lo THEN s ELSE MergePass(Inserted(s, r))
  BY DEF ListAdd
<1>3. Add(ToSet(s), lo, hi, x) = IF r.hi <= r.lo THEN ToSet(s) ELSE AddTo(ToSet(s), r)
  BY DEF Add, AddTo
<1> HIDE DEF r
<1>4. CASE r.hi <= r.lo
  BY <1>2, <1>3, <1>4
<1>5. CASE ~(r.hi <= r.lo)
  <2>1. NonEmpty(r)
    BY <1>1, <1>5 DEF NonEmpty, RangeRecord
  <2>2. KindsApart(ToSet(s), r)
    <3> SUFFICES ASSUME NEW q \in ToSet(s), q.exec # r.exec PROVE q.hi <= r.lo \/ r.hi <= q.lo
      BY DEF KindsApart
    <3>1. q \in RangeRecord
      BY DEF Tidy, RangeSet
    <3> QED
      BY <1>1, <3>1 DEF RangeRecord
  <2> QED
    BY <1>2, <1>3, <1>5, <2>1, <2>2, PassAdds
<1> QED
  BY <1>4, <1>5

-----------------------------------------------------------------------------
(* The first fit *)

\* The walk stops at the lowest range that fits, or finds none.
LEMMA FitIndexIs ==
  ASSUME NEW s, Tidy(s), NEW len \in Nat, NEW x \in BOOLEAN
  PROVE  LET k == FitIndex(s, len, x)
         IN  IF k = 0 THEN Fitting(ToSet(s), len, x) = {}
                      ELSE k \in 1 .. Len(s) /\ s[k] \in FirstFit(ToSet(s), len, x)
<1> DEFINE I == {i \in 1 .. Len(s) : s[i].hi - s[i].lo >= len /\ s[i].exec = x}
           k == FitIndex(s, len, x)
<1>1. /\ Len(s) \in Nat /\ ToSet(s) = {s[i] : i \in 1 .. Len(s)}
      /\ \A i \in 1 .. Len(s) : s[i].lo \in Nat /\ s[i].hi \in Nat /\ s[i].lo < s[i].hi
      /\ \A i, j \in 1 .. Len(s) : i < j => Below(s[i], s[j])
  BY Elements DEF Tidy, RangeSet, RangeRecord
<1>2. k = IF I # {} THEN Min(I) ELSE 0
  BY DEF FitIndex, SelectInSeq
<1>3. Fitting(ToSet(s), len, x) = {s[i] : i \in I}
  BY <1>1 DEF Fitting
<1>4. I \in SUBSET Nat /\ I \subseteq 1 .. Len(s)
  BY <1>1
<1> HIDE DEF I, k
<1>5. CASE I = {}
  BY <1>2, <1>3, <1>5 DEF k
<1>6. CASE I # {}
  <2>1. k \in I /\ \A j \in I : k <= j
    BY <1>2, <1>4, <1>6, LeastIndex
  <2>2. k \in 1 .. Len(s) /\ k # 0
    BY <1>1, <1>4, <2>1
  <2>3. ASSUME NEW j \in I PROVE s[k].lo <= s[j].lo
    <3>1. j \in 1 .. Len(s) /\ (j = k \/ k < j)
      BY <1>1, <1>4, <2>1
    <3>2. CASE k < j
      <4>1. s[k].hi <= s[j].lo
        BY <1>1, <2>2, <3>1, <3>2 DEF Below
      <4> QED
        BY <1>1, <2>2, <3>1, <4>1
    <3> QED
      BY <1>1, <2>2, <3>1, <3>2
  <2>4. s[k] \in FirstFit(ToSet(s), len, x)
    BY <1>3, <2>1, <2>3 DEF FirstFit
  <2> QED
    BY <2>2, <2>4 DEF k
<1> QED
  BY <1>5, <1>6

\* Cutting the front off a range of the list is Carve.
LEMMA ListCutIs ==
  ASSUME NEW s, Tidy(s), NEW k \in 1 .. Len(s), NEW len \in Nat \ {0}, len <= s[k].hi - s[k].lo
  PROVE  Tidy(ListCut(s, k, len)) /\ ToSet(ListCut(s, k, len)) = Carve(ToSet(s), s[k], len)
<1> DEFINE n == Len(s) r == s[k] t == ListCut(s, k, len)
           rest == [r EXCEPT !.lo = @ + len]
<1>1. /\ s \in Lists /\ n \in Nat /\ ToSet(s) = {s[i] : i \in 1 .. n}
      /\ \A i \in 1 .. n : NonEmpty(s[i])
      /\ \A i, j \in 1 .. n : i < j => Below(s[i], s[j])
  BY Elements DEF Tidy, RangeSet, NonEmpty
<1>2. \A i \in 1 .. n : s[i].lo \in Nat /\ s[i].hi \in Nat /\ s[i].lo < s[i].hi
  BY <1>1 DEF NonEmpty, RangeRecord
<1>3. \A i, j \in 1 .. n : s[i] = s[j] => i = j
  <2> SUFFICES ASSUME NEW i \in 1 .. n, NEW j \in 1 .. n, s[i] = s[j], i # j PROVE FALSE
    OBVIOUS
  <2>1. i < j \/ j < i
    BY <1>1
  <2>2. ~Below(s[i], s[i])
    BY <1>2 DEF Below
  <2> QED
    BY <1>1, <2>1, <2>2
<1>4. ToSet(s) \ {r} = {s[i] : i \in (1 .. n) \ {k}}
  BY <1>1, <1>3
<1>5. CASE r.hi - r.lo = len
  <2> DEFINE a == SubSeq(s, 1, k - 1) b == SubSeq(s, k + 1, n)
  <2>1. t = a \o b
    BY <1>5 DEF ListCut, RemoveAt
  <2>2. a \in Lists /\ Len(a) = k - 1 /\ \A i \in 1 .. (k - 1) : a[i] = s[i]
    BY <1>1 DEF Lists
  <2>3. b \in Lists /\ Len(b) = n - k /\ \A i \in 1 .. (n - k) : b[i] = s[k + i]
    BY <1>1 DEF Lists
  <2> HIDE DEF a, b, n, t, r
  <2>4. /\ t \in Lists /\ Len(t) = (k - 1) + (n - k)
        /\ \A i \in 1 .. (k - 1) : t[i] = a[i]
        /\ \A i \in 1 .. (n - k) : t[(k - 1) + i] = b[i]
    <3>1. /\ t \in Lists /\ Len(t) = Len(a) + Len(b)
          /\ \A i \in 1 .. Len(a) : t[i] = a[i]
          /\ \A i \in 1 .. Len(b) : t[Len(a) + i] = b[i]
      BY <2>1, <2>2, <2>3, Joined
    <3> QED
      BY <2>2, <2>3, <3>1
  <2>5. Len(t) = n - 1 /\ n - 1 \in Nat
    BY <1>1, <2>4 DEF n
  <2>6. ASSUME NEW i \in 1 .. (n - 1)
        PROVE  t[i] = IF i < k THEN s[i] ELSE s[i + 1]
    <3>1. CASE i < k
      <4>1. i \in 1 .. (k - 1)
        BY <1>1, <3>1 DEF n
      <4> QED
        BY <2>2, <2>4, <3>1, <4>1
    <3>2. CASE ~(i < k)
      <4>1. /\ i - k + 1 \in 1 .. (n - k) /\ (k - 1) + (i - k + 1) = i
            /\ k + (i - k + 1) = i + 1
        BY <1>1, <3>2 DEF n
      <4>2. t[(k - 1) + (i - k + 1)] = b[i - k + 1] /\ b[i - k + 1] = s[k + (i - k + 1)]
        BY <2>3, <2>4, <4>1
      <4> QED
        BY <3>2, <4>1, <4>2
    <3> QED
      BY <3>1, <3>2
  <2>7. ToSet(t) = {t[i] : i \in 1 .. (n - 1)}
    BY <2>4, <2>5, Elements
  <2>8. ToSet(t) = ToSet(s) \ {r}
    <3>1. ASSUME NEW i \in 1 .. (n - 1) PROVE \E j \in (1 .. n) \ {k} : t[i] = s[j]
      <4>1. CASE i < k
        BY <1>1, <2>6, <4>1 DEF n
      <4>2. CASE ~(i < k)
        <5>1. i + 1 \in (1 .. n) \ {k}
          BY <1>1, <4>2 DEF n
        <5> QED
          BY <2>6, <4>2, <5>1
      <4> QED
        BY <4>1, <4>2
    <3>2. ASSUME NEW j \in (1 .. n) \ {k} PROVE \E i \in 1 .. (n - 1) : t[i] = s[j]
      <4>1. CASE j < k
        <5>1. j \in 1 .. (n - 1)
          BY <1>1, <4>1 DEF n
        <5> QED
          BY <2>6, <4>1, <5>1
      <4>2. CASE ~(j < k)
        <5>1. j - 1 \in 1 .. (n - 1) /\ ~(j - 1 < k) /\ (j - 1) + 1 = j
          BY <1>1, <4>2 DEF n
        <5> QED
          BY <2>6, <5>1
      <4> QED
        BY <4>1, <4>2
    <3> QED
      BY <1>4, <2>7, <3>1, <3>2
  <2>9. ASSUME NEW i \in 1 .. (n - 1), NEW j \in 1 .. (n - 1), i < j PROVE Below(t[i], t[j])
    <3> DEFINE i1 == IF i < k THEN i ELSE i + 1 j1 == IF j < k THEN j ELSE j + 1
    <3>1. i1 \in 1 .. n /\ j1 \in 1 .. n /\ i1 < j1
      BY <1>1, <2>9 DEF n
    <3>2. t[i] = s[i1] /\ t[j] = s[j1]
      BY <2>6
    <3> HIDE DEF i1, j1
    <3> QED
      BY <1>1, <3>1, <3>2
  <2>10. Carve(ToSet(s), r, len) = ToSet(s) \ {r}
    BY <1>5 DEF Carve
  <2>11. RangeSet(ToSet(t))
    BY <2>8 DEF Tidy, RangeSet
  <2>12. Tidy(t)
    BY <2>4, <2>5, <2>9, <2>11 DEF Tidy
  <2> QED
    BY <2>8, <2>10, <2>12 DEF t, r
<1>6. CASE r.hi - r.lo # len
  <2>1. t = ReplaceAt(s, k, rest)
    BY <1>6 DEF ListCut
  <2>2. /\ rest.lo = r.lo + len /\ rest.hi = r.hi /\ rest.exec = r.exec
        /\ NonEmpty(rest) /\ rest \in RangeRecord
    BY <1>1, <1>2, <1>6 DEF NonEmpty, RangeRecord
  <2>3. Carve(ToSet(s), r, len) = (ToSet(s) \ {r}) \cup {rest}
    BY <1>6 DEF Carve
  <2> HIDE DEF rest, t
  <2>4. t \in Lists /\ Len(t) = n /\ t[k] = rest /\ \A i \in 1 .. n : i # k => t[i] = s[i]
    BY <1>1, <2>1, <2>2 DEF ReplaceAt, Lists
  <2>5. ToSet(t) = {t[i] : i \in 1 .. n}
    BY <2>4, Elements
  <2>6. ToSet(t) = (ToSet(s) \ {r}) \cup {rest}
    <3>1. ToSet(t) \subseteq (ToSet(s) \ {r}) \cup {rest}
      BY <1>4, <2>4, <2>5
    <3>2. (ToSet(s) \ {r}) \cup {rest} \subseteq ToSet(t)
      BY <1>4, <2>4, <2>5
    <3> QED
      BY <3>1, <3>2
  <2>7. RangeSet(ToSet(t))
    BY <2>2, <2>6 DEF Tidy, RangeSet, NonEmpty
  <2>8. ASSUME NEW i \in 1 .. n, NEW j \in 1 .. n, i < j PROVE Below(t[i], t[j])
    <3>1. Below(s[i], s[j])
      BY <1>1, <2>8
    <3>2. t[i].hi = s[i].hi /\ t[i].exec = s[i].exec
      BY <2>2, <2>4
    <3>3. r.lo \in Nat /\ r.lo <= r.lo + len
      BY <1>2
    <3>4. s[j].lo <= t[j].lo /\ t[j].exec = s[j].exec
      <4>1. CASE j = k
        BY <2>2, <2>4, <3>3, <4>1
      <4>2. CASE j # k
        <5>1. t[j] = s[j] /\ s[j].lo \in Nat
          BY <1>2, <2>4, <4>2
        <5> QED
          BY <5>1
      <4> QED
        BY <4>1, <4>2
    <3>5. s[i].hi \in Nat /\ s[j].lo \in Nat /\ t[j].lo \in Nat
      BY <1>2, <2>2, <2>4 DEF RangeRecord
    <3> QED
      BY <3>1, <3>2, <3>4, <3>5 DEF Below
  <2>9. Tidy(t)
    BY <2>4, <2>7, <2>8 DEF Tidy
  <2> QED
    BY <2>3, <2>6, <2>9 DEF t
<1> QED
  BY <1>5, <1>6

-----------------------------------------------------------------------------
(* The purge *)

\* The walk of munmap leaves what Purge leaves.
LEMMA ListPurgeIs ==
  ASSUME NEW s, Tidy(s), NEW lo \in Nat, NEW hi \in Nat
  PROVE  Tidy(ListPurge(s, lo, hi)) /\ ToSet(ListPurge(s, lo, hi)) = Purge(ToSet(s), lo, hi)
<1> DEFINE n == Len(s)
<1>1. s \in Lists /\ n \in Nat /\ ToSet(s) = Firsts(s, n)
  BY Elements DEF Tidy, Firsts
<1>2. PICK p \in [0 .. n -> Lists] :
        /\ p[0] = <<>> /\ \A i \in 1 .. n : p[i] = Passed(p[i - 1], s[i], lo, hi)
        /\ ListPurge(s, lo, hi) = p[n]
  BY <1>1, PurgeWalks
<1> DEFINE T == {i \in 0 .. n : Tidy(p[i]) /\ ToSet(p[i]) = Purge(Firsts(s, i), lo, hi)}
<1>3. 0 \in T
  <2>1. ToSet(p[0]) = {} /\ Len(p[0]) = 0
    BY <1>2 DEF ToSet
  <2>2. Tidy(p[0])
    BY <1>1, <1>2, <2>1 DEF Tidy, RangeSet
  <2>3. Purge(Firsts(s, 0), lo, hi) = {}
    BY DEF Firsts, Purge
  <2> QED
    BY <1>1, <2>1, <2>2, <2>3
<1>4. ASSUME NEW i \in 1 .. n, i - 1 \in T PROVE i \in T
  <2> DEFINE d == p[i - 1] r == s[i]
  <2>1. Tidy(d) /\ ToSet(d) = Purge(Firsts(s, i - 1), lo, hi)
    BY <1>4
  <2>2. i - 1 \in 0 .. n /\ i - 1 < n /\ (i - 1) + 1 = i /\ i \in 0 .. n
    BY <1>1
  <2>3. /\ Firsts(s, i) = Firsts(s, i - 1) \cup {r} /\ NonEmpty(r)
        /\ \A q \in Firsts(s, i - 1) : Below(q, r)
    BY <2>2, FirstsProps
  <2>4. p[i] = Passed(d, r, lo, hi)
    BY <1>2
  <2> HIDE DEF d, r
  <2>5. \A q \in ToSet(d) : Below(q, r)
    BY <2>1, <2>3 DEF Purge
  <2>6. CASE r.lo < hi /\ r.hi > lo
    <3>1. p[i] = d
      BY <2>4, <2>6 DEF Passed
    <3>2. Purge(Firsts(s, i), lo, hi) = Purge(Firsts(s, i - 1), lo, hi)
      BY <2>3, <2>6 DEF Purge
    <3> QED
      BY <2>1, <2>2, <3>1, <3>2
  <2>7. CASE ~(r.lo < hi /\ r.hi > lo)
    <3>1. p[i] = Append(d, r)
      BY <2>4, <2>7 DEF Passed
    <3>2. Purge(Firsts(s, i), lo, hi) = Purge(Firsts(s, i - 1), lo, hi) \cup {r}
      BY <2>3, <2>7 DEF Purge
    <3>3. Tidy(Append(d, r)) /\ ToSet(Append(d, r)) = ToSet(d) \cup {r}
      BY <2>1, <2>3, <2>5, TidyAppend
    <3> QED
      BY <2>1, <2>2, <3>1, <3>2, <3>3
  <2> QED
    BY <2>6, <2>7
<1> HIDE DEF T
<1>5. n \in T
  <2>1. \A i \in 0 .. n : i \in T
    BY <1>1, <1>3, <1>4, UpTo
  <2> QED
    BY <1>1, <2>1
<1>6. Tidy(p[n]) /\ ToSet(p[n]) = Purge(Firsts(s, n), lo, hi)
  BY <1>5 DEF T
<1> QED
  BY <1>1, <1>2, <1>6

-----------------------------------------------------------------------------
(* The theorems *)

LEMMA InitInv == Init => IInv
<1> SUFFICES ASSUME Init PROVE IInv
  OBVIOUS
<1>1. list = <<>> /\ list \in Lists /\ Len(list) = 0
  BY DEF Init, Lists
<1>2. ToSet(list) = {}
  BY <1>1 DEF ToSet
<1> QED
  BY <1>1, <1>2 DEF IInv, Tidy, RangeSet, AllAligned

\* What each operation makes of a tidy list.
LEMMA AddKeeps ==
  ASSUME IInv, NEW lo \in 0 .. AddrEnd, NEW hi \in 0 .. AddrEnd, NEW x \in BOOLEAN, AddRange(lo, hi, x)
  PROVE  IInv' /\ ToSet(list') = Add(ToSet(list), lo, hi, x)
<1>1. lo \in Nat /\ hi \in Nat
  BY FreeListAssumption
<1>2. Tidy(list) /\ AllAligned(ToSet(list)) /\ RangeSet(ToSet(list)) /\ Separate(ToSet(list))
  BY TidySeparate DEF IInv
<1>3. /\ list' = ListAdd(list, lo, hi, x)
      /\ \A q \in ToSet(list) : q.exec # x => q.hi <= lo \/ hi <= q.lo
  BY DEF AddRange
<1>4. Tidy(list') /\ ToSet(list') = Add(ToSet(list), lo, hi, x)
  BY <1>1, <1>2, <1>3, ListAddIs
<1>5. AllAligned(ToSet(list'))
  BY <1>1, <1>2, <1>4, AddType
<1> QED
  BY <1>4, <1>5 DEF IInv

LEMMA TakeKeeps ==
  ASSUME IInv, NEW len \in Sizes, NEW x \in BOOLEAN, TakeRange(len, x)
  PROVE  /\ IInv'
         /\ \/ \E r \in FirstFit(ToSet(list), len, x) :
                 ToSet(list') = Carve(ToSet(list), r, len) /\ taken' = r.lo
            \/ Fitting(ToSet(list), len, x) = {} /\ taken' = NoRange /\ UNCHANGED list
<1> DEFINE k == FitIndex(list, len, x)
<1>1. len \in Nat \ {0} /\ Aligned(len)
  BY FreeListAssumption
<1>2. Tidy(list) /\ AllAligned(ToSet(list)) /\ RangeSet(ToSet(list)) /\ Separate(ToSet(list))
  BY TidySeparate DEF IInv
<1>3. \/ k # 0 /\ list' = ListCut(list, k, len) /\ taken' = list[k].lo
      \/ k = 0 /\ taken' = NoRange /\ UNCHANGED list
  BY DEF TakeRange
<1>4. IF k = 0 THEN Fitting(ToSet(list), len, x) = {}
               ELSE k \in 1 .. Len(list) /\ list[k] \in FirstFit(ToSet(list), len, x)
  BY <1>1, <1>2, FitIndexIs
<1> HIDE DEF k
<1>5. CASE k = 0
  <2>1. Fitting(ToSet(list), len, x) = {} /\ taken' = NoRange /\ UNCHANGED list
    BY <1>3, <1>4, <1>5
  <2> QED
    BY <2>1 DEF IInv
<1>6. CASE k # 0
  <2> DEFINE r == list[k]
  <2>1. /\ k \in 1 .. Len(list) /\ r \in FirstFit(ToSet(list), len, x)
        /\ list' = ListCut(list, k, len) /\ taken' = r.lo
    BY <1>3, <1>4, <1>6
  <2>2. r \in ToSet(list) /\ len <= r.hi - r.lo
    <3>1. r \in ToSet(list) /\ r.hi - r.lo >= len
      BY <2>1 DEF FirstFit, Fitting
    <3>2. r.lo \in Nat /\ r.hi \in Nat
      BY <1>2, <3>1 DEF RangeSet, RangeRecord
    <3> QED
      BY <1>1, <3>1, <3>2
  <2>3. Tidy(list') /\ ToSet(list') = Carve(ToSet(list), r, len)
    BY <1>1, <1>2, <2>1, <2>2, ListCutIs
  <2>4. AllAligned(Carve(ToSet(list), r, len))
    BY <1>1, <1>2, <2>2, CarveProps
  <2>5. IInv'
    BY <2>3, <2>4 DEF IInv
  <2> QED
    BY <2>1, <2>3, <2>5
<1> QED
  BY <1>5, <1>6

LEMMA PurgeKeeps ==
  ASSUME IInv, NEW lo \in 0 .. AddrEnd, NEW hi \in 0 .. AddrEnd, PurgeRange(lo, hi)
  PROVE  IInv' /\ ToSet(list') = Purge(ToSet(list), lo, hi)
<1>1. lo \in Nat /\ hi \in Nat
  BY FreeListAssumption
<1>2. Tidy(list) /\ AllAligned(ToSet(list)) /\ list' = ListPurge(list, lo, hi)
  BY DEF IInv, PurgeRange
<1>3. Tidy(list') /\ ToSet(list') = Purge(ToSet(list), lo, hi)
  BY <1>1, <1>2, ListPurgeIs
<1>4. AllAligned(ToSet(list'))
  BY <1>2, <1>3 DEF AllAligned, Purge
<1> QED
  BY <1>3, <1>4 DEF IInv

LEMMA NextInv == IInv /\ [Next]_vars => IInv'
<1> SUFFICES ASSUME IInv, [Next]_vars PROVE IInv'
  OBVIOUS
<1>1. ASSUME NEW lo \in 0 .. AddrEnd, NEW hi \in 0 .. AddrEnd, NEW x \in BOOLEAN, AddRange(lo, hi, x)
      PROVE  IInv'
  BY <1>1, AddKeeps
<1>2. ASSUME NEW lo \in 0 .. AddrEnd, NEW hi \in 0 .. AddrEnd, PurgeRange(lo, hi)
      PROVE  IInv'
  BY <1>2, PurgeKeeps
<1>3. ASSUME NEW len \in Sizes, NEW x \in BOOLEAN, TakeRange(len, x)
      PROVE  IInv'
  BY <1>3, TakeKeeps
<1>4. CASE UNCHANGED vars
  BY <1>4 DEF vars, IInv
<1> QED
  BY <1>1, <1>2, <1>3, <1>4 DEF Next

\* The list always holds page-aligned ranges that are not empty, by address,
\* and no two of them are left for vita_freerange_add_locked to join.
THEOREM Invariance == Spec => []IInv
<1>1. Init => IInv
  BY InitInv
<1>2. IInv /\ [Next]_vars => IInv'
  BY NextInv
<1> QED
  BY <1>1, <1>2, PTL DEF Spec

\* The list stays sorted by address, as the insertion and the merging pass of
\* vita_freerange_add_locked take for granted.
THEOREM StaysSorted == Spec => []Sorted
<1>1. IInv => Sorted
  BY DEF IInv, Tidy, Sorted, Below
<1> QED
  BY <1>1, Invariance, PTL

-----------------------------------------------------------------------------
(* The refinement *)

\* The abstract specification has the operators of FreeRanges.
LEMMA SameOperators ==
  /\ \A fr, lo, hi, x : Ranges!Add(fr, lo, hi, x) = Add(fr, lo, hi, x)
  /\ \A fr, len, x : /\ Ranges!Fitting(fr, len, x) = Fitting(fr, len, x)
                     /\ Ranges!FirstFit(fr, len, x) = FirstFit(fr, len, x)
  /\ \A fr, r, len : Ranges!Carve(fr, r, len) = Carve(fr, r, len)
  /\ \A fr, lo, hi : Ranges!Purge(fr, lo, hi) = Purge(fr, lo, hi)
<1>1. \A lo, hi, x : Ranges!Snap(lo, hi, x) = Snap(lo, hi, x)
  BY DEF Ranges!Snap, Snap, Ranges!page_round, page_round, Ranges!RoundDown, RoundDown
<1>2. \A fr, r : Ranges!Touching(fr, r) = Touching(fr, r)
  BY DEF Ranges!Touching, Touching
<1>3. \A fr, r : Ranges!Merged(fr, r) = Merged(fr, r)
  <2> SUFFICES ASSUME NEW fr, NEW r PROVE Ranges!Merged(fr, r) = Merged(fr, r)
    OBVIOUS
  <2> DEFINE A == Touching(fr, r) B == Ranges!Touching(fr, r)
             Hull(t) == LET left  == {q \in t : q.lo < r.lo}
                            right == {q \in t : q.hi > r.hi}
                        IN [lo   |-> IF left = {} THEN r.lo ELSE (CHOOSE q \in left : TRUE).lo,
                            hi   |-> IF right = {} THEN r.hi ELSE (CHOOSE q \in right : TRUE).hi,
                            exec |-> r.exec]
  <2>1. Merged(fr, r) = Hull(A) /\ Ranges!Merged(fr, r) = Hull(B)
    BY Zenon DEF Merged, Ranges!Merged
  <2>2. A = B
    BY <1>2
  <2> HIDE DEF Hull, A, B
  <2> QED
    BY <2>1, <2>2
<1>4. \A fr, lo, hi, x : Ranges!Add(fr, lo, hi, x) = Add(fr, lo, hi, x)
  BY <1>1, <1>2, <1>3 DEF Ranges!Add, Add
<1>5. \A fr, len, x : Ranges!Fitting(fr, len, x) = Fitting(fr, len, x)
  BY DEF Ranges!Fitting, Fitting
<1>6. \A fr, len, x : Ranges!FirstFit(fr, len, x) = FirstFit(fr, len, x)
  BY <1>5 DEF Ranges!FirstFit, FirstFit
<1>7. \A fr, r, len : Ranges!Carve(fr, r, len) = Carve(fr, r, len)
  BY DEF Ranges!Carve, Carve
<1>8. \A fr, lo, hi : Ranges!Purge(fr, lo, hi) = Purge(fr, lo, hi)
  BY DEF Ranges!Purge, Purge
<1> QED
  BY <1>4, <1>5, <1>6, <1>7, <1>8

LEMMA InitMaps == Init => Ranges!Init
BY DEF Init, Ranges!Init, ToSet, NoRange, Ranges!NoRange

\* Every step on the list is a step, or none, on the set.
LEMMA StepMaps ==
  ASSUME IInv, [Next]_vars
  PROVE  [Ranges!Next]_<<ToSet(list), taken>>
<1>1. ASSUME NEW lo \in 0 .. AddrEnd, NEW hi \in 0 .. AddrEnd, NEW x \in BOOLEAN, AddRange(lo, hi, x)
      PROVE  Ranges!AddRange
  <2>1. ToSet(list') = Ranges!Add(ToSet(list), lo, hi, x)
    BY <1>1, AddKeeps, SameOperators
  <2>2. taken' = Ranges!NoRange /\ Ranges!MayAdd(ToSet(list), lo, hi, x)
    BY <1>1 DEF AddRange, NoRange, Ranges!NoRange, Ranges!MayAdd
  <2> QED
    BY <2>1, <2>2 DEF Ranges!AddRange
<1>2. ASSUME NEW lo \in 0 .. AddrEnd, NEW hi \in 0 .. AddrEnd, lo < hi, PurgeRange(lo, hi)
      PROVE  Ranges!PurgeRange
  <2>1. ToSet(list') = Ranges!Purge(ToSet(list), lo, hi)
    BY <1>2, PurgeKeeps, SameOperators
  <2>2. taken' = Ranges!NoRange
    BY <1>2 DEF PurgeRange, NoRange, Ranges!NoRange
  <2> QED
    BY <1>2, <2>1, <2>2 DEF Ranges!PurgeRange
<1>3. ASSUME NEW len \in Sizes, NEW x \in BOOLEAN, TakeRange(len, x)
      PROVE  Ranges!TakeRange
  <2>1. \/ \E r \in FirstFit(ToSet(list), len, x) :
             ToSet(list') = Carve(ToSet(list), r, len) /\ taken' = r.lo
        \/ Fitting(ToSet(list), len, x) = {} /\ taken' = NoRange /\ UNCHANGED list
    BY <1>3, TakeKeeps
  <2>2. \/ \E r \in Ranges!FirstFit(ToSet(list), len, x) :
             ToSet(list') = Ranges!Carve(ToSet(list), r, len) /\ taken' = r.lo
        \/ /\ Ranges!Fitting(ToSet(list), len, x) = {} /\ taken' = Ranges!NoRange
           /\ ToSet(list') = ToSet(list)
    BY <2>1, SameOperators DEF NoRange, Ranges!NoRange
  <2> QED
    BY <2>2 DEF Ranges!TakeRange
<1>4. CASE UNCHANGED vars
  BY <1>4 DEF vars
<1> QED
  BY <1>1, <1>2, <1>3, <1>4 DEF Next, Ranges!Next

\* The list of vita_freeranges, with its one merging pass and its first fit,
\* implements the merged set from which the lowest range that fits is taken,
\* and which the model of mmap and munmap stands on.
THEOREM ImplementsSet == Spec => ListIsSet
<1>1. Init => Ranges!Init
  BY InitMaps
<1>2. IInv /\ [Next]_vars => [Ranges!Next]_<<ToSet(list), taken>>
  BY StepMaps
<1> QED
  BY <1>1, <1>2, Invariance, PTL DEF Spec, ListIsSet, Ranges!Spec
=============================================================================
