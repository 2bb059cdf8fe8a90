------------------------------- MODULE FreeList -------------------------------
(***************************************************************************)
(* vita_freeranges as the code keeps it: a list sorted by base, with an    *)
(* insertion followed by one merging pass, a first-fit search and a purge. *)
(* Every operation runs under vita_map_lock, so it is one step.            *)
(***************************************************************************)
EXTENDS FreeRanges, Sequences, SequencesExt

CONSTANTS AddrEnd,   \* one past the last address
          Sizes      \* the sizes asked for, in whole pages

ASSUME FreeListAssumption == /\ AddrEnd \in Nat
                             /\ Sizes \subseteq {n \in Nat \ {0} : Aligned(n)}

VARIABLES list,    \* vita_freeranges, as a sequence of ranges
          taken    \* what vita_freerange_take_locked returned last

vars == <<list, taken>>

NoRange == -1      \* NULL

Init == list = <<>> /\ taken = NoRange

\* Mutant: the new range always goes to the head of the list.
InsertedFirst(s, r) == <<r>> \o s

\* Before the first range whose base is not below that of r.
Inserted(s, r) ==
  LET i == SelectInSeq(s, LAMBDA q : q.lo >= r.lo)
  IN IF i = 0 THEN Append(s, r) ELSE InsertAt(s, i, r)

\* Mutant: the end of the merged range is always that of the second one.
GlueLast(cur, next) == [cur EXCEPT !.hi = next.hi]

\* cur swallows its successor.
Glue(cur, next) == IF next.hi > cur.hi THEN [cur EXCEPT !.hi = next.hi] ELSE cur

\* Neighbours on the list that the merging pass joins.
Joins(cur, next) == cur.hi >= next.lo /\ next.exec = cur.exec

\* The nodes behind the walk, cur last, when it comes to next: cur stays put
\* when it swallows next, else next is cur.
Walked(done, next) == IF done # <<>> /\ Joins(Last(done), next)
                      THEN ReplaceAt(done, Len(done), Glue(Last(done), next))
                      ELSE Append(done, next)

\* The merging pass: one walk over the list.
MergePass(s) ==
  LET done[i \in 0 .. Len(s)] == IF i = 0 THEN <<>> ELSE Walked(done[i - 1], s[i])
  IN  done[Len(s)]

\* vita_freerange_add_locked
ListAdd(s, lo, hi, x) ==
  LET r == Snap(lo, hi, x)
  IN IF r.hi <= r.lo THEN s ELSE MergePass(Inserted(s, r))

\* The index at which the walk of vita_freerange_take_locked stops, or 0.
FitIndex(s, len, x) == SelectInSeq(s, LAMBDA r : r.hi - r.lo >= len /\ r.exec = x)

\* The list without len units at the front of its i-th range.
ListCut(s, i, len) ==
  IF s[i].hi - s[i].lo = len THEN RemoveAt(s, i)
                             ELSE ReplaceAt(s, i, [s[i] EXCEPT !.lo = @ + len])

\* The walk of munmap that drops every range overlapping the released block.
Passed(kept, r, lo, hi) == IF r.lo < hi /\ r.hi > lo THEN kept ELSE Append(kept, r)
ListPurge(s, lo, hi) ==
  LET kept[i \in 0 .. Len(s)] == IF i = 0 THEN <<>> ELSE Passed(kept[i - 1], s[i], lo, hi)
  IN  kept[Len(s)]

AddRange(lo, hi, x) ==
  /\ \A q \in ToSet(list) : q.exec # x => q.hi <= lo \/ hi <= q.lo
  /\ list' = ListAdd(list, lo, hi, x)
  /\ taken' = NoRange

TakeRange(len, x) ==
  LET i == FitIndex(list, len, x)
  IN \/ i # 0 /\ list' = ListCut(list, i, len) /\ taken' = list[i].lo
     \/ i = 0 /\ taken' = NoRange /\ UNCHANGED list

PurgeRange(lo, hi) ==
  /\ list' = ListPurge(list, lo, hi)
  /\ taken' = NoRange

Next == \/ \E lo, hi \in 0 .. AddrEnd :
             \/ \E x \in BOOLEAN : AddRange(lo, hi, x)
             \/ lo < hi /\ PurgeRange(lo, hi)
        \/ \E len \in Sizes, x \in BOOLEAN : TakeRange(len, x)

Spec == Init /\ [][Next]_vars

-----------------------------------------------------------------------------
\* The list stays sorted by address and free of duplicates, which the insertion
\* and the single merging pass both take for granted.
Sorted == \A i, j \in 1 .. Len(list) : i < j => list[i].hi <= list[j].lo

\* The list with its one merging pass is the fully merged set of free ranges,
\* and the first fit on it is the lowest range that fits.
Ranges == INSTANCE FreeSet WITH freeranges <- ToSet(list)
ListIsSet == Ranges!Spec
=============================================================================
