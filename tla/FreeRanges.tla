------------------------------ MODULE FreeRanges ------------------------------
(***************************************************************************)
(* The free list of the mmap shim (struct vita_freerange), as a set of     *)
(* ranges.  Addresses are counted in units, a page is PageSize units, so a *)
(* length or an address may be unaligned.  The C code keeps the ranges in  *)
(* a list sorted by base; module FreeList models that list and shows that  *)
(* it implements the operators of this module.                             *)
(***************************************************************************)
EXTENDS Integers

CONSTANT PageSize            \* PAGE_SIZE, in units

ASSUME PageSizeAssumption == PageSize \in Nat \ {0}

\* A range holds the units lo, ..., hi - 1; exec is the kind of the block it
\* was cut from.
RangeRecord == [lo : Nat, hi : Nat, exec : BOOLEAN]

Units(r) == r.lo .. (r.hi - 1)

FreeUnits(fr) == UNION {Units(r) : r \in fr}

Aligned(a) == a % PageSize = 0
RoundDown(a) == a - (a % PageSize)
page_round(a) == RoundDown(a + (PageSize - 1))

-----------------------------------------------------------------------------
\* The whole pages inside lo .. hi-1: the unaligned fringe is not reclaimed.
Snap(lo, hi, x) == [lo |-> page_round(lo), hi |-> RoundDown(hi), exec |-> x]

\* The free ranges of the same kind that touch or overlap r.
Touching(fr, r) ==
  {q \in fr : q.exec = r.exec /\ q.lo <= r.hi /\ r.lo <= q.hi}

\* r and the ranges it touches, as one range.
Merged(fr, r) ==
  LET left  == {q \in Touching(fr, r) : q.lo < r.lo}
      right == {q \in Touching(fr, r) : q.hi > r.hi}
  IN [lo   |-> IF left = {} THEN r.lo ELSE (CHOOSE q \in left : TRUE).lo,
      hi   |-> IF right = {} THEN r.hi ELSE (CHOOSE q \in right : TRUE).hi,
      exec |-> r.exec]

\* Mutant: insertion without the merging pass.
InsertOnly(fr, lo, hi, x) ==
  LET r == Snap(lo, hi, x)
  IN IF r.hi <= r.lo THEN fr ELSE fr \cup {r}

\* Mutant: no early return for a range without a whole page.
AddEmpty(fr, lo, hi, x) ==
  LET r == Snap(lo, hi, x)
  IN (fr \ Touching(fr, r)) \cup {Merged(fr, r)}

\* vita_freerange_add_locked when its malloc succeeds.
Add(fr, lo, hi, x) ==
  LET r == Snap(lo, hi, x)
  IN IF r.hi <= r.lo THEN fr
     ELSE (fr \ Touching(fr, r)) \cup {Merged(fr, r)}

-----------------------------------------------------------------------------
Fitting(fr, len, x) == {r \in fr : r.hi - r.lo >= len /\ r.exec = x}

\* Mutant: the kind of the range is not looked at.
FirstFitAnyKind(fr, len, x) ==
  {r \in fr : /\ r.hi - r.lo >= len
              /\ \A q \in fr : q.hi - q.lo >= len => r.lo <= q.lo}

\* The range vita_freerange_take_locked stops at: the lowest that fits.
FirstFit(fr, len, x) ==
  {r \in Fitting(fr, len, x) : \A q \in Fitting(fr, len, x) : r.lo <= q.lo}

\* Mutant: the range a piece was taken from stays in the list.
KeepTaken(fr, r, len) == fr

\* Its effect: len units are cut off the front of r, the rest stays free.
Carve(fr, r, len) ==
  (fr \ {r}) \cup
  (IF r.hi - r.lo = len THEN {} ELSE {[r EXCEPT !.lo = @ + len]})

\* Mutant: a range is purged only when it starts inside the block.
PurgeStarting(fr, lo, hi) == {r \in fr : ~(lo <= r.lo /\ r.lo < hi)}

\* The purge in munmap: every range that overlaps lo .. hi-1 is dropped, with
\* whatever part of it lies in other blocks.
Purge(fr, lo, hi) == {r \in fr : ~(r.lo < hi /\ r.hi > lo)}

\* Sorted and merged: ranges of one kind neither overlap nor touch, and ranges
\* of different kinds do not overlap.
Separate(fr) ==
  \A r, q \in fr : r # q =>
    IF r.exec = q.exec THEN r.hi < q.lo \/ q.hi < r.lo
                       ELSE r.hi <= q.lo \/ q.hi <= r.lo
=============================================================================
