------------------------------- MODULE FreeSet --------------------------------
(***************************************************************************)
(* What mmap and munmap rely on from the free list: a set of ranges, changed *)
(* by the operators of FreeRanges, from which the lowest range that fits is *)
(* taken.  VitaMem uses the list this way; FreeList implements it.         *)
(***************************************************************************)
EXTENDS FreeRanges

CONSTANTS AddrEnd,   \* one past the last address
          Sizes      \* the sizes asked for, in whole pages

VARIABLES freeranges,   \* the free ranges
          taken         \* what the last call got: an address, or NoRange

NoRange == -1

\* munmap of a part, or the tail of a VM block: it never overlaps a free range
\* of the other kind (VitaMem, KindsKept).
MayAdd(fr, lo, hi, x) == \A q \in fr : q.exec # x => q.hi <= lo \/ hi <= q.lo

Init == freeranges = {} /\ taken = NoRange

AddRange == \E lo, hi \in 0 .. AddrEnd, x \in BOOLEAN :
              /\ MayAdd(freeranges, lo, hi, x)
              /\ freeranges' = Add(freeranges, lo, hi, x)
              /\ taken' = NoRange

TakeRange == \E len \in Sizes, x \in BOOLEAN :
               \/ \E r \in FirstFit(freeranges, len, x) :
                    /\ freeranges' = Carve(freeranges, r, len)
                    /\ taken' = r.lo
               \/ /\ Fitting(freeranges, len, x) = {}
                  /\ taken' = NoRange
                  /\ UNCHANGED freeranges

PurgeRange == \E lo, hi \in 0 .. AddrEnd :
                /\ lo < hi
                /\ freeranges' = Purge(freeranges, lo, hi)
                /\ taken' = NoRange

Next == AddRange \/ TakeRange \/ PurgeRange

Spec == Init /\ [][Next]_<<freeranges, taken>>
=============================================================================
