------------------------------- MODULE PosixMem -------------------------------
(***************************************************************************)
(* What the callers of mmap and munmap rely on, whatever the shim does     *)
(* inside: mmap returns page-aligned memory that nobody holds, munmap gives *)
(* memory back, and nothing else changes what the program holds.           *)
(***************************************************************************)
EXTENDS Integers

CONSTANTS PageSize,   \* units per page
          AddrEnd     \* one past the last address

VARIABLE held         \* the units the program got from mmap and still holds

Init == held = {}

Map == \E lo, hi \in 0 .. AddrEnd :
         /\ lo < hi
         /\ lo % PageSize = 0
         /\ (lo .. (hi - 1)) \cap held = {}
         /\ held' = held \cup (lo .. (hi - 1))

Unmap == \E lo, hi \in 0 .. AddrEnd :
           /\ lo < hi
           /\ held' = held \ (lo .. (hi - 1))

Next == Map \/ Unmap

Spec == Init /\ [][Next]_held
=============================================================================
