------------------------------- MODULE VitaMem --------------------------------
(***************************************************************************)
(* mmap and munmap of vita-shim.c, called by several threads of the        *)
(* runtime.  Memory comes from the kernel in blocks that can only be given *)
(* back whole, so a partial munmap puts the range on a free list from      *)
(* which later mmap calls are served in place.                             *)
(*                                                                         *)
(* vita_map_lock protects the mapping list and the free list: each section *)
(* under the lock is one step.  The kernel calls, the memset of a reused   *)
(* range and the return to the caller happen outside the lock and are      *)
(* steps of their own.                                                     *)
(***************************************************************************)
EXTENDS FreeRanges

CONSTANTS Threads,   \* the threads that call mmap and munmap
          Lens,      \* the lengths asked for, in units (mmap refuses 0)
          AddrEnd,   \* one past the last address the kernel hands out
          VMChunk,   \* VITA_VM_CHUNK: the least size asked of the VM domain
          VMGran     \* the granularity of the VM domain (1 MB)

ASSUME VitaMemAssumption ==
  /\ Lens \subseteq Nat \ {0}
  /\ AddrEnd \in Nat
  /\ VMChunk \in Nat \ {0}
  /\ VMGran \in Nat \ {0}

VARIABLES
  blocks,      \* the memory blocks the kernel has allocated to the process
  mappings,    \* vita_mappings
  freeranges,  \* vita_freeranges
  live,        \* the units the program got from mmap and has not unmapped
  dirty,       \* the units of blocks that may hold something else than zero
  op           \* per thread: the call it is in and the call's locals

vars == <<blocks, mappings, freeranges, live, dirty, op>>

BlockRecord   == [lo : Nat, hi : Nat]
MappingRecord == [lo : Nat, hi : Nat, exec : BOOLEAN, vm : BOOLEAN]

PCs == {"idle",    \* in no call
        "clear",   \* mmap: took a free range, has not cleared it yet
        "ret",     \* mmap: cleared it, about to return it
        "alloc",   \* mmap: no free range fits, about to ask the kernel
        "link",    \* mmap: got a block, about to list it and return
        "kfree"}   \* munmap: unlisted a whole block, about to release it

OpRecord == [pc : PCs, lo : Nat, hi : Nat, len : Nat, exec : BOOLEAN, vm : BOOLEAN]

Idle == [pc |-> "idle", lo |-> 0, hi |-> 0, len |-> 0, exec |-> FALSE, vm |-> FALSE]

\* The memory a call has in its hands.
Held(t) == IF op[t].pc \in {"clear", "ret", "link", "kfree"} THEN Units(op[t]) ELSE {}

HeldByCalls == UNION {Held(t) : t \in Threads}
MappedUnits == UNION {Units(m) : m \in mappings}
KernelUnits == UNION {Units(b) : b \in blocks}

Init == /\ blocks = {}
        /\ mappings = {}
        /\ freeranges = {}
        /\ live = {}
        /\ dirty = {}
        /\ op = [t \in Threads |-> Idle]

-----------------------------------------------------------------------------
(* mmap *)

\* Mutant: a free range is cut by the length asked for, not by whole pages.
TakeRawSize(len) == len

\* The length taken from a free range for a request of len units.
TakeSize(len) == page_round(len)

\* mmap, first section under the lock: reuse the lowest free range that fits...
MmapReuse(t, len, x) ==
  /\ op[t].pc = "idle"
  /\ \E r \in FirstFit(freeranges, TakeSize(len), x) :
       /\ freeranges' = Carve(freeranges, r, TakeSize(len))
       /\ op' = [op EXCEPT ![t] = [pc |-> "clear", lo |-> r.lo, hi |-> r.lo + TakeSize(len),
                                   len |-> len, exec |-> x, vm |-> FALSE]]
  /\ UNCHANGED <<blocks, mappings, live, dirty>>

\* ... or leave the lock to ask the kernel for a block.
MmapMiss(t, len, x) ==
  /\ op[t].pc = "idle"
  /\ Fitting(freeranges, TakeSize(len), x) = {}
  /\ op' = [op EXCEPT ![t] = [Idle EXCEPT !.pc = "alloc", !.len = len, !.exec = x]]
  /\ UNCHANGED <<blocks, mappings, freeranges, live, dirty>>

\* Mutant: the reused range is returned as it was left.
MmapClearSkipped(t) ==
  /\ op[t].pc = "clear"
  /\ op' = [op EXCEPT ![t].pc = "ret"]
  /\ UNCHANGED <<blocks, mappings, freeranges, live, dirty>>

\* memset (reuse, 0, len), after the lock is released.
MmapClear(t) ==
  /\ op[t].pc = "clear"
  /\ dirty' = dirty \ (op[t].lo .. (op[t].lo + op[t].len - 1))
  /\ op' = [op EXCEPT ![t].pc = "ret"]
  /\ UNCHANGED <<blocks, mappings, freeranges, live>>

\* The program holds the pages from now on and may write anything there.
HandOver(lo, hi) == /\ live' = live \cup (lo .. (hi - 1))
                    /\ dirty' = dirty \cup (lo .. (hi - 1))

MmapReuseReturn(t) ==
  /\ op[t].pc = "ret"
  /\ HandOver(op[t].lo, op[t].hi)
  /\ op' = [op EXCEPT ![t] = Idle]
  /\ UNCHANGED <<blocks, mappings, freeranges>>

\* Where the kernel may place a block of this size.
Places(size) ==
  {lo \in PageSize .. (AddrEnd - size) :
     /\ Aligned(lo)
     /\ \A b \in blocks : lo + size <= b.lo \/ b.hi <= lo}

\* The size asked of the VM domain: at least a chunk, in whole granules.
VMSize(alen) ==
  LET n == IF alen < VMChunk THEN VMChunk ELSE alen
  IN (n + (VMGran - 1)) - ((n + (VMGran - 1)) % VMGran)

\* An exec request served by the VM domain: the block is larger than the
\* request, and only the length asked for is cleared.
MmapAllocVM(t) ==
  /\ op[t].pc = "alloc"
  /\ op[t].exec
  /\ LET size == VMSize(page_round(op[t].len))
     IN \E lo \in Places(size) :
          /\ blocks' = blocks \cup {[lo |-> lo, hi |-> lo + size]}
          /\ dirty' = (dirty \cup (lo .. (lo + size - 1))) \ (lo .. (lo + op[t].len - 1))
          /\ op' = [op EXCEPT ![t] = [@ EXCEPT !.pc = "link", !.lo = lo,
                                               !.hi = lo + size, !.vm = TRUE]]
  /\ UNCHANGED <<mappings, freeranges, live>>

\* A plain block, cleared whole: for data, and for an exec request when the VM
\* domain refuses.
MmapAllocData(t) ==
  /\ op[t].pc = "alloc"
  /\ LET size == page_round(op[t].len)
     IN \E lo \in Places(size) :
          /\ blocks' = blocks \cup {[lo |-> lo, hi |-> lo + size]}
          /\ dirty' = dirty \ (lo .. (lo + size - 1))
          /\ op' = [op EXCEPT ![t] = [@ EXCEPT !.pc = "link", !.lo = lo,
                                               !.hi = lo + size, !.vm = FALSE]]
  /\ UNCHANGED <<mappings, freeranges, live>>

\* malloc or every kernel call failed: MAP_FAILED, ENOMEM.
MmapNoMemory(t) ==
  /\ op[t].pc = "alloc"
  /\ op' = [op EXCEPT ![t] = Idle]
  /\ UNCHANGED <<blocks, mappings, freeranges, live, dirty>>

\* What of a new block the request does not use.
Tail(o) == [lo |-> o.lo + page_round(o.len), hi |-> o.hi]

\* mmap, second section under the lock: list the mapping, put the tail of a VM
\* block on the free list (unless its malloc fails), return.
MmapLink(t) ==
  /\ op[t].pc = "link"
  /\ mappings' = mappings \cup {[lo |-> op[t].lo, hi |-> op[t].hi,
                                 exec |-> op[t].exec, vm |-> op[t].vm]}
  /\ \/ op[t].vm /\ freeranges' = Add(freeranges, Tail(op[t]).lo, Tail(op[t]).hi, TRUE)
     \/ UNCHANGED freeranges      \* not a VM block, or no memory for the list entry
  /\ HandOver(op[t].lo, Tail(op[t]).lo)
  /\ op' = [op EXCEPT ![t] = Idle]
  /\ UNCHANGED blocks

-----------------------------------------------------------------------------
(* munmap *)

\* A program only unmaps a range of which it holds something, and none of which
\* another call has in its hands.  The range may be unaligned, may have holes
\* (parts unmapped before) and may extend over several blocks.
MayUnmap(lo, hi) ==
  /\ lo < hi
  /\ (lo .. (hi - 1)) \cap live # {}
  /\ (lo .. (hi - 1)) \cap HeldByCalls = {}

\* The mapping a munmap call is about: it contains the whole range.
Containing(lo, hi) == {m \in mappings : m.lo <= lo /\ hi <= m.hi}

\* No mapping contains the range: EINVAL, and nothing is unmapped.
MunmapNoMatch(lo, hi) ==
  /\ Containing(lo, hi) = {}
  /\ UNCHANGED vars

\* Mutant: the mapping of a released block stays listed.
MunmapWholeListed(t, lo, hi) ==
  /\ \E m \in Containing(lo, hi) : m.lo = lo /\ m.hi = hi
  /\ freeranges' = Purge(freeranges, lo, hi)
  /\ live' = live \ (lo .. (hi - 1))
  /\ op' = [op EXCEPT ![t] = [Idle EXCEPT !.pc = "kfree", !.lo = lo, !.hi = hi]]
  /\ UNCHANGED <<blocks, mappings, dirty>>

\* The range is a whole block: unlist the mapping and purge the free list under
\* the lock, release the block after it.
MunmapWhole(t, lo, hi) ==
  /\ \E m \in Containing(lo, hi) :
       /\ m.lo = lo /\ m.hi = hi
       /\ mappings' = mappings \ {m}
  /\ freeranges' = Purge(freeranges, lo, hi)
  /\ live' = live \ (lo .. (hi - 1))
  /\ op' = [op EXCEPT ![t] = [Idle EXCEPT !.pc = "kfree", !.lo = lo, !.hi = hi]]
  /\ UNCHANGED <<blocks, dirty>>

\* sceKernelFreeMemBlock fails: munmap returns -1 and the block stays allocated,
\* in no list.
MunmapFreeFails(t) ==
  /\ op[t].pc = "kfree"
  /\ op' = [op EXCEPT ![t] = Idle]
  /\ UNCHANGED <<blocks, mappings, freeranges, live, dirty>>

MunmapFree(t) ==
  /\ op[t].pc = "kfree"
  /\ blocks' = blocks \ {[lo |-> op[t].lo, hi |-> op[t].hi]}
  /\ dirty' = dirty \ Units(op[t])
  /\ op' = [op EXCEPT ![t] = Idle]
  /\ UNCHANGED <<mappings, freeranges, live>>

\* A part of a block: its whole pages go on the free list, unless malloc fails.
MunmapPart(t, lo, hi) ==
  /\ \E m \in Containing(lo, hi) :
       /\ ~(m.lo = lo /\ m.hi = hi)
       /\ \/ freeranges' = Add(freeranges, lo, hi, m.exec)
          \/ UNCHANGED freeranges
  /\ live' = live \ (lo .. (hi - 1))
  /\ UNCHANGED <<blocks, mappings, dirty, op>>

-----------------------------------------------------------------------------
Mmap(t) == \/ \E len \in Lens, x \in BOOLEAN : MmapReuse(t, len, x) \/ MmapMiss(t, len, x)
           \/ MmapClear(t) \/ MmapReuseReturn(t)
           \/ MmapAllocVM(t) \/ MmapAllocData(t) \/ MmapNoMemory(t)
           \/ MmapLink(t)

Munmap(t) == \/ /\ op[t].pc = "idle"
                /\ \E lo \in 0 .. AddrEnd : \E hi \in (lo + 1) .. AddrEnd :
                     /\ MayUnmap(lo, hi)
                     /\ \/ MunmapNoMatch(lo, hi)
                        \/ MunmapWhole(t, lo, hi)
                        \/ MunmapPart(t, lo, hi)
             \/ MunmapFree(t) \/ MunmapFreeFails(t)

Next == \E t \in Threads : Mmap(t) \/ Munmap(t)

Spec == Init /\ [][Next]_vars

-----------------------------------------------------------------------------
(* Properties *)

\* Every variable has its type; a free range is never empty or inverted, since
\* vita_freerange_add_locked returns early on a range without a whole page.
TypeOK ==
  /\ blocks \subseteq BlockRecord
  /\ mappings \subseteq MappingRecord
  /\ freeranges \subseteq RangeRecord
  /\ \A r \in freeranges : r.lo < r.hi
  /\ live \subseteq Nat
  /\ dirty \subseteq Nat
  /\ op \in [Threads -> OpRecord]

\* A unit of memory has one owner: the program, the free list, or one call in
\* progress.  So no two mmap calls ever return overlapping memory, and what the
\* program holds is never handed out again.
OneOwner ==
  /\ live \cap FreeUnits(freeranges) = {}
  /\ HeldByCalls \cap (live \cup FreeUnits(freeranges)) = {}
  /\ \A s, t \in Threads : s # t => Held(s) \cap Held(t) = {}

\* What the program holds and what mmap may still hand out from the free list
\* lies in listed mappings: munmap of one block never leaves a free range, or a
\* range merged over a block boundary, pointing into memory given back.
BackedByMapping == live \cup FreeUnits(freeranges) \subseteq MappedUnits

\* What is listed, or in the hands of a call, is allocated by the kernel, also
\* while the lock is not held.
BackedByKernel == MappedUnits \cup HeldByCalls \subseteq KernelUnits

\* mmap only returns page-aligned addresses (the allocator above it asserts
\* that), whatever unaligned ranges were unmapped before.
PageAligned ==
  /\ \A r \in freeranges : Aligned(r.lo) /\ Aligned(r.hi)
  /\ \A t \in Threads : op[t].pc \in {"clear", "ret", "link"} => Aligned(op[t].lo)

\* When mmap is about to return, the length asked for reads as zero, though the
\* range was cleared outside the lock.
ZeroFilled ==
  \A t \in Threads : op[t].pc \in {"ret", "link"} =>
    (op[t].lo .. (op[t].lo + op[t].len - 1)) \cap dirty = {}

\* An exec request is only served from blocks allocated for exec requests, and
\* a data request never: a free range may merge over a block boundary, but not
\* over a boundary between the two kinds.
ExecKind ==
  \A m \in mappings :
    /\ \A r \in freeranges : Units(r) \cap Units(m) # {} => r.exec = m.exec
    /\ \A t \in Threads : /\ op[t].pc \in {"clear", "ret"}
                          /\ Held(t) \cap Units(m) # {}
                          => op[t].exec = m.exec

\* The free list is fully merged: two neighbours of one kind never touch, so a
\* request that fits in adjacent free memory is served from it.
Coalesced == Separate(freeranges)

\* The program sees POSIX mmap: memory it does not hold yet, page-aligned.
Posix == INSTANCE PosixMem WITH held <- live
PosixSpec == Posix!Spec
=============================================================================
