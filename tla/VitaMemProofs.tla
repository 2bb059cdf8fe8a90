---------------------------- MODULE VitaMemProofs -----------------------------
(* Proofs about VitaMem, for every page size, address space and thread set. *)
EXTENDS VitaMem, FreeRangesProofs, TLAPS

\* A mapping, or a call that has a block in its hands, as the kernel knows it.
Extent(o) == [lo |-> o.lo, hi |-> o.hi]

MappedAt(u) == \E m \in mappings : In(u, m)
FreeAt(u) == \E r \in freeranges : In(u, r)

\* The call of thread t has a whole block in its hands, or a piece of one.
HasBlock(t) == op[t].pc \in {"link", "kfree"}
HasRange(t) == op[t].pc \in {"clear", "ret"}

-----------------------------------------------------------------------------
(* The inductive invariant, in named parts.  All of them speak of single     *)
(* units, so that no union or intersection of sets is left in the proofs.    *)

\* The kernel's blocks are not empty and do not overlap.
BlocksApart ==
  /\ \A b \in blocks : b.lo < b.hi /\ b.hi <= AddrEnd
  /\ \A a, b \in blocks : \A u \in Int : In(u, a) /\ In(u, b) => a = b

\* A mapping is a block, and no block is listed twice.
MappingsAreBlocks ==
  /\ \A m \in mappings : Extent(m) \in blocks
  /\ \A m, n \in mappings : Extent(m) = Extent(n) => m = n

\* A block in the hands of a call is listed nowhere, and in no other hands.
HeldBlocks ==
  \A t \in Threads : HasBlock(t) =>
    /\ Extent(op[t]) \in blocks
    /\ \A m \in mappings : Extent(m) # Extent(op[t])
    /\ \A s \in Threads : s # t /\ HasBlock(s) => Extent(op[s]) # Extent(op[t])

\* A piece in the hands of a call is mapped memory that is neither free nor
\* the program's, of the kind the call asked for.
HeldRanges ==
  \A t \in Threads : HasRange(t) => \A u \in Int : In(u, op[t]) =>
    /\ MappedAt(u) /\ ~FreeAt(u) /\ u \notin live
    /\ \A s \in Threads : s # t /\ HasRange(s) => ~In(u, op[s])
    /\ \A m \in mappings : In(u, m) => op[t].exec = m.exec

\* The free list is sorted, merged and page-aligned, and what is on it is
\* mapped memory of the right kind that the program does not hold.
FreeList ==
  /\ RangeSet(freeranges) /\ AllAligned(freeranges) /\ Separate(freeranges)
  /\ \A r \in freeranges : \A u \in Int : In(u, r) =>
       /\ MappedAt(u) /\ u \notin live
       /\ \A m \in mappings : In(u, m) => r.exec = m.exec

LiveMapped == \A u \in live : MappedAt(u)

\* The locals of a call: the length asked for, and how much memory it has.
CallLocals ==
  \A t \in Threads :
    /\ op[t].pc \in {"clear", "ret", "alloc", "link"} => op[t].len \in Lens
    /\ HasRange(t) => /\ op[t].hi = op[t].lo + page_round(op[t].len)
                      /\ Aligned(op[t].lo)
    /\ op[t].pc = "link" => /\ op[t].lo + page_round(op[t].len) <= op[t].hi
                            /\ Aligned(op[t].lo)
                            /\ op[t].vm => op[t].exec

\* ZeroFilled, unit by unit.
Cleared ==
  \A t \in Threads : op[t].pc \in {"ret", "link"} =>
    \A u \in Int : op[t].lo <= u /\ u < op[t].lo + op[t].len => u \notin dirty

IInv == /\ TypeOK
        /\ BlocksApart
        /\ MappingsAreBlocks
        /\ HeldBlocks
        /\ HeldRanges
        /\ FreeList
        /\ LiveMapped
        /\ CallLocals
        /\ Cleared

-----------------------------------------------------------------------------
(* Consequences of the invariant. *)

\* A unit lies in at most one mapping.
LEMMA OneMapping ==
  ASSUME IInv, NEW m \in mappings, NEW n \in mappings,
         NEW u \in Int, In(u, m), In(u, n)
  PROVE  m = n
<1>1. Extent(m) \in blocks /\ Extent(n) \in blocks
  BY DEF IInv, MappingsAreBlocks
<1>2. In(u, Extent(m)) /\ In(u, Extent(n))
  BY DEF In, Extent
<1> QED
  BY <1>1, <1>2 DEF IInv, BlocksApart, MappingsAreBlocks

\* A block in the hands of a call is not mapped, so not free, not the
\* program's, and not in the hands of a call that reuses mapped memory.
LEMMA HeldBlockUnmapped ==
  ASSUME IInv, NEW t \in Threads, HasBlock(t), NEW u \in Int, In(u, op[t])
  PROVE  /\ ~MappedAt(u) /\ ~FreeAt(u) /\ u \notin live
         /\ \A s \in Threads : s # t /\ (HasBlock(s) \/ HasRange(s)) => ~In(u, op[s])
<1>1. In(u, Extent(op[t])) /\ Extent(op[t]) \in blocks
  BY DEF In, Extent, IInv, HeldBlocks
<1>2. ASSUME NEW m \in mappings PROVE ~In(u, m)
  <2>1. Extent(m) \in blocks /\ Extent(m) # Extent(op[t])
    BY DEF IInv, MappingsAreBlocks, HeldBlocks
  <2>2. In(u, m) => In(u, Extent(m))
    BY DEF In, Extent
  <2> QED BY <1>1, <2>1, <2>2 DEF IInv, BlocksApart
<1>3. ~MappedAt(u)
  BY <1>2 DEF MappedAt
<1>4. ~FreeAt(u) /\ u \notin live
  BY <1>3 DEF IInv, FreeList, LiveMapped, FreeAt
<1>5. ASSUME NEW s \in Threads, s # t, HasBlock(s) PROVE ~In(u, op[s])
  <2>1. Extent(op[s]) \in blocks /\ Extent(op[s]) # Extent(op[t])
    BY <1>5 DEF IInv, HeldBlocks
  <2>2. In(u, op[s]) => In(u, Extent(op[s]))
    BY DEF In, Extent
  <2> QED BY <1>1, <2>1, <2>2 DEF IInv, BlocksApart
<1>6. ASSUME NEW s \in Threads, HasRange(s) PROVE ~In(u, op[s])
  BY <1>3, <1>6 DEF IInv, HeldRanges
<1> QED
  BY <1>3, <1>4, <1>5, <1>6

\* The length asked for lies in the memory the call has in its hands.
LEMMA CallFits ==
  ASSUME IInv, NEW t \in Threads, op[t].pc \in {"clear", "ret", "link"}, NEW u \in Int,
         op[t].lo <= u, u < op[t].lo + op[t].len
  PROVE  In(u, op[t])
<1>1. op[t] \in OpRecord /\ op[t].len \in Lens /\ op[t].len \in Nat
  BY VitaMemAssumption DEF IInv, TypeOK, CallLocals
<1>2. op[t].lo + page_round(op[t].len) <= op[t].hi
  <2>1. page_round(op[t].len) \in Nat
    BY <1>1, PageRoundProps
  <2>2. HasRange(t) \/ op[t].pc = "link"
    BY DEF HasRange
  <2> QED BY <1>1, <2>1, <2>2, SMT DEF IInv, CallLocals, OpRecord
<1>3. op[t].len <= page_round(op[t].len) /\ page_round(op[t].len) \in Nat
  BY <1>1, PageRoundProps
<1> QED
  BY <1>1, <1>2, <1>3, SMT DEF In, OpRecord

\* The invariant holds initially.
LEMMA InitIInv == Init => IInv
  BY SMT DEF Init, IInv, TypeOK, BlocksApart, MappingsAreBlocks, HeldBlocks, HeldRanges,
     FreeList, LiveMapped, CallLocals, Cleared, RangeSet, AllAligned, Separate,
     HasBlock, HasRange, Idle, OpRecord, PCs

\* Mmap reuses a free range.
LEMMA ReuseStep ==
  ASSUME IInv, NEW t \in Threads, NEW len \in Lens, NEW x \in BOOLEAN,
         MmapReuse(t, len, x)
  PROVE  IInv'
<1>1. PICK r \in FirstFit(freeranges, TakeSize(len), x) :
        /\ freeranges' = Carve(freeranges, r, TakeSize(len))
        /\ op' = [op EXCEPT ![t] = [pc |-> "clear", lo |-> r.lo, hi |-> r.lo + TakeSize(len),
                                    len |-> len, exec |-> x, vm |-> FALSE]]
  BY DEF MmapReuse
<1>2. UNCHANGED <<blocks, mappings, live, dirty>> /\ op[t].pc = "idle"
  BY DEF MmapReuse
<1> DEFINE size == TakeSize(len)
<1>3. /\ len \in Nat \ {0} /\ size \in Nat \ {0} /\ len <= size /\ Aligned(size)
      /\ size = page_round(len)
  BY VitaMemAssumption, PageRoundProps, SMT DEF TakeSize
<1> HIDE DEF size
<1>4. /\ r \in freeranges /\ r.exec = x /\ size <= r.hi - r.lo
      /\ r.lo \in Nat /\ r.hi \in Nat /\ Aligned(r.lo)
  BY <1>3, SMT DEF FirstFit, Fitting, IInv, FreeList, RangeSet, AllAligned, RangeRecord, size
<1>5. /\ RangeSet(freeranges') /\ AllAligned(freeranges') /\ Separate(freeranges')
      /\ \A q \in freeranges' :
           /\ q.hi <= r.lo \/ r.lo + size <= q.lo
           /\ \E p \in freeranges : p.exec = q.exec /\ p.lo <= q.lo /\ q.hi <= p.hi
  BY <1>1, <1>3, <1>4, CarveProps DEF IInv, FreeList, size
<1>6. /\ \A s \in Threads : s # t => op'[s] = op[s]
      /\ op'[t] = [pc |-> "clear", lo |-> r.lo, hi |-> r.lo + size,
                   len |-> len, exec |-> x, vm |-> FALSE]
      /\ op'[t].pc = "clear" /\ op'[t].lo = r.lo /\ op'[t].hi = r.lo + size
      /\ op'[t].len = len /\ op'[t].exec = x
  BY <1>1, <1>4 DEF IInv, TypeOK, size
<1>7. \A q \in freeranges' : \A u \in Int : In(u, q) =>
        \E p \in freeranges : p.exec = q.exec /\ In(u, p)
  BY <1>5, SMT DEF In, RangeSet, RangeRecord, IInv, FreeList
<1>8. TypeOK'
  <2>1. op' \in [Threads -> OpRecord]
    BY <1>1, <1>3, <1>4, SMT DEF IInv, TypeOK, OpRecord, PCs, size
  <2> QED BY <1>2, <1>5, <2>1 DEF IInv, TypeOK, RangeSet
<1>9. BlocksApart' /\ MappingsAreBlocks' /\ LiveMapped'
  BY <1>2 DEF IInv, BlocksApart, MappingsAreBlocks, LiveMapped, MappedAt
<1>10. HeldBlocks'
  BY <1>2, <1>6 DEF IInv, HeldBlocks, HasBlock
<1>11. HeldRanges'
  <2>1. SUFFICES ASSUME NEW s \in Threads, HasRange(s)', NEW u \in Int, In(u, op[s])'
                 PROVE  /\ MappedAt(u)' /\ ~FreeAt(u)' /\ u \notin live'
                        /\ \A q \in Threads : q # s /\ HasRange(q)' => ~In(u, op[q])'
                        /\ \A m \in mappings' : In(u, m) => op[s]'.exec = m.exec
    BY DEF HeldRanges
  <2>2. \A q \in Threads : q # t /\ HasRange(q)' => HasRange(q) /\ op'[q] = op[q]
    BY <1>6 DEF HasRange
  <2>3. In(u, op'[t]) => In(u, r) /\ ~FreeAt(u)'
    BY <1>3, <1>4, <1>5, <1>6, SMT DEF In, FreeAt, RangeSet, RangeRecord
  <2>4. FreeAt(u)' => FreeAt(u)
    BY <1>7 DEF FreeAt
  <2>5. CASE s = t
    BY <1>2, <1>4, <1>6, <2>1, <2>2, <2>3, <2>5 DEF IInv, FreeList, HeldRanges, FreeAt, MappedAt
  <2>6. CASE s # t
    BY <1>2, <1>4, <1>6, <2>1, <2>2, <2>3, <2>4, <2>6 DEF IInv, HeldRanges, FreeAt, MappedAt
  <2> QED BY <2>5, <2>6
<1>12. FreeList'
  BY <1>2, <1>5, <1>7 DEF IInv, FreeList, MappedAt
<1>13. CallLocals'
  BY <1>3, <1>4, <1>6 DEF IInv, CallLocals, HasRange
<1>14. Cleared'
  BY <1>2, <1>6 DEF IInv, Cleared
<1> QED
  BY <1>8, <1>9, <1>10, <1>11, <1>12, <1>13, <1>14 DEF IInv

\* A call whose pc goes to "idle" or "alloc" gives up what it had; nothing else
\* changes (MmapMiss, MmapNoMemory, MunmapFreeFails).
LEMMA DropStep ==
  ASSUME IInv, NEW t \in Threads, op'[t] \in OpRecord, op'[t].pc \in {"idle", "alloc"},
         op'[t].pc = "alloc" => op'[t].len \in Lens,
         op' = [op EXCEPT ![t] = op'[t]],
         UNCHANGED <<blocks, mappings, freeranges, live, dirty>>
  PROVE  IInv'
<1>1. /\ \A s \in Threads : s # t => op'[s] = op[s]
      /\ op' \in [Threads -> OpRecord]
  BY DEF IInv, TypeOK
<1>2. TypeOK' /\ BlocksApart' /\ MappingsAreBlocks' /\ LiveMapped' /\ FreeList'
  BY <1>1 DEF IInv, TypeOK, BlocksApart, MappingsAreBlocks, LiveMapped, MappedAt, FreeList
<1>3. HeldBlocks'
  BY <1>1 DEF IInv, HeldBlocks, HasBlock
<1>4. HeldRanges'
  BY <1>1 DEF IInv, HeldRanges, HasRange, MappedAt, FreeAt
<1>5. CallLocals'
  BY <1>1 DEF IInv, CallLocals, HasRange
<1>6. Cleared'
  BY <1>1 DEF IInv, Cleared
<1> QED
  BY <1>2, <1>3, <1>4, <1>5, <1>6 DEF IInv

\* mmap that finds no free range keeps the invariant.
LEMMA MissStep ==
  ASSUME IInv, NEW t \in Threads, NEW len \in Lens, NEW x \in BOOLEAN,
         MmapMiss(t, len, x)
  PROVE  IInv'
<1>1. PICK o : o = [Idle EXCEPT !.pc = "alloc", !.len = len, !.exec = x]
  OBVIOUS
<1>2. o = [pc |-> "alloc", lo |-> 0, hi |-> 0, len |-> len, exec |-> x, vm |-> FALSE]
  BY <1>1 DEF Idle
<1>3. o \in OpRecord /\ o.pc = "alloc" /\ o.len = len
  <2>1. len \in Nat /\ "alloc" \in PCs
    BY VitaMemAssumption DEF PCs
  <2> QED BY <1>2, <2>1 DEF OpRecord
<1>4. op' = [op EXCEPT ![t] = o] /\ op'[t] = o
  BY <1>1 DEF MmapMiss, IInv, TypeOK
<1> QED
  BY <1>3, <1>4, DropStep DEF MmapMiss

\* mmap that gets no memory keeps it.
LEMMA NoMemoryStep ==
  ASSUME IInv, NEW t \in Threads, MmapNoMemory(t) \/ MunmapFreeFails(t)
  PROVE  IInv'
<1>1. Idle \in OpRecord /\ Idle.pc = "idle"
  BY SMT DEF Idle, OpRecord, PCs
<1>2. op' = [op EXCEPT ![t] = Idle]
  BY DEF MmapNoMemory, MunmapFreeFails
<1>3. op'[t] = Idle
  BY <1>2 DEF IInv, TypeOK
<1> QED
  BY <1>1, <1>2, <1>3, DropStep DEF MmapNoMemory, MunmapFreeFails

\* mmap clears the range it took.
LEMMA ClearStep ==
  ASSUME IInv, NEW t \in Threads, MmapClear(t)
  PROVE  IInv'
<1>1. /\ op[t].pc = "clear" /\ op' = [op EXCEPT ![t].pc = "ret"]
      /\ dirty' = dirty \ (op[t].lo .. (op[t].lo + op[t].len - 1))
      /\ UNCHANGED <<blocks, mappings, freeranges, live>>
  BY DEF MmapClear
<1>2. op[t] \in OpRecord
  BY DEF IInv, TypeOK
<1>3. /\ \A s \in Threads : s # t => op'[s] = op[s]
      /\ op'[t] = [op[t] EXCEPT !.pc = "ret"]
      /\ op' \in [Threads -> OpRecord]
  BY <1>1, <1>2, SMT DEF IInv, TypeOK, OpRecord, PCs
<1>4. /\ op'[t].pc = "ret" /\ op'[t].lo = op[t].lo /\ op'[t].hi = op[t].hi
      /\ op'[t].len = op[t].len /\ op'[t].exec = op[t].exec
  BY <1>2, <1>3 DEF OpRecord
<1>5. TypeOK' /\ BlocksApart' /\ MappingsAreBlocks' /\ LiveMapped' /\ FreeList'
  BY <1>1, <1>3 DEF IInv, TypeOK, BlocksApart, MappingsAreBlocks, LiveMapped, MappedAt, FreeList
<1>6. HeldBlocks'
  BY <1>1, <1>3, <1>4 DEF IInv, HeldBlocks, HasBlock
<1>7. \A s \in Threads : /\ HasRange(s)' = HasRange(s) /\ op'[s].exec = op[s].exec
                         /\ \A u \in Int : In(u, op'[s]) = In(u, op[s])
  BY <1>1, <1>3, <1>4 DEF HasRange, In
<1>8. HeldRanges'
  BY <1>1, <1>7 DEF IInv, HeldRanges, MappedAt, FreeAt
<1>9. CallLocals'
  BY <1>1, <1>3, <1>4 DEF IInv, CallLocals, HasRange
<1>10. Cleared'
  <2>1. \A u \in Int : op[t].lo <= u /\ u < op[t].lo + op[t].len => u \notin dirty'
    BY <1>1, <1>2, SMT DEF OpRecord
  <2> QED BY <1>1, <1>3, <1>4, <2>1 DEF IInv, Cleared
<1> QED
  BY <1>5, <1>6, <1>8, <1>9, <1>10 DEF IInv

\* The program gets the range and may write to it.
LEMMA ReuseReturnStep ==
  ASSUME IInv, NEW t \in Threads, MmapReuseReturn(t)
  PROVE  IInv'
<1>1. /\ op[t].pc = "ret" /\ op' = [op EXCEPT ![t] = Idle]
      /\ live' = live \cup (op[t].lo .. (op[t].hi - 1))
      /\ dirty' = dirty \cup (op[t].lo .. (op[t].hi - 1))
      /\ UNCHANGED <<blocks, mappings, freeranges>>
  BY DEF MmapReuseReturn, HandOver
<1>2. op[t] \in OpRecord /\ Idle \in OpRecord /\ Idle.pc = "idle" /\ HasRange(t)
  BY <1>1, SMT DEF IInv, TypeOK, Idle, OpRecord, PCs, HasRange
<1>3. /\ \A s \in Threads : s # t => op'[s] = op[s]
      /\ op'[t] = Idle /\ op' \in [Threads -> OpRecord]
  BY <1>1, <1>2 DEF IInv, TypeOK
<1>4. \A u \in Int : u \in op[t].lo .. (op[t].hi - 1) <=> In(u, op[t])
  BY <1>2, SMT DEF In, OpRecord
<1>5. op[t].lo .. (op[t].hi - 1) \subseteq Nat
  BY <1>2, SMT DEF OpRecord
<1>6. /\ \A u \in live' : u \in live \/ (u \in Int /\ In(u, op[t]))
      /\ \A u \in dirty' : u \in dirty \/ (u \in Int /\ In(u, op[t]))
  BY <1>1, <1>4, <1>5, SMT
<1>7. TypeOK'
  BY <1>1, <1>3, <1>5 DEF IInv, TypeOK
<1>8. BlocksApart' /\ MappingsAreBlocks'
  BY <1>1 DEF IInv, BlocksApart, MappingsAreBlocks
<1>9. HeldBlocks'
  BY <1>1, <1>2, <1>3 DEF IInv, HeldBlocks, HasBlock
<1>10. \A s \in Threads : HasRange(s)' => s # t /\ HasRange(s) /\ op'[s] = op[s]
  BY <1>2, <1>3 DEF HasRange
<1>11. HeldRanges'
  BY <1>1, <1>2, <1>6, <1>10 DEF IInv, HeldRanges, MappedAt, FreeAt
<1>12. FreeList'
  <2>1. \A r \in freeranges : \A u \in Int : In(u, r) => ~In(u, op[t])
    BY <1>2 DEF IInv, HeldRanges, FreeAt
  <2> QED BY <1>1, <1>6, <2>1 DEF IInv, FreeList, MappedAt
<1>13. LiveMapped'
  BY <1>1, <1>2, <1>6 DEF IInv, LiveMapped, HeldRanges, MappedAt
<1>14. CallLocals'
  BY <1>2, <1>3 DEF IInv, CallLocals, HasRange
<1>15. Cleared'
  <2>1. SUFFICES ASSUME NEW s \in Threads, op'[s].pc \in {"ret", "link"}, NEW u \in Int,
                        op'[s].lo <= u, u < op'[s].lo + op'[s].len
                 PROVE  u \notin dirty'
    BY DEF Cleared
  <2>2. s # t /\ op'[s] = op[s]
    BY <1>2, <1>3, <2>1
  <2>3. u \notin dirty
    BY <2>1, <2>2 DEF IInv, Cleared
  <2>4. In(u, op[s])
    BY <2>1, <2>2, CallFits
  <2>5. ~In(u, op[t])
    <3>1. CASE HasRange(s)
      BY <1>2, <2>2, <2>4, <3>1 DEF IInv, HeldRanges
    <3>2. CASE HasBlock(s)
      BY <1>2, <2>2, <2>4, <3>2, HeldBlockUnmapped
    <3> QED BY <2>1, <2>2, <3>1, <3>2 DEF HasRange, HasBlock
  <2> QED BY <1>6, <2>3, <2>5
<1> QED
  BY <1>7, <1>8, <1>9, <1>11, <1>12, <1>13, <1>14, <1>15 DEF IInv

-----------------------------------------------------------------------------
(* The kernel allocates a block: what MmapAllocVM and MmapAllocData share. *)

\* A new block from the kernel, cleared at least over the length asked for, keeps it.
LEMMA NewBlockStep ==
  ASSUME IInv, NEW t \in Threads, op[t].pc = "alloc",
         NEW size \in Nat \ {0}, NEW lo \in Places(size),
         page_round(op[t].len) <= size,
         NEW vm \in BOOLEAN, vm => op[t].exec,
         blocks' = blocks \cup {[lo |-> lo, hi |-> lo + size]},
         op' = [op EXCEPT ![t] = [@ EXCEPT !.pc = "link", !.lo = lo, !.hi = lo + size, !.vm = vm]],
         dirty' \subseteq dirty \cup (lo .. (lo + size - 1)),
         \A u \in Int : lo <= u /\ u < lo + op[t].len => u \notin dirty',
         UNCHANGED <<mappings, freeranges, live>>
  PROVE  IInv'
<1> DEFINE b == [lo |-> lo, hi |-> lo + size]
<1>1. /\ lo \in Nat /\ lo + size \in Nat /\ lo < lo + size /\ lo + size <= AddrEnd
      /\ Aligned(lo)
      /\ \A a \in blocks : lo + size <= a.lo \/ a.hi <= lo
  BY PageSizeAssumption, VitaMemAssumption, SMT DEF Places
<1>2. /\ b.lo = lo /\ b.hi = lo + size /\ b \in BlockRecord
  BY <1>1 DEF BlockRecord
<1> HIDE DEF b
<1>3. op[t] \in OpRecord
  BY DEF IInv, TypeOK
<1>4. PICK o : o = [op[t] EXCEPT !.pc = "link", !.lo = lo, !.hi = lo + size, !.vm = vm]
  OBVIOUS
<1>5. /\ o.pc = "link" /\ o.lo = lo /\ o.hi = lo + size /\ o.vm = vm
      /\ o.len = op[t].len /\ o.exec = op[t].exec
      /\ o \in OpRecord
  <2>1. "link" \in PCs
    BY DEF PCs
  <2> QED BY <1>1, <1>3, <1>4, <2>1 DEF OpRecord
<1>6. /\ \A s \in Threads : s # t => op'[s] = op[s]
      /\ op'[t] = o
      /\ op' \in [Threads -> OpRecord]
  BY <1>4, <1>5 DEF IInv, TypeOK
<1>7. \A a \in blocks : \A u \in Int : In(u, a) => ~In(u, b)
  BY <1>1, <1>2, SMT DEF In, IInv, TypeOK, BlockRecord
<1>8. b \notin blocks
  <2>1. In(lo, b) /\ lo \in Int
    BY <1>1, <1>2, SMT DEF In
  <2> QED BY <1>7, <2>1
<1>9. blocks' = blocks \cup {b} /\ Extent(o) = b
  BY <1>5 DEF b, Extent
<1>10. TypeOK'
  <2>1. dirty' \subseteq Nat
    <3>1. lo .. (lo + size - 1) \subseteq Nat
      BY <1>1, SMT
    <3> QED BY <3>1 DEF IInv, TypeOK
  <2> QED BY <1>2, <1>6, <1>9, <2>1 DEF IInv, TypeOK
<1>11. BlocksApart'
  <2>1. \A a \in blocks' : a.lo < a.hi /\ a.hi <= AddrEnd
    BY <1>1, <1>2, <1>9 DEF IInv, BlocksApart
  <2>2. ASSUME NEW a \in blocks', NEW c \in blocks', NEW u \in Int, In(u, a), In(u, c)
        PROVE  a = c
    BY <1>7, <1>9, <2>2 DEF IInv, BlocksApart
  <2> QED BY <2>1, <2>2 DEF BlocksApart
<1>12. MappingsAreBlocks'
  BY <1>9 DEF IInv, MappingsAreBlocks
<1>13. HeldBlocks'
  <2>1. \A m \in mappings : Extent(m) # b
    BY <1>8 DEF IInv, MappingsAreBlocks
  <2>2. \A s \in Threads : HasBlock(s) => Extent(op[s]) \in blocks /\ Extent(op[s]) # b
    BY <1>8 DEF IInv, HeldBlocks
  <2>3. \A s \in Threads : s # t => HasBlock(s)' = HasBlock(s) /\ op'[s] = op[s]
    BY <1>6 DEF HasBlock
  <2> QED BY <1>6, <1>9, <2>1, <2>2, <2>3 DEF IInv, HeldBlocks
<1>14. HeldRanges'
  <2>1. \A s \in Threads : HasRange(s)' => s # t /\ HasRange(s) /\ op'[s] = op[s]
    BY <1>5, <1>6 DEF HasRange
  <2> QED BY <2>1 DEF IInv, HeldRanges, MappedAt, FreeAt
<1>15. FreeList' /\ LiveMapped'
  BY DEF IInv, FreeList, LiveMapped, MappedAt
<1>16. CallLocals'
  <2>1. lo + page_round(op[t].len) <= lo + size
    <3>1. op[t].len \in Nat
      BY VitaMemAssumption DEF IInv, CallLocals
    <3> QED BY <1>1, <3>1, PageRoundProps, SMT
  <2> QED BY <1>1, <1>5, <1>6, <2>1 DEF IInv, CallLocals, HasRange
<1>17. Cleared'
  <2>1. SUFFICES ASSUME NEW s \in Threads, op'[s].pc \in {"ret", "link"}, NEW u \in Int,
                        op'[s].lo <= u, u < op'[s].lo + op'[s].len
                 PROVE  u \notin dirty'
    BY DEF Cleared
  <2>2. CASE s = t
    BY <1>5, <1>6, <2>1, <2>2
  <2>3. CASE s # t
    <3>1. op'[s] = op[s] /\ u \notin dirty
      BY <1>6, <2>1, <2>3 DEF IInv, Cleared
    <3>2. In(u, op[s])
      BY <2>1, <3>1, CallFits
    <3>3. \E a \in blocks : In(u, a)
      <4>1. CASE HasRange(s)
        <5>1. PICK m \in mappings : In(u, m)
          BY <3>2, <4>1 DEF IInv, HeldRanges, MappedAt
        <5> QED BY <5>1 DEF IInv, MappingsAreBlocks, Extent, In
      <4>2. CASE HasBlock(s)
        BY <3>2, <4>2 DEF IInv, HeldBlocks, Extent, In
      <4> QED BY <2>1, <3>1, <4>1, <4>2 DEF HasRange, HasBlock
    <3>4. u \notin lo .. (lo + size - 1)
      BY <1>1, <1>2, <1>7, <3>3, SMT DEF In
    <3> QED BY <3>1, <3>4
  <2> QED BY <2>2, <2>3
<1> QED
  BY <1>10, <1>11, <1>12, <1>13, <1>14, <1>15, <1>16, <1>17 DEF IInv

\* A block of the VM domain is at least as large as the request.
LEMMA VMSizeProps ==
  ASSUME NEW alen \in Nat
  PROVE  VMSize(alen) \in Nat \ {0} /\ alen <= VMSize(alen)
<1> DEFINE n == IF alen < VMChunk THEN VMChunk ELSE alen
           a == n + (VMGran - 1)
<1>1. n \in Nat \ {0} /\ alen <= n
  BY VitaMemAssumption, SMT
<1>2. VMSize(alen) = a - (a % VMGran)
  BY DEF VMSize
<1> HIDE DEF n
<1>3. a \in Nat /\ a >= n
  BY <1>1, VitaMemAssumption, SMT
<1>4. a % VMGran \in 0 .. (VMGran - 1)
  BY <1>3, VitaMemAssumption, SMT
<1> QED
  BY <1>1, <1>2, <1>3, <1>4, VitaMemAssumption, SMT

\* In state "alloc" the length rounded up to pages is a positive number.
LEMMA AllocLen ==
  ASSUME IInv, NEW t \in Threads, op[t].pc \in {"alloc", "link"}
  PROVE  /\ op[t].len \in Nat \ {0}
         /\ page_round(op[t].len) \in Nat \ {0}
         /\ op[t].len <= page_round(op[t].len)
<1>1. op[t].len \in Nat \ {0}
  BY VitaMemAssumption DEF IInv, CallLocals
<1> QED BY <1>1, PageRoundProps, SMT

\* A block of the VM domain keeps the invariant.
LEMMA AllocVMStep ==
  ASSUME IInv, NEW t \in Threads, MmapAllocVM(t)
  PROVE  IInv'
<1> DEFINE size == VMSize(page_round(op[t].len))
<1>1. /\ op[t].pc = "alloc" /\ op[t].exec
      /\ UNCHANGED <<mappings, freeranges, live>>
  BY DEF MmapAllocVM
<1>2. PICK lo \in Places(size) :
        /\ blocks' = blocks \cup {[lo |-> lo, hi |-> lo + size]}
        /\ dirty' = (dirty \cup (lo .. (lo + size - 1))) \ (lo .. (lo + op[t].len - 1))
        /\ op' = [op EXCEPT ![t] = [@ EXCEPT !.pc = "link", !.lo = lo,
                                              !.hi = lo + size, !.vm = TRUE]]
  BY DEF MmapAllocVM
<1>3. op[t].len \in Nat \ {0} /\ page_round(op[t].len) \in Nat \ {0}
  BY <1>1, AllocLen
<1>4. size \in Nat \ {0} /\ page_round(op[t].len) <= size
  BY <1>3, VMSizeProps
<1> HIDE DEF size
<1>5. lo \in Int
  BY <1>4, PageSizeAssumption, VitaMemAssumption, SMT DEF Places
<1>6. \A u \in Int : lo <= u /\ u < lo + op[t].len => u \notin dirty'
  BY <1>2, <1>3, <1>5, SMT
<1>7. dirty' \subseteq dirty \cup (lo .. (lo + size - 1))
  BY <1>2
<1> QED
  BY <1>1, <1>2, <1>4, <1>6, <1>7, NewBlockStep

\* A plain block keeps it.
LEMMA AllocDataStep ==
  ASSUME IInv, NEW t \in Threads, MmapAllocData(t)
  PROVE  IInv'
<1> DEFINE size == page_round(op[t].len)
<1>1. op[t].pc = "alloc" /\ UNCHANGED <<mappings, freeranges, live>>
  BY DEF MmapAllocData
<1>2. PICK lo \in Places(size) :
        /\ blocks' = blocks \cup {[lo |-> lo, hi |-> lo + size]}
        /\ dirty' = dirty \ (lo .. (lo + size - 1))
        /\ op' = [op EXCEPT ![t] = [@ EXCEPT !.pc = "link", !.lo = lo,
                                              !.hi = lo + size, !.vm = FALSE]]
  BY DEF MmapAllocData
<1>3. op[t].len \in Nat \ {0} /\ size \in Nat \ {0} /\ op[t].len <= size
  BY <1>1, AllocLen
<1>4. page_round(op[t].len) <= size
  BY <1>3, SMT
<1> HIDE DEF size
<1>5. lo \in Int
  BY <1>3, PageSizeAssumption, VitaMemAssumption, SMT DEF Places
<1>6. \A u \in Int : lo <= u /\ u < lo + op[t].len => u \notin dirty'
  BY <1>2, <1>3, <1>5, SMT
<1>7. dirty' \subseteq dirty \cup (lo .. (lo + size - 1))
  BY <1>2
<1> QED
  BY <1>1, <1>2, <1>3, <1>4, <1>6, <1>7, NewBlockStep

-----------------------------------------------------------------------------
(* The remaining steps under the lock. *)

\* The new block is listed, its tail goes on the free list.
LEMMA LinkStep ==
  ASSUME IInv, NEW t \in Threads, MmapLink(t)
  PROVE  IInv'
<1> DEFINE o == op[t]
           m == [lo |-> o.lo, hi |-> o.hi, exec |-> o.exec, vm |-> o.vm]
           mid == o.lo + page_round(o.len)
<1>1. /\ o.pc = "link" /\ mappings' = mappings \cup {m}
      /\ op' = [op EXCEPT ![t] = Idle]
      /\ live' = live \cup (o.lo .. (mid - 1)) /\ dirty' = dirty \cup (o.lo .. (mid - 1))
      /\ UNCHANGED blocks
  BY DEF MmapLink, HandOver, Tail
<1>2. (o.vm /\ freeranges' = Add(freeranges, mid, o.hi, TRUE)) \/ freeranges' = freeranges
  BY DEF MmapLink, Tail
<1>3. o \in OpRecord /\ HasBlock(t)
  BY <1>1 DEF IInv, TypeOK, HasBlock
<1>4. m.lo = o.lo /\ m.hi = o.hi /\ m.exec = o.exec /\ m \in MappingRecord
  BY <1>3 DEF OpRecord, MappingRecord
<1>5. /\ o.lo \in Nat /\ o.hi \in Nat /\ mid \in Nat /\ o.lo < mid /\ mid <= o.hi
      /\ o.vm => o.exec = TRUE
  <2>1. page_round(o.len) \in Nat \ {0}
    BY <1>1, AllocLen
  <2>2. mid <= o.hi /\ (o.vm => o.exec = TRUE)
    BY <1>1, <1>3 DEF IInv, CallLocals, OpRecord
  <2> QED BY <1>3, <2>1, <2>2, SMT DEF OpRecord
<1>6. \A u \in Int : In(u, o) = In(u, m)
  BY <1>4 DEF In
<1>7. /\ \A s \in Threads : s # t => op'[s] = op[s]
      /\ op'[t] = Idle /\ Idle.pc = "idle" /\ op' \in [Threads -> OpRecord]
  BY <1>1, SMT DEF IInv, TypeOK, Idle, OpRecord, PCs
<1>8. \A u \in Int : In(u, o) =>
        /\ ~MappedAt(u) /\ ~FreeAt(u) /\ u \notin live
        /\ \A s \in Threads : s # t /\ (HasBlock(s) \/ HasRange(s)) => ~In(u, op[s])
  BY <1>3, HeldBlockUnmapped
<1> HIDE DEF m, o, mid
<1>9. \A u \in Int : u \in o.lo .. (mid - 1) => In(u, o) /\ u < mid
  BY <1>5, SMT DEF In
<1>10. /\ RangeSet(freeranges) /\ Separate(freeranges) /\ AllAligned(freeranges)
       /\ \A q \in freeranges : q.lo \in Nat /\ q.hi \in Nat /\ q.lo < q.hi
  BY DEF IInv, FreeList, RangeSet, RangeRecord
<1>11. ASSUME NEW q \in freeranges PROVE q.hi <= mid \/ o.hi <= q.lo
  <2>1. SUFFICES ASSUME mid < q.hi, q.lo < o.hi PROVE FALSE
    BY <1>5, <1>10, SMT
  <2>2. PICK u \in Int : u = IF q.lo < o.lo THEN o.lo ELSE q.lo
    BY <1>5, <1>10
  <2>3. In(u, q) /\ In(u, o)
    BY <1>5, <1>10, <2>1, <2>2, SMT DEF In
  <2> QED BY <1>8, <2>3 DEF FreeAt
<1>12. RangeSet(freeranges') /\ AllAligned(freeranges') /\ Separate(freeranges')
  BY <1>2, <1>5, <1>10, <1>11, AddType, AddSeparate
<1>13. ASSUME NEW q \in freeranges', NEW u \in Int, In(u, q)
       PROVE  \/ mid <= u /\ In(u, o) /\ q.exec = m.exec
              \/ \E p \in freeranges : In(u, p) /\ p.exec = q.exec
  <2>1. CASE freeranges' = freeranges
    BY <1>13, <2>1
  <2>2. CASE o.vm /\ freeranges' = Add(freeranges, mid, o.hi, TRUE)
    <3>1. (mid <= u /\ u < o.hi /\ q.exec = o.exec) \/ \E p \in freeranges : In(u, p) /\ p.exec = q.exec
      <4>1. PICK x \in BOOLEAN : x = TRUE
        OBVIOUS
      <4>2. q \in Add(freeranges, mid, o.hi, x) /\ o.exec = x
        BY <1>5, <1>13, <2>2, <4>1
      <4> QED BY <1>5, <1>10, <1>13, <4>2, AddUnits
    <3>2. mid <= u /\ u < o.hi => In(u, o)
      BY <1>5, SMT DEF In
    <3> QED BY <1>4, <3>1, <3>2
  <2> QED BY <1>2, <2>1, <2>2
<1>14. \A u \in Int : FreeAt(u)' => FreeAt(u) \/ In(u, o)
  BY <1>13 DEF FreeAt
<1>15. \A u \in Int : MappedAt(u)' <=> MappedAt(u) \/ In(u, o)
  BY <1>1, <1>6 DEF MappedAt
<1>16. \A u \in live' : u \in live \/ (u \in Int /\ In(u, o) /\ u < mid)
  BY <1>1, <1>5, <1>9, SMT
<1>17. TypeOK'
  <2>1. o.lo .. (mid - 1) \subseteq Nat
    BY <1>5, SMT
  <2> QED BY <1>1, <1>4, <1>7, <1>12, <2>1 DEF IInv, TypeOK, RangeSet
<1>18. BlocksApart'
  BY <1>1 DEF IInv, BlocksApart
<1>19. Extent(m) = Extent(o)
  BY <1>4 DEF Extent
<1>20. MappingsAreBlocks'
  BY <1>1, <1>3, <1>19 DEF IInv, MappingsAreBlocks, HeldBlocks, o
<1>21. HeldBlocks'
  BY <1>1, <1>3, <1>7, <1>19 DEF IInv, HeldBlocks, HasBlock, o
<1>22. HeldRanges'
  <2>1. SUFFICES ASSUME NEW s \in Threads, HasRange(s)', NEW u \in Int, In(u, op[s])'
                 PROVE  /\ MappedAt(u)' /\ ~FreeAt(u)' /\ u \notin live'
                        /\ \A q \in Threads : q # s /\ HasRange(q)' => ~In(u, op[q])'
                        /\ \A n \in mappings' : In(u, n) => op[s]'.exec = n.exec
    BY DEF HeldRanges
  <2>2. \A q \in Threads : HasRange(q)' => q # t /\ HasRange(q) /\ op'[q] = op[q]
    BY <1>7 DEF HasRange
  <2>3. ~In(u, o)
    BY <1>8, <2>1, <2>2
  <2>4. \A n \in mappings' : In(u, n) => n \in mappings
    BY <1>1, <1>6, <2>3
  <2> QED BY <1>14, <1>15, <1>16, <2>1, <2>2, <2>3, <2>4 DEF IInv, HeldRanges
<1>23. FreeList'
  <2>1. SUFFICES ASSUME NEW r \in freeranges', NEW u \in Int, In(u, r)
                 PROVE  /\ MappedAt(u)' /\ u \notin live'
                        /\ \A n \in mappings' : In(u, n) => r.exec = n.exec
    BY <1>12 DEF FreeList
  <2>2. CASE mid <= u /\ In(u, o) /\ r.exec = m.exec
    <3>1. u \notin live'
      BY <1>5, <1>8, <1>16, <2>2, SMT
    <3>2. \A n \in mappings' : In(u, n) => n = m
      BY <1>1, <1>8, <2>2 DEF MappedAt
    <3> QED BY <1>15, <2>2, <3>1, <3>2
  <2>3. CASE \E p \in freeranges : In(u, p) /\ p.exec = r.exec
    <3>1. PICK p \in freeranges : In(u, p) /\ p.exec = r.exec
      BY <2>3
    <3>2. ~In(u, o)
      BY <1>8, <3>1 DEF FreeAt
    <3>3. \A n \in mappings' : In(u, n) => n \in mappings
      BY <1>1, <1>6, <3>2
    <3> QED BY <1>15, <1>16, <3>1, <3>2, <3>3 DEF IInv, FreeList
  <2> QED BY <1>13, <2>1, <2>2, <2>3
<1>24. LiveMapped'
  <2>1. live \subseteq Int
    BY DEF IInv, TypeOK
  <2> QED BY <1>15, <1>16, <2>1 DEF IInv, LiveMapped
<1>25. CallLocals'
  BY <1>7 DEF IInv, CallLocals, HasRange
<1>26. Cleared'
  <2>1. SUFFICES ASSUME NEW s \in Threads, op'[s].pc \in {"ret", "link"}, NEW u \in Int,
                        op'[s].lo <= u, u < op'[s].lo + op'[s].len
                 PROVE  u \notin dirty'
    BY DEF Cleared
  <2>2. s # t /\ op'[s] = op[s]
    BY <1>7, <2>1
  <2>3. u \notin dirty
    BY <2>1, <2>2 DEF IInv, Cleared
  <2>4. In(u, op[s]) /\ (HasBlock(s) \/ HasRange(s))
    BY <2>1, <2>2, CallFits DEF HasBlock, HasRange
  <2>5. ~In(u, o)
    BY <1>8, <2>2, <2>4
  <2> QED BY <1>1, <1>9, <2>3, <2>5
<1> QED
  BY <1>17, <1>18, <1>20, <1>21, <1>22, <1>23, <1>24, <1>25, <1>26 DEF IInv

\* munmap unlists a whole block and purges the free list.
LEMMA WholeStep ==
  ASSUME IInv, NEW t \in Threads, op[t].pc = "idle",
         NEW lo \in Nat, NEW hi \in Nat, MayUnmap(lo, hi), MunmapWhole(t, lo, hi)
  PROVE  IInv'
<1>1. /\ freeranges' = Purge(freeranges, lo, hi)
      /\ live' = live \ (lo .. (hi - 1))
      /\ op' = [op EXCEPT ![t] = [Idle EXCEPT !.pc = "kfree", !.lo = lo, !.hi = hi]]
      /\ UNCHANGED <<blocks, dirty>>
  BY DEF MunmapWhole
<1>2. PICK m \in mappings : m.lo = lo /\ m.hi = hi /\ mappings' = mappings \ {m}
  BY DEF MunmapWhole, Containing
<1>3. PICK o : o = [Idle EXCEPT !.pc = "kfree", !.lo = lo, !.hi = hi]
  OBVIOUS
<1>4. o = [pc |-> "kfree", lo |-> lo, hi |-> hi, len |-> 0, exec |-> FALSE, vm |-> FALSE]
  BY <1>3 DEF Idle
<1>5. o \in OpRecord /\ o.pc = "kfree" /\ o.lo = lo /\ o.hi = hi
  <2>1. "kfree" \in PCs
    BY DEF PCs
  <2> QED BY <1>4, <2>1 DEF OpRecord
<1>6. /\ \A s \in Threads : s # t => op'[s] = op[s]
      /\ op'[t] = o /\ op' \in [Threads -> OpRecord]
  BY <1>1, <1>3, <1>5 DEF IInv, TypeOK
<1>7. lo < hi
  BY DEF MayUnmap
<1>8. \A u \in Int : In(u, m) <=> lo <= u /\ u < hi
  BY <1>2 DEF In
<1>9. /\ \A u \in Int : u \in lo .. (hi - 1) <=> In(u, m)
      /\ live \subseteq Int
  BY <1>8, SMT DEF IInv, TypeOK
<1>10. \A s \in Threads : \A u \in Int :
         HasRange(s) /\ In(u, op[s]) => ~In(u, m)
  <2>1. SUFFICES ASSUME NEW s \in Threads, NEW u \in Int, HasRange(s), In(u, op[s]), In(u, m)
                 PROVE  FALSE
    OBVIOUS
  <2>2. op[s] \in OpRecord
    BY DEF IInv, TypeOK
  <2>3. u \in Held(s)
    BY <2>1, <2>2, SMT DEF Held, HasRange, Units, In, OpRecord
  <2>4. u \in HeldByCalls
    BY <2>3 DEF HeldByCalls
  <2> QED BY <1>9, <2>1, <2>4 DEF MayUnmap
<1>11. /\ freeranges' \subseteq freeranges
       /\ \A q \in freeranges' : q.hi <= lo \/ hi <= q.lo
  BY <1>1, <1>7, PurgeProps DEF IInv, FreeList
<1>12. \A q \in freeranges' : \A u \in Int : In(u, q) => ~In(u, m)
  BY <1>8, <1>11, SMT DEF In, IInv, FreeList, RangeSet, RangeRecord
<1>13. \A u \in Int : ~In(u, m) => (MappedAt(u)' <=> MappedAt(u))
  BY <1>2 DEF MappedAt
<1>14. \A u \in live' : u \in live /\ u \in Int /\ ~In(u, m)
  BY <1>1, <1>9
<1>15. TypeOK'
  BY <1>1, <1>2, <1>6, <1>11 DEF IInv, TypeOK
<1>16. BlocksApart' /\ MappingsAreBlocks'
  BY <1>1, <1>2 DEF IInv, BlocksApart, MappingsAreBlocks
<1>17. Extent(o) = Extent(m)
  BY <1>2, <1>5 DEF Extent
<1>18. HeldBlocks'
  BY <1>1, <1>2, <1>6, <1>17 DEF IInv, HeldBlocks, HasBlock, MappingsAreBlocks
<1>19. HeldRanges'
  <2>1. SUFFICES ASSUME NEW s \in Threads, HasRange(s)', NEW u \in Int, In(u, op[s])'
                 PROVE  /\ MappedAt(u)' /\ ~FreeAt(u)' /\ u \notin live'
                        /\ \A q \in Threads : q # s /\ HasRange(q)' => ~In(u, op[q])'
                        /\ \A n \in mappings' : In(u, n) => op[s]'.exec = n.exec
    BY DEF HeldRanges
  <2>2. \A q \in Threads : HasRange(q)' => q # t /\ HasRange(q) /\ op'[q] = op[q]
    BY <1>5, <1>6 DEF HasRange
  <2>3. ~In(u, m)
    BY <1>10, <2>1, <2>2
  <2>4. ~FreeAt(u)' /\ u \notin live'
    BY <1>11, <1>14, <2>1, <2>2 DEF IInv, HeldRanges, FreeAt
  <2> QED BY <1>2, <1>13, <2>1, <2>2, <2>3, <2>4 DEF IInv, HeldRanges
<1>20. FreeList'
  <2>1. RangeSet(freeranges') /\ AllAligned(freeranges') /\ Separate(freeranges')
    BY <1>11 DEF IInv, FreeList, RangeSet, AllAligned, Separate
  <2> QED BY <1>2, <1>11, <1>12, <1>13, <1>14, <2>1 DEF IInv, FreeList
<1>21. LiveMapped'
  BY <1>13, <1>14 DEF IInv, LiveMapped
<1>22. CallLocals'
  BY <1>5, <1>6 DEF IInv, CallLocals, HasRange
<1>23. Cleared'
  BY <1>1, <1>5, <1>6 DEF IInv, Cleared
<1> QED
  BY <1>15, <1>16, <1>18, <1>19, <1>20, <1>21, <1>22, <1>23 DEF IInv

\* The kernel takes the block back.
LEMMA FreeStep ==
  ASSUME IInv, NEW t \in Threads, MunmapFree(t)
  PROVE  IInv'
<1>1. /\ op[t].pc = "kfree" /\ HasBlock(t)
      /\ blocks' = blocks \ {Extent(op[t])}
      /\ dirty' \subseteq dirty
      /\ op' = [op EXCEPT ![t] = Idle]
      /\ UNCHANGED <<mappings, freeranges, live>>
  BY DEF MunmapFree, HasBlock, Extent
<1>2. /\ \A s \in Threads : s # t => op'[s] = op[s]
      /\ op'[t] = Idle /\ Idle.pc = "idle" /\ op' \in [Threads -> OpRecord]
  BY <1>1, SMT DEF IInv, TypeOK, Idle, OpRecord, PCs
<1>3. TypeOK'
  BY <1>1, <1>2 DEF IInv, TypeOK
<1>4. BlocksApart' /\ LiveMapped' /\ FreeList'
  BY <1>1 DEF IInv, BlocksApart, LiveMapped, FreeList, MappedAt
<1>5. MappingsAreBlocks'
  BY <1>1 DEF IInv, MappingsAreBlocks, HeldBlocks
<1>6. HeldBlocks'
  BY <1>1, <1>2 DEF IInv, HeldBlocks, HasBlock
<1>7. HeldRanges'
  <2>1. \A s \in Threads : HasRange(s)' => s # t /\ HasRange(s) /\ op'[s] = op[s]
    BY <1>2 DEF HasRange
  <2> QED BY <1>1, <2>1 DEF IInv, HeldRanges, MappedAt, FreeAt
<1>8. CallLocals'
  BY <1>2 DEF IInv, CallLocals, HasRange
<1>9. Cleared'
  BY <1>1, <1>2 DEF IInv, Cleared
<1> QED
  BY <1>3, <1>4, <1>5, <1>6, <1>7, <1>8, <1>9 DEF IInv

\* A part of a block goes on the free list.
LEMMA PartStep ==
  ASSUME IInv, NEW t \in Threads, NEW lo \in Nat, NEW hi \in Nat,
         MayUnmap(lo, hi), MunmapPart(t, lo, hi)
  PROVE  IInv'
<1>1. live' = live \ (lo .. (hi - 1)) /\ UNCHANGED <<blocks, mappings, dirty, op>>
  BY DEF MunmapPart
<1>2. PICK m \in mappings :
        /\ m.lo <= lo /\ hi <= m.hi
        /\ freeranges' = Add(freeranges, lo, hi, m.exec) \/ freeranges' = freeranges
  BY DEF MunmapPart, Containing
<1>3. m.lo \in Nat /\ m.hi \in Nat /\ m.exec \in BOOLEAN /\ lo < hi
  BY DEF IInv, TypeOK, MappingRecord, MayUnmap
<1>4. \A u \in Int : lo <= u /\ u < hi => In(u, m) /\ u \in lo .. (hi - 1) /\ u \notin live'
  BY <1>1, <1>2, <1>3, SMT DEF In
<1>5. /\ RangeSet(freeranges) /\ Separate(freeranges) /\ AllAligned(freeranges)
      /\ \A q \in freeranges : q.lo \in Nat /\ q.hi \in Nat /\ q.lo < q.hi
  BY DEF IInv, FreeList, RangeSet, RangeRecord
<1>6. ASSUME NEW q \in freeranges, q.exec # m.exec
      PROVE  q.hi <= lo \/ hi <= q.lo
  <2>1. SUFFICES ASSUME lo < q.hi, q.lo < hi PROVE FALSE
    BY <1>5, SMT
  <2>2. PICK u \in Int : u = IF q.lo < lo THEN lo ELSE q.lo
    BY <1>5
  <2>3. In(u, q) /\ In(u, m)
    BY <1>2, <1>3, <1>5, <2>1, <2>2, SMT DEF In
  <2> QED BY <1>6, <2>3 DEF IInv, FreeList
<1>7. RangeSet(freeranges') /\ AllAligned(freeranges') /\ Separate(freeranges')
  <2>1. CASE freeranges' = freeranges
    BY <1>5, <2>1
  <2>2. CASE freeranges' = Add(freeranges, lo, hi, m.exec)
    BY <1>3, <1>5, <1>6, <2>2, AddType, AddSeparate
  <2> QED BY <1>2, <2>1, <2>2
<1>8. ASSUME NEW q \in freeranges', NEW u \in Int, In(u, q)
      PROVE  \/ lo <= u /\ u < hi /\ q.exec = m.exec
             \/ \E p \in freeranges : In(u, p) /\ p.exec = q.exec
  <2>1. CASE freeranges' = freeranges
    BY <1>8, <2>1
  <2>2. CASE freeranges' = Add(freeranges, lo, hi, m.exec)
    <3>1. q \in Add(freeranges, lo, hi, m.exec)
      BY <1>8, <2>2
    <3> QED BY <1>3, <1>5, <1>8, <3>1, AddUnits
  <2> QED BY <1>2, <2>1, <2>2
<1>9. \A s \in Threads : \A u \in Int :
        HasRange(s) /\ In(u, op[s]) => ~(lo <= u /\ u < hi)
  <2>1. SUFFICES ASSUME NEW s \in Threads, NEW u \in Int, HasRange(s), In(u, op[s]),
                        lo <= u, u < hi
                 PROVE  FALSE
    OBVIOUS
  <2>2. op[s] \in OpRecord
    BY DEF IInv, TypeOK
  <2>3. u \in Held(s)
    BY <2>1, <2>2, SMT DEF Held, HasRange, Units, In, OpRecord
  <2>4. u \in HeldByCalls
    BY <2>3 DEF HeldByCalls
  <2> QED BY <1>4, <2>1, <2>4 DEF MayUnmap
<1>10. TypeOK'
  BY <1>1, <1>7 DEF IInv, TypeOK, RangeSet
<1>11. BlocksApart' /\ MappingsAreBlocks' /\ HeldBlocks' /\ CallLocals' /\ Cleared'
  BY <1>1 DEF IInv, BlocksApart, MappingsAreBlocks, HeldBlocks, HasBlock, CallLocals,
              HasRange, Cleared
<1>12. LiveMapped'
  BY <1>1 DEF IInv, LiveMapped, MappedAt
<1>13. HeldRanges'
  <2>1. SUFFICES ASSUME NEW s \in Threads, HasRange(s), NEW u \in Int, In(u, op[s])
                 PROVE  ~FreeAt(u)'
    BY <1>1 DEF IInv, HeldRanges, HasRange, MappedAt
  <2>2. ~FreeAt(u)
    BY <2>1 DEF IInv, HeldRanges
  <2> QED BY <1>8, <1>9, <2>1, <2>2 DEF FreeAt
<1>14. FreeList'
  <2>1. SUFFICES ASSUME NEW r \in freeranges', NEW u \in Int, In(u, r)
                 PROVE  /\ MappedAt(u) /\ u \notin live'
                        /\ \A n \in mappings : In(u, n) => r.exec = n.exec
    BY <1>1, <1>7 DEF FreeList, MappedAt
  <2>2. CASE lo <= u /\ u < hi /\ r.exec = m.exec
    BY <1>4, <2>2, OneMapping DEF MappedAt
  <2>3. CASE \E p \in freeranges : In(u, p) /\ p.exec = r.exec
    BY <1>1, <2>3 DEF IInv, FreeList
  <2> QED BY <1>8, <2>1, <2>2, <2>3
<1> QED
  BY <1>10, <1>11, <1>12, <1>13, <1>14 DEF IInv

-----------------------------------------------------------------------------
\* Every step preserves the invariant.
LEMMA NextIInv == IInv /\ [Next]_vars => IInv'
<1>1. SUFFICES ASSUME IInv, [Next]_vars PROVE IInv'
  OBVIOUS
<1>2. CASE UNCHANGED vars
  BY <1>1, <1>2 DEF vars, IInv, TypeOK, BlocksApart, MappingsAreBlocks, HeldBlocks, HeldRanges,
     FreeList, LiveMapped, CallLocals, Cleared, HasBlock, HasRange, MappedAt, FreeAt
<1>3. ASSUME NEW t \in Threads, Mmap(t) PROVE IInv'
  BY <1>1, <1>3, ReuseStep, MissStep, ClearStep, ReuseReturnStep, AllocVMStep, AllocDataStep,
     NoMemoryStep, LinkStep DEF Mmap
<1>4. ASSUME NEW t \in Threads, Munmap(t) PROVE IInv'
  <2>1. CASE MunmapFree(t) \/ MunmapFreeFails(t)
    BY <1>1, <2>1, FreeStep, NoMemoryStep
  <2>2. ASSUME op[t].pc = "idle", NEW lo \in 0 .. AddrEnd, NEW hi \in (lo + 1) .. AddrEnd,
               MayUnmap(lo, hi),
               MunmapNoMatch(lo, hi) \/ MunmapWhole(t, lo, hi) \/ MunmapPart(t, lo, hi)
        PROVE  IInv'
    <3>1. lo \in Nat /\ hi \in Nat
      BY VitaMemAssumption, SMT
    <3>2. CASE MunmapNoMatch(lo, hi)
      BY <1>2, <3>2 DEF MunmapNoMatch
    <3>3. CASE MunmapWhole(t, lo, hi)
      BY <1>1, <2>2, <3>1, <3>3, WholeStep
    <3>4. CASE MunmapPart(t, lo, hi)
      BY <1>1, <2>2, <3>1, <3>4, PartStep
    <3> QED BY <2>2, <3>2, <3>3, <3>4
  <2> QED BY <1>4, <2>1, <2>2 DEF Munmap
<1> QED
  BY <1>1, <1>2, <1>3, <1>4 DEF Next

\* The inductive invariant holds in every reachable state.
THEOREM Invariance == Spec => []IInv
  BY InitIInv, NextIInv, PTL DEF Spec

-----------------------------------------------------------------------------
(* The properties of VitaMem follow from the invariant. *)

\* The units of a range, block, mapping or call are the integers in it.
LEMMA UnitsIn ==
  ASSUME NEW r, r.lo \in Int, r.hi \in Int
  PROVE  \A u : u \in Units(r) <=> u \in Int /\ In(u, r)
  BY SMT DEF Units, In

\* What the set-valued definitions of VitaMem say of a single unit.
LEMMA SetsByUnit ==
  ASSUME IInv
  PROVE  /\ \A u : u \in FreeUnits(freeranges) <=> u \in Int /\ FreeAt(u)
         /\ \A u : u \in MappedUnits <=> u \in Int /\ MappedAt(u)
         /\ \A u : u \in KernelUnits <=> u \in Int /\ \E b \in blocks : In(u, b)
         /\ \A t \in Threads : \A u : u \in Held(t) <=>
              u \in Int /\ (HasBlock(t) \/ HasRange(t)) /\ In(u, op[t])
         /\ live \subseteq Int
<1>1. \A r \in freeranges : r.lo \in Int /\ r.hi \in Int
  BY SMT DEF IInv, TypeOK, RangeRecord
<1>2. \A m \in mappings : m.lo \in Int /\ m.hi \in Int
  BY SMT DEF IInv, TypeOK, MappingRecord
<1>3. \A b \in blocks : b.lo \in Int /\ b.hi \in Int
  BY SMT DEF IInv, TypeOK, BlockRecord
<1>4. \A t \in Threads : op[t].lo \in Int /\ op[t].hi \in Int
  BY SMT DEF IInv, TypeOK, OpRecord
<1>5. \A u : u \in FreeUnits(freeranges) <=> u \in Int /\ FreeAt(u)
  BY <1>1, UnitsIn DEF FreeUnits, FreeAt
<1>6. \A u : u \in MappedUnits <=> u \in Int /\ MappedAt(u)
  BY <1>2, UnitsIn DEF MappedUnits, MappedAt
<1>7. \A u : u \in KernelUnits <=> u \in Int /\ \E b \in blocks : In(u, b)
  BY <1>3, UnitsIn DEF KernelUnits
<1>8. ASSUME NEW t \in Threads, NEW u
      PROVE  u \in Held(t) <=> u \in Int /\ (HasBlock(t) \/ HasRange(t)) /\ In(u, op[t])
  <2>1. u \in Units(op[t]) <=> u \in Int /\ In(u, op[t])
    BY <1>4, UnitsIn
  <2> QED BY <2>1 DEF Held, HasBlock, HasRange
<1>9. live \subseteq Int
  BY SMT DEF IInv, TypeOK
<1> QED
  BY <1>5, <1>6, <1>7, <1>8, <1>9

\* One owner per unit of memory, from the parts of the invariant.
LEMMA IInvOneOwner == IInv => OneOwner
<1> SUFFICES ASSUME IInv PROVE OneOwner
  OBVIOUS
<1>1. live \cap FreeUnits(freeranges) = {}
  BY SetsByUnit DEF IInv, FreeList, FreeAt
<1>2. ASSUME NEW t \in Threads, NEW u \in Held(t)
      PROVE  /\ u \notin live /\ u \notin FreeUnits(freeranges)
             /\ \A s \in Threads : s # t => u \notin Held(s)
  <2>1. u \in Int /\ (HasBlock(t) \/ HasRange(t)) /\ In(u, op[t])
    BY SetsByUnit
  <2>2. CASE HasBlock(t)
    BY <2>1, <2>2, HeldBlockUnmapped, SetsByUnit
  <2>3. CASE HasRange(t)
    <3>1. /\ MappedAt(u) /\ ~FreeAt(u) /\ u \notin live
          /\ \A s \in Threads : s # t /\ HasRange(s) => ~In(u, op[s])
      BY <2>1, <2>3 DEF IInv, HeldRanges
    <3>2. \A s \in Threads : HasBlock(s) => ~In(u, op[s])
      BY <2>1, <3>1, HeldBlockUnmapped
    <3> QED BY <3>1, <3>2, SetsByUnit
  <2> QED BY <2>1, <2>2, <2>3
<1>3. HeldByCalls \cap (live \cup FreeUnits(freeranges)) = {}
  BY <1>2 DEF HeldByCalls
<1>4. \A s, t \in Threads : s # t => Held(s) \cap Held(t) = {}
  BY <1>2
<1> QED
  BY <1>1, <1>3, <1>4 DEF OneOwner

\* Nothing dangles, from the parts of the invariant.
LEMMA IInvBacked == IInv => BackedByMapping /\ BackedByKernel
<1> SUFFICES ASSUME IInv PROVE BackedByMapping /\ BackedByKernel
  OBVIOUS
<1>1. BackedByMapping
  BY SetsByUnit DEF BackedByMapping, IInv, LiveMapped, FreeList, FreeAt
<1>2. \A u \in Int : MappedAt(u) => u \in KernelUnits
  <2>1. SUFFICES ASSUME NEW u \in Int, NEW m \in mappings, In(u, m) PROVE u \in KernelUnits
    BY DEF MappedAt
  <2>2. Extent(m) \in blocks /\ In(u, Extent(m))
    BY <2>1 DEF IInv, MappingsAreBlocks, Extent, In
  <2> QED BY <2>1, <2>2, SetsByUnit
<1>3. ASSUME NEW t \in Threads, NEW u \in Held(t) PROVE u \in KernelUnits
  <2>1. u \in Int /\ (HasBlock(t) \/ HasRange(t)) /\ In(u, op[t])
    BY SetsByUnit
  <2>2. CASE HasBlock(t)
    <3>1. Extent(op[t]) \in blocks /\ In(u, Extent(op[t]))
      BY <2>1, <2>2 DEF IInv, HeldBlocks, Extent, In
    <3> QED BY <2>1, <3>1, SetsByUnit
  <2>3. CASE HasRange(t)
    BY <1>2, <2>1, <2>3 DEF IInv, HeldRanges
  <2> QED BY <2>1, <2>2, <2>3
<1>4. BackedByKernel
  BY <1>2, <1>3, SetsByUnit DEF BackedByKernel, HeldByCalls
<1> QED
  BY <1>1, <1>4

\* ZeroFilled is Cleared, as an intersection.
LEMMA IInvZeroFilled == IInv => ZeroFilled
<1> SUFFICES ASSUME IInv, NEW t \in Threads, op[t].pc \in {"ret", "link"}
             PROVE  (op[t].lo .. (op[t].lo + op[t].len - 1)) \cap dirty = {}
  BY DEF ZeroFilled
<1>1. op[t].lo \in Int /\ op[t].len \in Int
  BY SMT DEF IInv, TypeOK, OpRecord
<1>2. \A u : u \in op[t].lo .. (op[t].lo + op[t].len - 1) =>
              u \in Int /\ op[t].lo <= u /\ u < op[t].lo + op[t].len
  BY <1>1, SMT
<1> QED
  BY <1>2 DEF IInv, Cleared

\* Free ranges and reused ranges have the kind of their mapping.
LEMMA IInvExecKind == IInv => ExecKind
<1> SUFFICES ASSUME IInv PROVE ExecKind
  OBVIOUS
<1>1. \A m \in mappings : m.lo \in Int /\ m.hi \in Int
  BY SMT DEF IInv, TypeOK, MappingRecord
<1>2. \A r \in freeranges : r.lo \in Int /\ r.hi \in Int
  BY SMT DEF IInv, TypeOK, RangeRecord
<1>3. ASSUME NEW m \in mappings, NEW r \in freeranges, NEW u \in Units(r) \cap Units(m)
      PROVE  r.exec = m.exec
  <2>1. u \in Int /\ In(u, r) /\ In(u, m)
    BY <1>1, <1>2, UnitsIn
  <2> QED BY <2>1 DEF IInv, FreeList
<1>4. ASSUME NEW m \in mappings, NEW t \in Threads, op[t].pc \in {"clear", "ret"},
             NEW u \in Held(t) \cap Units(m)
      PROVE  op[t].exec = m.exec
  <2>1. u \in Int /\ In(u, op[t]) /\ In(u, m)
    BY <1>1, UnitsIn, SetsByUnit
  <2> QED BY <1>4, <2>1 DEF IInv, HeldRanges, HasRange
<1> QED
  BY <1>3, <1>4 DEF ExecKind

\* Free ranges and new blocks are page-aligned.
LEMMA IInvPageAligned == IInv => PageAligned
  BY DEF IInv, PageAligned, FreeList, AllAligned, CallLocals, HasRange

\* Every variable keeps its type, and a free range is never empty.
THEOREM TypeCorrect == Spec => []TypeOK
  BY Invariance, PTL DEF IInv

\* A unit of memory has one owner: mmap never hands out memory twice, whatever
\* the threads do between the two sections under the lock.
THEOREM MmapExclusive == Spec => []OneOwner
  BY Invariance, IInvOneOwner, PTL

\* Neither the program nor the free list ever refers to memory given back.
THEOREM NothingDangles == Spec => [](BackedByMapping /\ BackedByKernel)
  BY Invariance, IInvBacked, PTL

\* In particular the kernel has it allocated, also between the two steps of a
\* munmap that gives a block back.
THEOREM KernelBacked == Spec => []BackedByKernel
  BY NothingDangles, PTL

\* mmap returns page-aligned memory whatever unaligned ranges were unmapped.
THEOREM MmapAligned == Spec => []PageAligned
  BY Invariance, IInvPageAligned, PTL

\* mmap returns memory that reads as zero, though it is cleared outside the lock.
THEOREM MmapZeroed == Spec => []ZeroFilled
  BY Invariance, IInvZeroFilled, PTL

\* Exec memory is never handed out for data, nor data memory for code.
THEOREM KindsKept == Spec => []ExecKind
  BY Invariance, IInvExecKind, PTL

\* No two ranges on the free list overlap, and none of one kind touch.
THEOREM FullyMerged == Spec => []Coalesced
<1>1. IInv => Coalesced
  BY DEF IInv, FreeList, Coalesced
<1> QED
  BY <1>1, Invariance, PTL

-----------------------------------------------------------------------------
(* The program sees POSIX mmap: every step maps to a step of PosixMem. *)

\* A call with memory to return has it inside the address space.
LEMMA HeldInSpace ==
  ASSUME IInv, NEW t \in Threads, HasBlock(t) \/ HasRange(t)
  PROVE  op[t].lo \in Nat /\ op[t].hi \in Nat /\ (op[t].lo < op[t].hi => op[t].hi <= AddrEnd)
<1>1. op[t].lo \in Nat /\ op[t].hi \in Nat
  BY DEF IInv, TypeOK, OpRecord
<1>2. CASE HasBlock(t)
  BY <1>1, <1>2 DEF IInv, HeldBlocks, BlocksApart, Extent
<1>3. CASE HasRange(t)
  <2>1. SUFFICES ASSUME op[t].lo < op[t].hi PROVE op[t].hi <= AddrEnd
    BY <1>1
  <2>2. PICK u \in Int : u = op[t].hi - 1
    BY <1>1, SMT
  <2>3. In(u, op[t])
    BY <1>1, <2>1, <2>2, SMT DEF In
  <2>4. PICK m \in mappings : In(u, m)
    BY <1>3, <2>3 DEF IInv, HeldRanges, MappedAt
  <2>5. m.hi <= AddrEnd
    BY <2>4 DEF IInv, MappingsAreBlocks, BlocksApart, Extent
  <2>6. m.hi \in Nat
    BY DEF IInv, TypeOK, MappingRecord
  <2> QED BY <1>1, <2>2, <2>4, <2>5, <2>6, VitaMemAssumption, SMT DEF In
<1> QED
  BY <1>2, <1>3

\* Handing memory to the program is the Map of PosixMem.
LEMMA ReturnIsMap ==
  ASSUME IInv, NEW t \in Threads, HasBlock(t) \/ HasRange(t),
         NEW hi \in Nat, op[t].lo < hi, hi <= op[t].hi, Aligned(op[t].lo),
         live' = live \cup (op[t].lo .. (hi - 1))
  PROVE  Posix!Map
<1> DEFINE lo == op[t].lo
<1>1. /\ lo \in Nat /\ op[t].hi \in Nat /\ op[t].hi <= AddrEnd
  BY HeldInSpace, SMT
<1>2. lo \in 0 .. AddrEnd /\ hi \in 0 .. AddrEnd
  BY <1>1, VitaMemAssumption, SMT
<1>3. \A u : u \in lo .. (hi - 1) => u \in Int /\ In(u, op[t])
  BY <1>1, SMT DEF In
<1>4. \A u \in Int : In(u, op[t]) => u \notin live
  BY HeldBlockUnmapped DEF IInv, HeldRanges
<1>5. (lo .. (hi - 1)) \cap live = {}
  BY <1>3, <1>4
<1> QED
  BY <1>2, <1>5 DEF Posix!Map, Aligned

\* Every step maps, unmaps, or leaves alone what the program holds.
LEMMA StepRefines == IInv /\ [Next]_vars => [Posix!Next]_live
<1>1. SUFFICES ASSUME IInv, [Next]_vars PROVE [Posix!Next]_live
  OBVIOUS
<1>2. CASE UNCHANGED vars
  BY <1>2 DEF vars
<1>3. ASSUME NEW t \in Threads, MmapReuseReturn(t) PROVE Posix!Map
  <2>1. /\ HasRange(t) /\ live' = live \cup (op[t].lo .. (op[t].hi - 1))
        /\ op[t].pc = "ret"
    BY <1>3 DEF MmapReuseReturn, HandOver, HasRange
  <2>2. op[t].len \in Nat \ {0} /\ op[t].hi = op[t].lo + page_round(op[t].len)
        /\ Aligned(op[t].lo)
    BY <1>1, <2>1, VitaMemAssumption DEF IInv, CallLocals
  <2>3. op[t].lo \in Nat /\ op[t].hi \in Nat
    BY <1>1 DEF IInv, TypeOK, OpRecord
  <2>4. op[t].lo < op[t].hi /\ op[t].hi <= op[t].hi
    BY <2>2, <2>3, PageRoundProps, SMT
  <2> QED BY <1>1, <2>1, <2>2, <2>3, <2>4, ReturnIsMap
<1>4. ASSUME NEW t \in Threads, MmapLink(t) PROVE Posix!Map
  <2>1. PICK hi : hi = Tail(op[t]).lo
    OBVIOUS
  <2>2. /\ HasBlock(t) /\ op[t].pc = "link"
        /\ live' = live \cup (op[t].lo .. (hi - 1))
    BY <1>4, <2>1 DEF MmapLink, HandOver, HasBlock
  <2>3. hi = op[t].lo + page_round(op[t].len)
    BY <2>1 DEF Tail
  <2>4. page_round(op[t].len) \in Nat \ {0}
    BY <1>1, <2>2, AllocLen
  <2>5. Aligned(op[t].lo) /\ op[t].lo + page_round(op[t].len) <= op[t].hi
    BY <1>1, <2>2 DEF IInv, CallLocals
  <2>6. op[t].lo \in Nat
    BY <1>1 DEF IInv, TypeOK, OpRecord
  <2>7. hi \in Nat /\ op[t].lo < hi /\ hi <= op[t].hi
    BY <2>3, <2>4, <2>5, <2>6, SMT
  <2> QED BY <1>1, <2>2, <2>5, <2>7, ReturnIsMap
<1>5. ASSUME NEW t \in Threads, NEW lo \in 0 .. AddrEnd, NEW hi \in (lo + 1) .. AddrEnd,
             MunmapWhole(t, lo, hi) \/ MunmapPart(t, lo, hi)
      PROVE  Posix!Unmap
  <2>1. lo < hi /\ hi \in 0 .. AddrEnd
    BY VitaMemAssumption, SMT
  <2>2. live' = live \ (lo .. (hi - 1))
    BY <1>5 DEF MunmapWhole, MunmapPart
  <2> QED BY <2>1, <2>2 DEF Posix!Unmap
<1>6. ASSUME NEW t \in Threads, Mmap(t) PROVE [Posix!Next]_live
  BY <1>3, <1>4, <1>6 DEF Mmap, MmapReuse, MmapMiss, MmapClear, MmapAllocVM, MmapAllocData,
     MmapNoMemory, Posix!Next
<1>7. ASSUME NEW t \in Threads, Munmap(t) PROVE [Posix!Next]_live
  BY <1>5, <1>7 DEF Munmap, MunmapNoMatch, MunmapFree, MunmapFreeFails, vars, Posix!Next
<1> QED
  BY <1>1, <1>2, <1>6, <1>7 DEF Next

\* mmap and munmap of the shim implement what their callers rely on.
THEOREM Refinement == Spec => PosixSpec
<1>1. Init => Posix!Init
  BY DEF Init, Posix!Init
<1> QED
  BY <1>1, Invariance, StepRefines, PTL DEF Spec, PosixSpec, Posix!Spec
=============================================================================
