SPECIFICATION Spec
CONSTANTS
  PageSize = 2
  Threads = {t1}
  Lens = {1, 3}
  AddrEnd = 10
  VMChunk = 4
  VMGran = 4
INVARIANTS
  BackedByMapping
  PageAligned
  ExecKind
  Coalesced
