SPECIFICATION Spec
CONSTANTS
  PageSize = 2
  Threads = {t1, t2}
  Lens = {2, 3}
  AddrEnd = 8
  VMChunk = 4
  VMGran = 4
SYMMETRY Symmetry
INVARIANTS
  TypeOK
  OneOwner
  BackedByKernel
  ZeroFilled
PROPERTY PosixSpec
