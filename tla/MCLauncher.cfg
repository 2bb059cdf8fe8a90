SPECIFICATION Spec
CONSTANTS
  a = a
  b = b
  Threads = {w, t}
  Worker = w
  Fds = {a, b}
  NoFd = nofd
  Contents <- MCContents
  Lens = {2}
  Offsets = {1}
  CopyBuffer = 1
  MaxSize = 3
  MaxCalls = 3
  RunFiles <- MCRunFiles
  EndOfLine <- MCEndOfLine
  RunMax = 2
  ASSEMBLY <- MCASSEMBLY
  Image <- MCImage
  Nothing = nothing
  OldLogs <- MCOldLogs
  MaxLost = 1
INVARIANTS TypeOK FillExact OffsetKept CopyExact TargetNamed ExitHonest LogTells
PROPERTIES CallsReturn Finishes
CHECK_DEADLOCK FALSE
