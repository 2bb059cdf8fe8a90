SPECIFICATION Spec
CONSTANTS
  Overflow <- MCOverflow
  MonoStarts <- MCMonoStarts
  RealStarts <- MCRealStarts
  Abstimes <- MCAbstimes
  Delays <- MCDelays
INVARIANTS TypeOK NotTooEarly NotTooLate
CHECK_DEADLOCK FALSE
