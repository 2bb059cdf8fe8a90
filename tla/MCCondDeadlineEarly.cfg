SPECIFICATION Spec
CONSTANTS
  Overflow <- MCOverflow
  MonoStarts <- MCWholeStarts
  RealStarts <- MCRealStarts
  Abstimes <- MCWholeAbstimes
  Delays <- MCDelays
INVARIANT NeverEarly
CHECK_DEADLOCK FALSE
