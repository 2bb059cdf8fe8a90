SPECIFICATION Spec
CONSTANTS
  Waiters = {w1, w2}
  TimedWaiters = {v1}
  Producers = {p1, p2, p3}
  Nobody = nobody
INVARIANTS TypeOK NoneStranded
PROPERTIES TimedServed ServedUnlessMissed
CHECK_DEADLOCK FALSE
