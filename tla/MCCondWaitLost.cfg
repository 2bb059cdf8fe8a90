SPECIFICATION Spec
CONSTANTS
  Waiters = {w1}
  TimedWaiters = {}
  Producers = {p1}
  Nobody = nobody
PROPERTY WaitServed
CHECK_DEADLOCK FALSE
