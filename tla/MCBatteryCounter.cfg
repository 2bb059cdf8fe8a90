SPECIFICATION Spec
CONSTANTS
  Threads = {t1, t2}
  Rounds = 2
  Nobody = nobody
INVARIANT NoLostIncrement
CHECK_DEADLOCK FALSE
