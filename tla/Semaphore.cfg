SPECIFICATION SemFairSpec
CONSTANTS
  Threads = {t1, t2, t3, t4}
  Initial = 1
  MaxAmount = 2
  MaxValue = 3
INVARIANTS
  NoUnderflow
PROPERTY AvailableIsAcquired
CHECK_DEADLOCK FALSE
