SPECIFICATION NonceFairSpec
CONSTANTS
  Threads = {t1, t2}
  Times = {1, 2, 4}
  MaxCalls = 4
INVARIANTS
  UniqueNonces
  RealTimeOrder
PROPERTIES
  EveryCallReturns
  AtomicSpec
CHECK_DEADLOCK FALSE
