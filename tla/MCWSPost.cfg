SPECIFICATION FairSpec
CONSTANTS
  Callers = {c1, c2}
  Limit = 2
INVARIANTS
  PostInv
  OwnAnswer
  WaiterReachable
PROPERTIES
  EveryPostReturns
  RequestReplySpec
CHECK_DEADLOCK FALSE
