SPECIFICATION Spec
CONSTANTS
  Callers = {c1, c2}
  MayDisconnect = TRUE
  MaxCalls = 3
CHECK_DEADLOCK FALSE
SYMMETRY CallerSymmetry
INVARIANTS
  ClientInv
  RejectedIsOwnCopy
PROPERTY CallsSpec
