SPECIFICATION UsageSpec
CONSTANTS
  Recorders = {r1, r2}
  BufferKeys = {k1}
  MaxStreams = 2
  MaxCalls = 2
CHECK_DEADLOCK FALSE
INVARIANTS
  UsageInv
  Conserved
PROPERTY StoppedIsFlushed
