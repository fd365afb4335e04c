SPECIFICATION FairSpec
CONSTANTS
  Users = {u1}
  UserOps = {"connect", "disconnect", "testing", "subscribe", "unsubscribe"}
  Keys = {k1}
  DialMayFail = TRUE
  MaxConns = 2
  MaxCalls = 3
CHECK_DEADLOCK FALSE
INVARIANTS
  ConnectionInv
  SingleWatch
PROPERTIES
  DropNoticed
  ReconnectCompletes
