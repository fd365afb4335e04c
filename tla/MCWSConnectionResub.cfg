SPECIFICATION Spec
CONSTANTS
  Users = {u1}
  UserOps = {"connect", "subscribe"}
  Keys = {k1}
  DialMayFail = FALSE
  MaxConns = 2
  MaxCalls = 3
CHECK_DEADLOCK FALSE
INVARIANT Resubscribed
