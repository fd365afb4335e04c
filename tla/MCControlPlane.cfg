SPECIFICATION Spec
CONSTANTS
  k1 = k1 t1 = t1 p1 = p1
  Threads = {g1, g2}
  Keys = {k1}
  Tenants = {t1}
  TenantStatuses = {"active", "suspended"}
  Plans = {p1}
  Limits = {10, 50}
  TenantOf <- OneTenant
  PlanOf <- OnePlan
  ExpiresAt <- Expiry
  TTL = 1
  MaxTime = 3
CHECK_DEADLOCK FALSE
INVARIANTS
  ControlInv
  ClearedStaysOut
  PlanCacheAgrees
PROPERTY StaleAtMostTTL
SYMMETRY Symmetry
