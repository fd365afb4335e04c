SPECIFICATION Spec
CONSTANTS
  k1 = k1
  Sessions = {s1, s2}
  Keys = {k1}
  KeyOf <- OneKey
  PlanOf <- OneStream
  DefaultRPS = 2
  Symbols = {btc, eth}
  PoolSize = 1
INVARIANTS
  RelayInv
  NoLostSlot
  WithinLimit
  FedByOne
  StopNeverWaits
SYMMETRY Symmetry
