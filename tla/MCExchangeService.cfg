SPECIFICATION Spec
CONSTANTS
  c1 = c1 c2 = c2
  Callers = {c1, c2}
  Perps = {eth, btc}
  Spots = {hype}
  FirstPerp = btc
  FirstSpot = hype
  PerpNames = {eth, hype}
  SpotNames = {hype, eth}
  Sides = {1}
  MaxSize = 1
  MaxCalls = 3
SYMMETRY CallerSymmetry
CHECK_DEADLOCK FALSE
INVARIANT
  ServiceInv
PROPERTIES
  CloseOnlyReduces
  CancelsExactly
