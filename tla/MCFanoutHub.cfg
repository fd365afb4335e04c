SPECIFICATION Spec
CONSTANTS
  Symbols = {btc}
  Streams = {s1}
  Clients = {c1}
  BookUpdates = {1, 3}
  TradeUpdates = {1, 2, 3}
  TradeSize = 2
  NoTrade = NoTrade
  BufferSize = 1
  SlowThreshold = 1
  MaxUpdates = 3
  MaxOps = 3
CHECK_DEADLOCK FALSE
INVARIANTS
  HubInv
  NoGap
  SlowIsCutOff
  CacheAhead
  RecentTrades
PROPERTY
  HubSpec
