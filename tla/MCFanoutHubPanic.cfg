SPECIFICATION Spec
CONSTANTS
  Symbols = {btc}
  Streams = {}
  Clients = {c1}
  BookUpdates = {1, 2, 4}
  TradeUpdates = {2, 3, 4}
  TradeSize = 2
  NoTrade = NoTrade
  BufferSize = 1
  SlowThreshold = 1
  MaxUpdates = 3
  MaxOps = 3
CHECK_DEADLOCK FALSE
INVARIANT NoPanic
