----------------------------- MODULE TradeRing -----------------------------
(***************************************************************************)
(* TradeRingBuffer of the relay's cache (cache.go): an array written round *)
(* and round, the index of the next write and the number of trades held.   *)
(* Every method runs under the buffer's mutex, so each is an operator on   *)
(* the buffer.  Positions are counted from 0 as in the code.               *)
(***************************************************************************)
EXTENDS Integers, Sequences

CONSTANTS TradeSize,   \* cfg.Cache.TradeHistorySize
          NoTrade      \* the zero types.Trade of a slot never written

ASSUME TradeRingAssumption == TradeSize \in Nat \ {0}

\* The buffers of trades from the set T.
Rings(T) ==
  [trades : [0 .. TradeSize - 1 -> T \cup {NoTrade}], head : 0 .. TradeSize - 1, count : 0 .. TradeSize]

NewTradeRingBuffer ==
  [trades |-> [i \in 0 .. TradeSize - 1 |-> NoTrade], head |-> 0, count |-> 0]

\* Mutation of Add: head stops at the end of the array instead of wrapping.
AddWrapsLate(rb, trade) ==
  [trades |-> [rb.trades EXCEPT ![rb.head] = trade],
   head   |-> IF rb.head + 1 = TradeSize THEN rb.head ELSE rb.head + 1,
   count  |-> IF rb.count < TradeSize THEN rb.count + 1 ELSE rb.count]

Add(rb, trade) ==
  [trades |-> [rb.trades EXCEPT ![rb.head] = trade],
   head   |-> (rb.head + 1) % TradeSize,
   count  |-> IF rb.count < TradeSize THEN rb.count + 1 ELSE rb.count]

\* Oldest first: from slot 0 while the buffer fills, from head once it wraps.
GetAll(rb) ==
  LET start == IF rb.count < TradeSize THEN 0 ELSE rb.head
  IN  [i \in 1 .. rb.count |-> rb.trades[(start + i - 1) % TradeSize]]

\* The n newest, oldest first; n is cut to what the buffer holds.
GetRecent(rb, n) ==
  LET m == IF n > rb.count THEN rb.count ELSE n
  IN  [i \in 1 .. m |-> rb.trades[(rb.head - m + i - 1 + TradeSize) % TradeSize]]

\* Reference: the last n of the trades added, of which TradeSize are kept.
LastTrades(log, n) ==
  LET held == IF Len(log) < TradeSize THEN Len(log) ELSE TradeSize
      m == IF n > held THEN held ELSE n
  IN  [i \in 1 .. m |-> log[Len(log) - m + i]]

\* The slot of the j-th newest trade.
Slot(rb, j) == (rb.head - j + TradeSize) % TradeSize

\* rb is what adding the trades of log, one after the other, makes of a new
\* buffer: it holds the newest, each in its slot.
Holds(rb, log) ==
  /\ rb.count = IF Len(log) < TradeSize THEN Len(log) ELSE TradeSize
  /\ rb.count < TradeSize => rb.head = rb.count
  /\ \A j \in 1 .. rb.count : rb.trades[Slot(rb, j)] = log[Len(log) - j + 1]
=============================================================================
