----------------------------- MODULE HubProofs -----------------------------
(***************************************************************************)
(* Proofs about FanoutHub: its invariant HubInv, one lemma per conjunct    *)
(* with a step per action that can disturb it; what the run checks of it;  *)
(* and that it implements OrderedDelivery.  All of it for any symbols,     *)
(* streams, clients, buffer sizes and thresholds, and any choice of the    *)
(* updates that carry an orderbook or a trade.                             *)
(***************************************************************************)
EXTENDS FanoutHub, FiniteSetTheorems, TLAPS

-----------------------------------------------------------------------------
(* The trade buffer (TradeRing).                                           *)

\* Going round an array once at most.
LEMMA Modulo ==
  ASSUME NEW n \in Nat \ {0}, NEW i \in 0 .. 2 * n - 1
  PROVE  i % n = IF i < n THEN i ELSE i - n
  BY SMT

\* Add keeps a buffer of trades from T.
LEMMA AddType ==
  ASSUME NEW T, NEW rb \in Rings(T), NEW t \in T
  PROVE  Add(rb, t) \in Rings(T)
<1>1. (rb.head + 1) % TradeSize \in 0 .. TradeSize - 1
  BY TradeRingAssumption, Modulo DEF Rings
<1>2. [rb.trades EXCEPT ![rb.head] = t] \in [0 .. TradeSize - 1 -> T \cup {NoTrade}]
  BY DEF Rings
<1>3. (IF rb.count < TradeSize THEN rb.count + 1 ELSE rb.count) \in 0 .. TradeSize
  BY TradeRingAssumption DEF Rings
<1> QED
  BY <1>1, <1>2, <1>3 DEF Rings, Add

\* Going back from a slot by at most the size of the array.
LEMMA StepBack ==
  ASSUME NEW h \in 0 .. TradeSize - 1, NEW i \in 1 .. TradeSize
  PROVE  (h - i + TradeSize) % TradeSize = IF i <= h THEN h - i ELSE h - i + TradeSize
<1>1. h - i + TradeSize \in 0 .. 2 * TradeSize - 1
  BY TradeRingAssumption
<1> QED
  BY <1>1, TradeRingAssumption, Modulo

\* The slots of the newest trades are distinct, and adding a trade makes each
\* of them the slot of the next older one.
LEMMA SlotsMove ==
  ASSUME NEW T, NEW rb \in Rings(T), NEW t \in T, NEW j \in 1 .. TradeSize
  PROVE  /\ Slot(rb, j) \in 0 .. TradeSize - 1
         /\ j = 1 => Slot(Add(rb, t), j) = rb.head
         /\ j > 1 => /\ Slot(Add(rb, t), j) = Slot(rb, j - 1)
                     /\ Slot(rb, j - 1) # rb.head
<1> DEFINE h == rb.head
<1> DEFINE k == Add(rb, t).head
<1>1. TradeSize \in Nat \ {0} /\ h \in 0 .. TradeSize - 1
  BY TradeRingAssumption DEF Rings
<1>2. k = IF h + 1 < TradeSize THEN h + 1 ELSE 0
  BY <1>1, Modulo DEF Add
<1>3. \A i \in 1 .. TradeSize : Slot(rb, i) = IF i <= h THEN h - i ELSE h - i + TradeSize
  BY <1>1, StepBack DEF Slot
<1>4. Slot(Add(rb, t), j) = IF j <= k THEN k - j ELSE k - j + TradeSize
  <2>1. k \in 0 .. TradeSize - 1
    BY <1>1, <1>2
  <2> QED
    BY <2>1, StepBack DEF Slot
<1> HIDE DEF h, k
<1>5. Slot(rb, j) \in 0 .. TradeSize - 1
  BY <1>1, <1>3
<1>6. j = 1 => Slot(Add(rb, t), j) = h
  BY <1>1, <1>2, <1>4
<1>7. ASSUME j > 1
      PROVE  Slot(Add(rb, t), j) = Slot(rb, j - 1) /\ Slot(rb, j - 1) # h
  <2>1. j - 1 \in 1 .. TradeSize - 1
    BY <1>7, <1>1
  <2>2. Slot(rb, j - 1) = IF j - 1 <= h THEN h - (j - 1) ELSE h - (j - 1) + TradeSize
    BY <1>3, <2>1, <1>1
  <2> QED
    BY <1>1, <1>2, <1>4, <2>1, <2>2
<1> QED
  BY <1>5, <1>6, <1>7 DEF h

\* A new buffer holds no trades, and Add one more.
LEMMA NewHolds == Holds(NewTradeRingBuffer, <<>>) /\ \A T : NewTradeRingBuffer \in Rings(T)
  BY TradeRingAssumption DEF Holds, NewTradeRingBuffer, Rings

LEMMA AddHolds ==
  ASSUME NEW T, NEW rb \in Rings(T), NEW t \in T, NEW log \in Seq(T), Holds(rb, log)
  PROVE  Holds(Add(rb, t), Append(log, t))
<1> DEFINE rc == Add(rb, t)
<1> DEFINE long == Append(log, t)
<1>1. /\ TradeSize \in Nat \ {0} /\ rb.head \in 0 .. TradeSize - 1
      /\ rb.count \in 0 .. TradeSize /\ DOMAIN rb.trades = 0 .. TradeSize - 1
  BY TradeRingAssumption DEF Rings
<1>2. /\ Len(log) \in Nat /\ long \in Seq(T) /\ Len(long) = Len(log) + 1 /\ long[Len(log) + 1] = t
      /\ \A i \in 1 .. Len(log) : long[i] = log[i]
  OBVIOUS
<1>3. rb.count = IF Len(log) < TradeSize THEN Len(log) ELSE TradeSize
  BY DEF Holds
<1>4. rc.count = IF rb.count < TradeSize THEN rb.count + 1 ELSE rb.count
  BY DEF Add
<1>5. rc.count = IF Len(long) < TradeSize THEN Len(long) ELSE TradeSize
  BY <1>1, <1>2, <1>3, <1>4
<1>6. rc.count < TradeSize => rc.head = rc.count
  <2>1. rb.head + 1 \in 0 .. 2 * TradeSize - 1
    BY <1>1
  <2>2. rc.head = IF rb.head + 1 < TradeSize THEN rb.head + 1 ELSE (rb.head + 1) - TradeSize
    BY <2>1, <1>1, Modulo DEF Add
  <2>3. rb.count < TradeSize => rb.head = rb.count
    BY DEF Holds
  <2> HIDE DEF rc
  <2> QED
    BY <2>2, <2>3, <1>1, <1>4
<1>7. \A j \in 1 .. rc.count : rc.trades[Slot(rc, j)] = long[Len(long) - j + 1]
  <2> SUFFICES ASSUME NEW j \in 1 .. rc.count
               PROVE  rc.trades[Slot(rc, j)] = long[Len(long) - j + 1]
    OBVIOUS
  <2>1. rc.trades = [rb.trades EXCEPT ![rb.head] = t]
    BY DEF Add
  <2>2. j \in 1 .. TradeSize /\ j - 1 <= rb.count /\ j <= Len(log) + 1
    BY <1>1, <1>2, <1>3, <1>4
  <2>3. CASE j = 1
    <3>1. Slot(rc, j) = rb.head
      BY <2>2, <2>3, SlotsMove
    <3> QED
      BY <3>1, <2>1, <2>3, <1>1, <1>2
  <2>4. CASE j > 1
    <3>1. Slot(rc, j) = Slot(rb, j - 1) /\ Slot(rb, j - 1) # rb.head
      BY <2>2, <2>4, SlotsMove
    <3>2. j - 1 \in 1 .. TradeSize /\ j - 1 \in 1 .. rb.count
      BY <2>2, <2>4, <1>1
    <3>3. Slot(rb, j - 1) \in 0 .. TradeSize - 1
      BY <3>2, SlotsMove
    <3>4. rc.trades[Slot(rc, j)] = rb.trades[Slot(rb, j - 1)]
      BY <3>1, <3>3, <2>1, <1>1
    <3>5. rb.trades[Slot(rb, j - 1)] = log[Len(log) - (j - 1) + 1]
      BY <3>2 DEF Holds
    <3>6. Len(log) - (j - 1) + 1 = Len(long) - j + 1 /\ Len(long) - j + 1 \in 1 .. Len(log)
      BY <3>2, <2>2, <1>2
    <3> QED
      BY <3>4, <3>5, <3>6, <1>2
  <2> QED
    BY <2>2, <2>3, <2>4
<1> QED
  BY <1>5, <1>6, <1>7 DEF Holds

\* Whoever asks a buffer for its newest n trades gets the end of the log.
LEMMA RecentIsLast ==
  ASSUME NEW T, NEW rb \in Rings(T), NEW log \in Seq(T), Holds(rb, log), NEW n \in Nat
  PROVE  GetRecent(rb, n) = LastTrades(log, n)
<1> DEFINE m == IF n > rb.count THEN rb.count ELSE n
<1>1. /\ TradeSize \in Nat \ {0} /\ rb.head \in 0 .. TradeSize - 1 /\ rb.count \in 0 .. TradeSize
      /\ Len(log) \in Nat
  BY TradeRingAssumption DEF Rings
<1>2. m \in 0 .. rb.count
  BY <1>1
<1>3. rb.count = IF Len(log) < TradeSize THEN Len(log) ELSE TradeSize
  BY DEF Holds
<1>4. LastTrades(log, n) = [i \in 1 .. m |-> log[Len(log) - m + i]]
  BY <1>3 DEF LastTrades
<1>5. GetRecent(rb, n) = [i \in 1 .. m |-> rb.trades[(rb.head - m + i - 1 + TradeSize) % TradeSize]]
  BY DEF GetRecent
<1> HIDE DEF m
<1>6. ASSUME NEW i \in 1 .. m
      PROVE  rb.trades[(rb.head - m + i - 1 + TradeSize) % TradeSize] = log[Len(log) - m + i]
  <2>1. m - i + 1 \in 1 .. rb.count
    BY <1>1, <1>2
  <2>2. rb.trades[Slot(rb, m - i + 1)] = log[Len(log) - (m - i + 1) + 1]
    BY <2>1 DEF Holds
  <2>3. /\ rb.head - (m - i + 1) + TradeSize = rb.head - m + i - 1 + TradeSize
        /\ Len(log) - (m - i + 1) + 1 = Len(log) - m + i
    BY <1>1, <1>2
  <2> QED
    BY <2>2, <2>3 DEF Slot
<1> QED
  BY <1>4, <1>5, <1>6

\* GetAll returns all that is kept.
LEMMA AllIsLast ==
  ASSUME NEW T, NEW rb \in Rings(T), NEW log \in Seq(T), Holds(rb, log)
  PROVE  GetAll(rb) = LastTrades(log, TradeSize)
<1> DEFINE m == rb.count
<1> DEFINE start == IF rb.count < TradeSize THEN 0 ELSE rb.head
<1>1. /\ TradeSize \in Nat \ {0} /\ rb.head \in 0 .. TradeSize - 1 /\ rb.count \in 0 .. TradeSize
      /\ Len(log) \in Nat
  BY TradeRingAssumption DEF Rings
<1>2. m = IF Len(log) < TradeSize THEN Len(log) ELSE TradeSize
  BY DEF Holds
<1>3. LastTrades(log, TradeSize) = [i \in 1 .. m |-> log[Len(log) - m + i]]
  BY <1>1, <1>2 DEF LastTrades
<1>4. GetAll(rb) = [i \in 1 .. m |-> rb.trades[(start + i - 1) % TradeSize]]
  BY DEF GetAll
<1>5. ASSUME NEW i \in 1 .. m
      PROVE  rb.trades[(start + i - 1) % TradeSize] = log[Len(log) - m + i]
  <2>1. m - i + 1 \in 1 .. m /\ Len(log) - (m - i + 1) + 1 = Len(log) - m + i
    BY <1>1
  <2>2. rb.trades[Slot(rb, m - i + 1)] = log[Len(log) - (m - i + 1) + 1]
    BY <2>1 DEF Holds
  <2>3. Slot(rb, m - i + 1) = (start + i - 1) % TradeSize
    <3> DEFINE a == rb.head - (m - i + 1) + TradeSize
    <3> DEFINE b == start + i - 1
    <3>1. CASE rb.count < TradeSize
      <4>1. rb.head = m
        BY <3>1 DEF Holds
      <4>2. /\ a = TradeSize + (i - 1) /\ b = i - 1 /\ i - 1 \in 0 .. TradeSize - 1
            /\ a \in 0 .. 2 * TradeSize - 1 /\ b \in 0 .. 2 * TradeSize - 1
        BY <4>1, <3>1, <1>1
      <4> HIDE DEF a, b
      <4>3. a % TradeSize = i - 1
        <5>1. a % TradeSize = IF a < TradeSize THEN a ELSE a - TradeSize
          BY <4>2, <1>1, Modulo
        <5> QED
          BY <5>1, <4>2, <1>1
      <4>4. b % TradeSize = i - 1
        BY <4>2, <1>1, Modulo
      <4> QED
        BY <4>3, <4>4 DEF Slot, a, b
    <3>2. CASE rb.count = TradeSize
      <4>1. a = b
        BY <3>2, <1>1
      <4> QED
        BY <4>1 DEF Slot
    <3> QED
      BY <3>1, <3>2, <1>1
  <2> QED
    BY <2>1, <2>2, <2>3
<1> HIDE DEF m, start
<1> QED
  BY <1>3, <1>4, <1>5
-----------------------------------------------------------------------------
(* Types.                                                                  *)

\* What a step leaves alone keeps its type.
LEMMA TypeFrames ==
  /\ HubTypeOK /\ UNCHANGED hubVars => HubTypeOK'
  /\ BufferTypeOK /\ UNCHANGED bufferVars => BufferTypeOK'
  /\ DataTypeOK /\ UNCHANGED dataVars => DataTypeOK'
  /\ FeedTypeOK /\ UNCHANGED feed => FeedTypeOK'
  /\ SessionTypeOK /\ UNCHANGED sessionVars => SessionTypeOK'
  BY DEF HubTypeOK, BufferTypeOK, DataTypeOK, FeedTypeOK, SessionTypeOK,
         hubVars, bufferVars, dataVars, sessionVars

\* Removing an entry keeps the hub's types and whatever the hub does not own.
LEMMA RemoveType ==
  ASSUME HubTypeOK, NEW x \in Symbols, NEW s \in Sessions, Remove(x, s)
  PROVE  HubTypeOK'
<1>1. CASE s \in members[x]
  <2>1. /\ members' = [members EXCEPT ![x] = @ \ {s}] /\ closed' = closed \cup {s}
        /\ active' = active - 1 /\ repeats' = repeats
    BY <1>1 DEF Remove
  <2> QED
    BY <2>1 DEF HubTypeOK
<1>2. CASE s \notin members[x]
  BY <1>2, TypeFrames DEF Remove
<1> QED
  BY <1>1, <1>2

\* Initially everything has its type.
LEMMA InitType == Init => TypeOK
<1> SUFFICES ASSUME Init
             PROVE  TypeOK
  OBVIOUS
<1>1. HubTypeOK
  BY DEF Init, HubTypeOK
<1> crashed \in BOOLEAN
  BY DEF Init
<1>2. BufferTypeOK
  BY FanoutAssumption DEF Init, BufferTypeOK
<1>3. DataTypeOK
  BY FanoutAssumption, NewHolds DEF Init, DataTypeOK
<1>4. FeedTypeOK
  BY FanoutAssumption DEF Init, FeedTypeOK
<1>5. SessionTypeOK
  <2>1. (CHOOSE x \in Symbols : TRUE) \in Symbols
    BY FanoutAssumption
  <2> QED
    BY <2>1, FanoutAssumption DEF Init, SessionTypeOK
<1> QED
  BY <1>1, <1>2, <1>3, <1>4, <1>5 DEF TypeOK

\* A send finds the channel closed, finds it full, or puts the update into it.
LEMMA SendCases ==
  ASSUME TypeOK, FeedsInPlace, NEW x \in Symbols, Send(x)
  PROVE  LET s == feed[x].target
         IN  /\ s \in Sessions \cap (members[x] \cup closed) /\ feed[x].at = "send"
             /\ s \notin feed[x].left /\ InHand(x) \in Update
             /\ \/ s \in closed /\ feed' = [feed EXCEPT ![x].at = "broken"] /\ UNCHANGED bufferVars
                \/ /\ s \notin closed
                   /\ dropped' = [dropped EXCEPT ![s] = @ + 1]
                   /\ lost' = [lost EXCEPT ![s] = @ \cup {InHand(x)}]
                   /\ feed' = [feed EXCEPT ![x].at = IF TooSlow(s) THEN "slow" ELSE "offer"]
                   /\ UNCHANGED <<channel, got>>
                \/ /\ s \notin closed /\ Len(channel[s]) < BufferSize
                   /\ channel' = [channel EXCEPT ![s] = Append(@, InHand(x))]
                   /\ got' = [got EXCEPT ![s] = @ \cup {InHand(x)}]
                   /\ feed' = [feed EXCEPT ![x].at = "offer"]
                   /\ UNCHANGED <<dropped, lost>>
<1> DEFINE s == feed[x].target
<1>1. /\ s \in Sessions \cap (members[x] \cup closed) /\ feed[x].at = "send"
      /\ s \notin feed[x].left /\ InHand(x) \in Update
  BY DEF TypeOK, FeedTypeOK, HubTypeOK, FeedsInPlace, Send, InHand, Update
<1>2. CASE s \in closed
  BY <1>1, <1>2 DEF Send
<1>3. CASE s \notin closed /\ Len(channel[s]) = BufferSize
  <2>1. /\ dropped' = [dropped EXCEPT ![s] = @ + 1] /\ lost' = [lost EXCEPT ![s] = @ \cup {InHand(x)}]
        /\ channel' = channel /\ got' = got
    BY <1>3 DEF Send

  <2>2. feed' = [feed EXCEPT ![x].at = IF TooSlow(s) THEN "slow" ELSE "offer"]
    BY <1>3 DEF Send, TooSlow
  <2> QED
    BY <1>1, <1>3, <2>1, <2>2
<1>4. CASE s \notin closed /\ Len(channel[s]) # BufferSize
  <2>1. Len(channel[s]) < BufferSize
    BY <1>1, <1>4, FanoutAssumption DEF TypeOK, BufferTypeOK
  <2> QED
    <3>1. /\ channel' = [channel EXCEPT ![s] = Append(@, InHand(x))]
          /\ got' = [got EXCEPT ![s] = @ \cup {InHand(x)}]
          /\ dropped' = dropped /\ lost' = lost
      BY <1>4 DEF Send

    <3>2. feed' = [feed EXCEPT ![x].at = "offer"]
      BY <1>4 DEF Send
    <3> QED
      BY <1>1, <1>4, <2>1, <3>1, <3>2
<1> QED
  BY <1>2, <1>3, <1>4

\* The removal of a slow consumer closes its channel, or finds it closed.
LEMMA DropSlowCases ==
  ASSUME TypeOK, FeedsInPlace, NEW x \in Symbols, DropSlow(x)
  PROVE  /\ feed[x].target \in Sessions
         /\ \/ Remove(x, feed[x].target) /\ feed' = [feed EXCEPT ![x].at = "offer"]
            \/ /\ feed[x].target \in closed /\ feed' = [feed EXCEPT ![x].at = "locked"]
               /\ UNCHANGED hubVars
  BY DEF DropSlow, ClosesAgain, TypeOK, HubTypeOK, FeedsInPlace

\* A step of a feed keeps the types.
LEMMA FeedStepType ==
  ASSUME TypeOK, FeedsInPlace, NEW x \in Symbols, Receive(x) \/ Publishing(x)
  PROVE  TypeOK'
<1> USE DEF TypeOK
<1> USE TypeFrames
<1>1. CASE Receive(x)
  <2>1. latest[x] + 1 \in 0 .. MaxUpdates
    BY <1>1, FanoutAssumption DEF DataTypeOK, Receive
  <2>2. DataTypeOK'
    BY <1>1, <2>1 DEF DataTypeOK, Receive
  <2>3. FeedTypeOK'
    BY <1>1, <2>1 DEF FeedTypeOK, Receive
  <2> QED
    BY <1>1, <2>2, <2>3 DEF Receive
<1>2. CASE Cache(x)
  <2>1. DataTypeOK' /\ FeedTypeOK'
    BY <1>2 DEF DataTypeOK, FeedTypeOK, Cache
  <2> QED
    BY <1>2, <2>1 DEF Cache
<1>3. CASE AddTrade(x)
  <2>1. FeedTypeOK'
    BY <1>3 DEF FeedTypeOK, AddTrade
  <2>2. feed[x].seq \in 1 .. MaxUpdates
    BY <1>3 DEF FeedTypeOK, FeedsInPlace, AddTrade
  <2>3. Add(ring[x], feed[x].seq) \in Rings(1 .. MaxUpdates)
    BY <2>2, AddType DEF DataTypeOK
  <2>4. Append(tradeLog[x], feed[x].seq) \in Seq(1 .. MaxUpdates)
    BY <2>2 DEF DataTypeOK
  <2>5. DataTypeOK'
    BY <1>3, <2>3, <2>4 DEF DataTypeOK, AddTrade
  <2> QED
    BY <1>3, <2>1, <2>5 DEF AddTrade
<1>4. CASE Publish(x)
  <2>1. FeedTypeOK'
    BY <1>4 DEF FeedTypeOK, HubTypeOK, Publish
  <2> QED
    BY <1>4, <2>1 DEF Publish
<1>5. ASSUME NEW s \in Sessions, Offer(x, s)
      PROVE  TypeOK'
  <2>1. FeedTypeOK'
    BY <1>5 DEF FeedTypeOK, Offer
  <2> QED
    BY <1>5, <2>1 DEF Offer
<1>6. CASE Send(x)
  <2> DEFINE s == feed[x].target
  <2> DEFINE u == InHand(x)
  <2>1. s \in Sessions /\ u \in Update /\ UNCHANGED <<hubVars, dataVars, sessionVars, crashed>>
    BY <1>6, SendCases DEF Send
  <2>2. CASE UNCHANGED bufferVars /\ feed' = [feed EXCEPT ![x].at = "broken"]
    <3>1. FeedTypeOK'
      BY <2>2 DEF FeedTypeOK
    <3> QED
      BY <2>1, <2>2, <3>1
  <2>3. CASE /\ dropped' = [dropped EXCEPT ![s] = @ + 1] /\ lost' = [lost EXCEPT ![s] = @ \cup {u}]
             /\ feed' = [feed EXCEPT ![x].at = IF TooSlow(s) THEN "slow" ELSE "offer"]
             /\ UNCHANGED <<channel, got>>
    <3>1. BufferTypeOK'
      BY <2>1, <2>3 DEF BufferTypeOK
    <3>2. FeedTypeOK'
      BY <2>3 DEF FeedTypeOK
    <3> QED
      BY <2>1, <2>3, <3>1, <3>2
  <2>4. CASE /\ Len(channel[s]) < BufferSize
             /\ channel' = [channel EXCEPT ![s] = Append(@, u)]
             /\ got' = [got EXCEPT ![s] = @ \cup {u}]
             /\ feed' = [feed EXCEPT ![x].at = "offer"]
             /\ UNCHANGED <<dropped, lost>>
    <3>1. Append(channel[s], u) \in Seq(Update) /\ Len(Append(channel[s], u)) <= BufferSize
      BY <2>1, <2>4, FanoutAssumption DEF BufferTypeOK
    <3>2. BufferTypeOK'
      BY <2>1, <2>4, <3>1 DEF BufferTypeOK
    <3>3. FeedTypeOK'
      BY <2>4 DEF FeedTypeOK
    <3> QED
      BY <2>1, <2>4, <3>2, <3>3
  <2> QED
    BY <1>6, <2>2, <2>3, <2>4, SendCases
<1>7. CASE DropSlow(x)
  <2>1. feed[x].target \in Sessions
    BY <1>7, DropSlowCases
  <2>2. HubTypeOK'
    BY <1>7, <2>1, RemoveType, DropSlowCases
  <2>3. FeedTypeOK'
    BY <1>7, DropSlowCases DEF FeedTypeOK
  <2> QED
    BY <1>7, <2>2, <2>3 DEF DropSlow
<1>8. CASE Published(x)
  <2>1. FeedTypeOK'
    BY <1>8 DEF FeedTypeOK, Published
  <2> QED
    BY <1>8, <2>1 DEF Published
<1> QED
  BY <1>1, <1>2, <1>3, <1>4, <1>5, <1>6, <1>7, <1>8 DEF Publishing

\* A step of a session keeps the types.
LEMMA SessionStepType ==
  ASSUME TypeOK, NEW s \in Sessions, SessionStep(s)
  PROVE  TypeOK'
<1> USE DEF TypeOK
<1> USE TypeFrames
<1>1. CASE OpenClient(s) \/ Leave(s)
  <2>1. SessionTypeOK'
    BY <1>1 DEF SessionTypeOK, OpenClient, Leave
  <2> QED
    BY <1>1, <2>1 DEF OpenClient, Leave
<1>2. CASE Insert(s)
  <2>1. SessionTypeOK'
    BY <1>2 DEF SessionTypeOK, Insert
  <2>2. HubTypeOK'
    BY <1>2 DEF HubTypeOK, SessionTypeOK, Insert
  <2> QED
    BY <1>2, <2>1, <2>2 DEF Insert
<1>3. CASE Count(s)
  <2>1. SessionTypeOK'
    BY <1>3 DEF SessionTypeOK, Count
  <2>2. HubTypeOK'
    BY <1>3 DEF HubTypeOK, Count
  <2> QED
    BY <1>3, <2>1, <2>2 DEF Count
<1>4. CASE Snapshot(s)
  <2>1. SessionTypeOK'
    BY <1>4 DEF SessionTypeOK, DataTypeOK, Snapshot
  <2> QED
    BY <1>4, <2>1 DEF Snapshot
<1>5. CASE Write(s)
  <2>1. Tail(channel[s]) \in Seq(Update) /\ Len(Tail(channel[s])) <= BufferSize
    BY <1>5, FanoutAssumption DEF BufferTypeOK, Write
  <2>2. BufferTypeOK'
    BY <1>5, <2>1 DEF BufferTypeOK, Write
  <2>3. UNCHANGED <<hubVars, dataVars, feed, sessionVars, crashed>>
    BY <1>5 DEF Write, sessionVars
  <2> QED
    BY <2>2, <2>3
<1>6. CASE CloseStream(s)
  <2>1. SessionTypeOK'
    BY <1>6 DEF SessionTypeOK, CloseStream
  <2>2. HubTypeOK'
    BY <1>6, RemoveType DEF CloseStream, Unsubscribe, SessionTypeOK
  <2>3. crashed' \in BOOLEAN
    BY <1>6 DEF CloseStream, Unsubscribe
  <2> QED
    BY <1>6, <2>1, <2>2, <2>3 DEF CloseStream
<1>7. ASSUME NEW x \in Symbols, OpenStream(s, x)
      PROVE  TypeOK'
  <2>1. SessionTypeOK'
    BY <1>7 DEF SessionTypeOK, OpenStream
  <2> QED
    BY <1>7, <2>1 DEF OpenStream
<1>8. ASSUME NEW x \in Symbols, SubscribeRequest(s, x)
      PROVE  TypeOK'
  <2>1. SessionTypeOK'
    BY <1>8, FanoutAssumption DEF SessionTypeOK, SubscribeRequest, Request
  <2> QED
    BY <1>8, <2>1 DEF SubscribeRequest
<1>9. ASSUME NEW x \in Symbols, UnsubscribeRequest(s, x)
      PROVE  TypeOK'
  <2>1. SessionTypeOK'
    BY <1>9, FanoutAssumption DEF SessionTypeOK, UnsubscribeRequest, Request
  <2>2. HubTypeOK'
    BY <1>9, RemoveType DEF UnsubscribeRequest, Unsubscribe
  <2>3. crashed' \in BOOLEAN
    BY <1>9 DEF UnsubscribeRequest, Unsubscribe
  <2> QED
    BY <1>9, <2>1, <2>2, <2>3 DEF UnsubscribeRequest
<1> QED
  BY <1>1, <1>2, <1>3, <1>4, <1>5, <1>6, <1>7, <1>8, <1>9 DEF SessionStep

\* Every step keeps the types.
LEMMA TypeNext ==
  ASSUME TypeOK, FeedsInPlace, [Next]_vars
  PROVE  TypeOK'
<1>1. CASE UNCHANGED vars
  BY <1>1, TypeFrames DEF TypeOK, vars
<1> QED
  BY <1>1, FeedStepType, SessionStepType DEF Next
-----------------------------------------------------------------------------
(* What the steps leave alone.                                             *)

\* Sessions leave the feeds, the cache and what was offered alone.
LEMMA SessionFrame ==
  ASSUME NEW s \in Sessions, SessionStep(s)
  PROVE  UNCHANGED <<feed, dataVars, dropped, got, lost>>
  BY DEF SessionStep, OpenClient, Insert, Count, Snapshot, Write, Leave, CloseStream,
         OpenStream, SubscribeRequest, UnsubscribeRequest, bufferVars

\* Feeds leave the sessions alone.
LEMMA FeedFrame ==
  ASSUME NEW x \in Symbols, Receive(x) \/ Publishing(x)
  PROVE  UNCHANGED sessionVars
  BY DEF Receive, Publishing, Cache, AddTrade, Publish, Offer, Send, DropSlow, Published

\* Unsubscribe removes one entry at most, and closes its channel.
LEMMA RemoveEffect ==
  ASSUME TypeOK, NEW x \in Symbols, NEW s \in Sessions, Remove(x, s)
  PROVE  /\ \A y \in Symbols : members'[y] = IF y = x THEN members[y] \ {s} ELSE members[y]
         /\ closed' = closed \cup (members[x] \cap {s})
         /\ repeats' = repeats
<1>1. CASE s \in members[x]
  BY <1>1 DEF Remove, TypeOK, HubTypeOK
<1>2. CASE s \notin members[x]
  BY <1>2 DEF Remove, hubVars
<1> QED
  BY <1>1, <1>2

\* The hub changes when somebody subscribes, is counted or is removed.
LEMMA HubSteps ==
  ASSUME TypeOK, FeedsInPlace, [Next]_vars
  PROVE  \/ UNCHANGED hubVars
         \/ \E s \in Sessions : Insert(s) \/ Count(s)
         \/ \E x \in Symbols, s \in Sessions : Remove(x, s) /\ UNCHANGED in
<1>1. CASE UNCHANGED vars
  BY <1>1 DEF vars
<1>2. ASSUME NEW x \in Symbols, Receive(x) \/ Publishing(x), ~DropSlow(x)
      PROVE  UNCHANGED hubVars
  BY <1>2 DEF Receive, Publishing, Cache, AddTrade, Publish, Offer, Send, Published
<1>3. ASSUME NEW x \in Symbols, DropSlow(x)
      PROVE  \/ UNCHANGED hubVars
             \/ feed[x].target \in Sessions /\ Remove(x, feed[x].target) /\ UNCHANGED in
  BY <1>3, DropSlowCases DEF DropSlow, sessionVars
<1>4. ASSUME NEW s \in Sessions, OpenClient(s) \/ Snapshot(s) \/ Write(s) \/ Leave(s)
      PROVE  UNCHANGED hubVars
  BY <1>4 DEF OpenClient, Snapshot, Write, Leave
<1>5. ASSUME NEW s \in Sessions, CloseStream(s)
      PROVE  UNCHANGED hubVars \/ (sym[s] \in Symbols /\ Remove(sym[s], s) /\ UNCHANGED in)
  BY <1>5 DEF CloseStream, Unsubscribe, TypeOK, SessionTypeOK
<1>6. ASSUME NEW s \in Sessions, NEW x \in Symbols, OpenStream(s, x) \/ SubscribeRequest(s, x)
      PROVE  UNCHANGED hubVars
  BY <1>6 DEF OpenStream, SubscribeRequest
<1>7. ASSUME NEW s \in Sessions, NEW x \in Symbols, UnsubscribeRequest(s, x)
      PROVE  UNCHANGED hubVars \/ (Remove(x, s) /\ UNCHANGED in)
  BY <1>7 DEF UnsubscribeRequest, Unsubscribe
<1> QED
  BY <1>1, <1>2, <1>3, <1>4, <1>5, <1>6, <1>7 DEF Next, SessionStep

\* Whoever was subscribed, or closed, is so or was closed.
LEMMA HubGrows ==
  ASSUME TypeOK, FeedsInPlace, [Next]_vars
  PROVE  closed \subseteq closed' /\ \A x \in Symbols : members[x] \cup closed \subseteq members'[x] \cup closed'
<1>1. CASE UNCHANGED <<members, closed>>
  BY <1>1
<1>2. ASSUME NEW s \in Sessions, Insert(s)
      PROVE  closed' = closed /\ \A x \in Symbols : members[x] \subseteq members'[x]
  BY <1>2 DEF Insert, TypeOK, HubTypeOK
<1>3. ASSUME NEW x \in Symbols, NEW s \in Sessions, Remove(x, s)
      PROVE  /\ closed \subseteq closed'
             /\ \A y \in Symbols : members[y] \cup closed \subseteq members'[y] \cup closed'
  BY <1>3, RemoveEffect
<1> QED
  BY <1>1, <1>2, <1>3, HubSteps DEF hubVars, Count

\* Whoever is subscribed, and not just now, was so before.
LEMMA MemberBefore ==
  ASSUME TypeOK, FeedsInPlace, [Next]_vars, NEW x \in Symbols, NEW s \in members'[x], in'[s] # "count"
  PROVE  s \in members[x]
<1>1. CASE UNCHANGED members
  BY <1>1
<1>2. ASSUME NEW t \in Sessions, Insert(t)
      PROVE  s \in members[x]
  <2>1. members' = [members EXCEPT ![sym[t]] = @ \cup {t}] /\ in' = [in EXCEPT ![t] = "count"]
    BY <1>2 DEF Insert
  <2>2. s # t
    BY <2>1 DEF TypeOK, SessionTypeOK
  <2> QED
    BY <2>1, <2>2 DEF TypeOK, HubTypeOK
<1>3. ASSUME NEW y \in Symbols, NEW t \in Sessions, Remove(y, t)
      PROVE  s \in members[x]
  BY <1>3, RemoveEffect
<1> QED
  BY <1>1, <1>2, <1>3, HubSteps DEF hubVars, Count

\* The requests of a client grow in number.
LEMMA FreshBefore ==
  ASSUME TypeOK, [Next]_vars, NEW s \in Sessions, Fresh(s)'
  PROVE  Fresh(s)
<1>1. CASE UNCHANGED ops
  BY <1>1 DEF Fresh
<1>2. ASSUME NEW c \in Sessions, Request(c)
      PROVE  Fresh(s)
  BY <1>2, FanoutAssumption DEF Request, Fresh, TypeOK, SessionTypeOK
<1>3. ASSUME NEW c \in Sessions, SessionStep(c), ~Request(c)
      PROVE  UNCHANGED ops
  BY <1>3 DEF SessionStep, OpenClient, Insert, Count, Snapshot, Write, Leave, CloseStream,
              OpenStream, SubscribeRequest, UnsubscribeRequest
<1> QED
  BY <1>1, <1>2, <1>3, FeedFrame DEF Next, sessionVars, vars

-----------------------------------------------------------------------------
(* The topics, the feeds and the sessions.                                 *)

\* Members stay open: a removal closes a subscriber and takes it out of the one
\* topic it was in, and a new member was never closed.
LEMMA OpenNext ==
  ASSUME TypeOK, FeedsInPlace, SessionsInPlace, MembersAreOpen, [Next]_vars
  PROVE  MembersAreOpen'
<1> SUFFICES ASSUME NEW y \in Symbols, NEW t \in members'[y] \cap closed', Fresh(t)'
             PROVE  FALSE
  BY DEF MembersAreOpen
<1>1. TypeOK' /\ t \in Sessions /\ Fresh(t)
  BY TypeNext, FreshBefore DEF TypeOK, HubTypeOK
<1>2. CASE UNCHANGED <<members, closed>>
  BY <1>1, <1>2 DEF MembersAreOpen
<1>3. ASSUME NEW s \in Sessions, Insert(s)
      PROVE  FALSE
  <2>1. closed' = closed /\ members' = [members EXCEPT ![sym[s]] = @ \cup {s}]
    BY <1>3 DEF Insert
  <2>2. t = s
    BY <1>1, <2>1 DEF MembersAreOpen, TypeOK, HubTypeOK
  <2> QED
    BY <1>1, <1>3, <2>1, <2>2 DEF Insert, SessionsInPlace
<1>4. ASSUME NEW x \in Symbols, NEW s \in Sessions, Remove(x, s)
      PROVE  FALSE
  <2>1. t \in members[y]
    BY <1>4, RemoveEffect
  <2>2. t \notin closed
    BY <1>1, <2>1 DEF MembersAreOpen
  <2>3. t = s /\ s \in members[x]
    BY <2>2, <1>4, RemoveEffect
  <2>4. y # x
    BY <2>3, <1>4, RemoveEffect
  <2> QED
    BY <1>1, <2>1, <2>3, <2>4 DEF SessionsInPlace
<1> QED
  BY <1>2, <1>3, <1>4, HubSteps DEF hubVars, Count

\* Feeds stay in place.
LEMMA FeedsNext ==
  ASSUME TypeOK, FeedsInPlace, [Next]_vars
  PROVE  FeedsInPlace'
<1>1. \A x \in Symbols : members[x] \cup closed \subseteq members'[x] \cup closed'
  BY HubGrows
<1>2. CASE UNCHANGED <<feed, latest>>
  BY <1>1, <1>2 DEF FeedsInPlace
<1> USE DEF TypeOK, FeedTypeOK, DataTypeOK
<1>3. ASSUME NEW x \in Symbols, Receive(x)
      PROVE  FeedsInPlace'
  <2>1. latest[x] \in Nat /\ DOMAIN latest = Symbols /\ DOMAIN feed = Symbols
    BY DEF DataTypeOK
  <2>2. /\ latest' = [latest EXCEPT ![x] = @ + 1]
        /\ feed' = [feed EXCEPT ![x].at = "cache", ![x].seq = latest[x] + 1]
        /\ feed[x].left = {} /\ UNCHANGED <<members, closed>>
    BY <1>3 DEF Receive, FeedsInPlace, hubVars
  <2>3. \A y \in Symbols \ {x} : feed'[y] = feed[y] /\ latest'[y] = latest[y]
    BY <2>1, <2>2
  <2>4. /\ feed'[x].at = "cache" /\ feed'[x].seq = latest[x] + 1 /\ latest'[x] = latest[x] + 1
        /\ feed'[x].left = {}
    BY <2>1, <2>2
  <2> QED
    BY <1>1, <2>1, <2>2, <2>3, <2>4 DEF FeedsInPlace
<1>4. ASSUME NEW x \in Symbols, Cache(x)
      PROVE  FeedsInPlace'
  BY <1>1, <1>4 DEF FeedsInPlace, Cache
<1>5. ASSUME NEW x \in Symbols, AddTrade(x)
      PROVE  FeedsInPlace'
  BY <1>1, <1>5 DEF FeedsInPlace, AddTrade
<1>6. ASSUME NEW x \in Symbols, Publish(x)
      PROVE  FeedsInPlace'
  BY <1>1, <1>6 DEF FeedsInPlace, Publish, dataVars
<1>7. ASSUME NEW x \in Symbols, NEW s \in Sessions, Offer(x, s)
      PROVE  FeedsInPlace'
  BY <1>1, <1>7 DEF FeedsInPlace, Offer, dataVars
<1>8. ASSUME NEW x \in Symbols, Send(x)
      PROVE  FeedsInPlace'
  <2> DEFINE s == feed[x].target
  <2>1. latest' = latest /\ s \in (members[x] \cup closed) \ feed[x].left /\ feed[x].at = "send"
    BY <1>8, SendCases DEF Send, dataVars
  <2>2. \E a \in {"offer", "slow", "broken"} : feed' = [feed EXCEPT ![x].at = a]
    BY <1>8, SendCases
  <2>4. ASSUME NEW a \in {"offer", "slow", "broken"}, feed' = [feed EXCEPT ![x].at = a]
        PROVE  FeedsInPlace'
    <3>1. \A y \in Symbols : /\ feed'[y].seq = feed[y].seq /\ feed'[y].left = feed[y].left
                             /\ feed'[y].target = feed[y].target
                             /\ feed'[y].at = IF y = x THEN a ELSE feed[y].at
      BY <2>4
    <3> QED
      BY <1>1, <2>1, <3>1 DEF FeedsInPlace
  <2> QED
    BY <2>2, <2>4
<1>9. ASSUME NEW x \in Symbols, DropSlow(x)
      PROVE  FeedsInPlace'
  <2>1. /\ latest' = latest /\ feed[x].at = "slow"
        /\ \E a \in {"offer", "locked"} : feed' = [feed EXCEPT ![x].at = a]
    BY <1>9, DropSlowCases DEF DropSlow, dataVars
  <2>2. ASSUME NEW a \in {"offer", "locked"}, feed' = [feed EXCEPT ![x].at = a]
        PROVE  FeedsInPlace'
    <3>1. \A y \in Symbols : /\ feed'[y].seq = feed[y].seq /\ feed'[y].left = feed[y].left
                             /\ feed'[y].target = feed[y].target
                             /\ feed'[y].at = IF y = x THEN a ELSE feed[y].at
      BY <2>2
    <3> QED
      BY <1>1, <2>1, <3>1 DEF FeedsInPlace
  <2> QED
    BY <2>1, <2>2
<1>10. ASSUME NEW x \in Symbols, Published(x)
      PROVE  FeedsInPlace'
  BY <1>1, <1>10 DEF FeedsInPlace, Published, dataVars
<1> QED
  BY <1>2, <1>3, <1>4, <1>5, <1>6, <1>7, <1>8, <1>9, <1>10, SessionFrame
  DEF Next, Publishing, vars, dataVars
\* Sessions stay in place.
LEMMA SessionsNext ==
  ASSUME TypeOK, FeedsInPlace, SessionsInPlace, [Next]_vars
  PROVE  SessionsInPlace'
<1> USE DEF TypeOK, SessionTypeOK, HubTypeOK
<1>1. ASSUME NEW x \in Symbols, NEW s \in Sessions, Remove(x, s)
      PROVE  /\ \A y \in Symbols : members'[y] \subseteq members[y]
             /\ \A t \in Sessions : t \in closed' \ closed => t \in members[x]
  BY <1>1, RemoveEffect
<1>2. ASSUME UNCHANGED sessionVars, \A y \in Symbols : members'[y] \subseteq members[y],
             \A t \in Sessions : t \in closed' \ closed => \E x \in Symbols : t \in members[x]
      PROVE  SessionsInPlace'
  BY <1>2 DEF sessionVars, SessionsInPlace, Fresh
<1>3. CASE UNCHANGED vars
  BY <1>2, <1>3 DEF vars, hubVars
<1>4. ASSUME NEW x \in Symbols, Receive(x) \/ Publishing(x)
      PROVE  SessionsInPlace'
  <2>1. UNCHANGED sessionVars
    BY <1>4, FeedFrame
  <2>2. CASE ~DropSlow(x)
    <3>1. UNCHANGED <<members, closed>>
      BY <1>4, <2>2
      DEF Receive, Publishing, Cache, AddTrade, Publish, Offer, Send, Published, hubVars
    <3> QED
      BY <1>2, <2>1, <3>1
  <2>3. CASE DropSlow(x)
    <3>1. \/ UNCHANGED <<members, closed>>
          \/ feed[x].target \in Sessions /\ Remove(x, feed[x].target)
      BY <2>3, DropSlowCases DEF hubVars
    <3> QED
      BY <1>1, <1>2, <2>1, <3>1
  <2> QED
    BY <2>2, <2>3
<1>5. ASSUME NEW s \in Sessions, Write(s)
      PROVE  SessionsInPlace'
  <2>1. UNCHANGED <<sessionVars, members, closed>>
    BY <1>5 DEF Write, sessionVars, hubVars
  <2> QED
    BY <1>2, <2>1
<1>6. ASSUME NEW s \in Sessions, OpenClient(s) \/ Leave(s)
      PROVE  SessionsInPlace'
  BY <1>6, FanoutAssumption DEF OpenClient, Leave, MayWrite, hubVars, SessionsInPlace, Fresh, Sessions
<1>7. ASSUME NEW s \in Sessions, Insert(s)
      PROVE  SessionsInPlace'
  BY <1>7, FanoutAssumption DEF Insert, SessionsInPlace, Fresh, Sessions
<1>8. ASSUME NEW s \in Sessions, Count(s) \/ Snapshot(s)
      PROVE  SessionsInPlace'
  BY <1>8, FanoutAssumption DEF Count, Snapshot, hubVars, SessionsInPlace, Fresh, Sessions
<1>9. ASSUME NEW s \in Sessions, CloseStream(s)
      PROVE  SessionsInPlace'
  <2>1. /\ \A y \in Symbols : members'[y] \subseteq members[y]
        /\ \A t \in Sessions : t \in closed' \ closed => \E x \in Symbols : t \in members[x]
    BY <1>9, <1>1 DEF CloseStream, Unsubscribe, hubVars
  <2>2. at[s] = "leave" /\ at' = [at EXCEPT ![s] = "ended"] /\ UNCHANGED <<in, sym, ops, base>>
    BY <1>9 DEF CloseStream
  <2> QED
    BY <2>1, <2>2, FanoutAssumption DEF SessionsInPlace, Fresh, Sessions
<1>10. ASSUME NEW s \in Sessions, NEW x \in Symbols, OpenStream(s, x) \/ SubscribeRequest(s, x)
       PROVE  SessionsInPlace'
  BY <1>10, FanoutAssumption DEF OpenStream, SubscribeRequest, Request, hubVars, SessionsInPlace, Fresh, Sessions
<1>11. ASSUME NEW s \in Sessions, NEW x \in Symbols, UnsubscribeRequest(s, x)
       PROVE  SessionsInPlace'
  <2>1. /\ \A y \in Symbols : members'[y] \subseteq members[y]
        /\ \A t \in Sessions : t \in closed' \ closed => \E y \in Symbols : t \in members[y]
    BY <1>11, <1>1 DEF UnsubscribeRequest, Unsubscribe, hubVars
  <2>2. /\ s \in Clients /\ at[s] # "idle" /\ in[s] = "read" /\ ops' = [ops EXCEPT ![s] = @ + 1]
        /\ UNCHANGED <<at, in, sym, base>>
    BY <1>11 DEF UnsubscribeRequest, Request
  <2> QED
    BY <2>1, <2>2, FanoutAssumption DEF SessionsInPlace, Fresh, Sessions
<1> QED
  BY <1>3, <1>4, <1>5, <1>6, <1>7, <1>8, <1>9, <1>10, <1>11 DEF Next, SessionStep

-----------------------------------------------------------------------------
(* The cache and the updates on their way.                                 *)

\* What is appended to a sequence is all it gains.
LEMMA AppendElements ==
  ASSUME NEW T, NEW q \in Seq(T), NEW e \in T
  PROVE  Elements(Append(q, e)) = Elements(q) \cup {e}
<1>1. DOMAIN Append(q, e) = 1 .. Len(q) + 1 /\ DOMAIN q = 1 .. Len(q) /\ Len(q) \in Nat
  OBVIOUS
<1>2. \A i \in DOMAIN Append(q, e) : Append(q, e)[i] = IF i = Len(q) + 1 THEN e ELSE q[i]
  OBVIOUS
<1> QED
  BY <1>1, <1>2 DEF Elements

\* The cache stays current.
LEMMA CacheNext ==
  ASSUME TypeOK, FeedsInPlace, CacheCurrent, [Next]_vars
  PROVE  CacheCurrent'
<1> USE DEF TypeOK, FeedTypeOK, DataTypeOK
<1>1. CASE UNCHANGED <<feed, dataVars>>
  BY <1>1 DEF dataVars, CacheCurrent
<1>2. ASSUME NEW x \in Symbols, Receive(x)
      PROVE  CacheCurrent'
  <2>1. /\ latest' = [latest EXCEPT ![x] = @ + 1] /\ feed[x].at = "receive"
        /\ feed' = [feed EXCEPT ![x].at = "cache", ![x].seq = latest[x] + 1]
        /\ UNCHANGED <<cached, tradeLog>>
    BY <1>2 DEF Receive
  <2>2. SUFFICES ASSUME NEW y \in Symbols
                 PROVE  /\ cached[y] <= latest'[y]
                        /\ \A n \in BookUpdates \cap (1 .. latest'[y]) :
                             n <= cached[y] \/ (n = latest'[y] /\ feed'[y].at = "cache")
                        /\ \A n \in TradeUpdates \cap (1 .. latest'[y]) :
                             n \in Elements(tradeLog[y])
                               \/ (n = latest'[y] /\ feed'[y].at \in {"cache", "trade"})
    BY <2>1 DEF CacheCurrent
  <2>3. CASE y # x
    BY <2>1, <2>3 DEF CacheCurrent
  <2>4. CASE y = x
    <3>1. latest'[x] = latest[x] + 1 /\ feed'[x].at = "cache" /\ latest[x] \in Nat /\ cached[x] \in Nat
      BY <2>1
    <3>2. \A n \in 1 .. latest'[x] : n = latest'[x] \/ n \in 1 .. latest[x]
      <4> DEFINE m == latest[x]
      <4>1. m \in Nat /\ latest'[x] = m + 1
        BY <3>1
      <4> HIDE DEF m
      <4>2. \A n \in 1 .. m + 1 : n = m + 1 \/ n \in 1 .. m
        BY <4>1
      <4> QED
        BY <4>1, <4>2 DEF m
    <3>3. /\ cached[x] <= latest[x]
          /\ \A n \in BookUpdates \cap (1 .. latest[x]) : n <= cached[x]
          /\ \A n \in TradeUpdates \cap (1 .. latest[x]) : n \in Elements(tradeLog[x])
      BY <2>1 DEF CacheCurrent
    <3> QED
      BY <2>4, <3>1, <3>2, <3>3
  <2> QED
    BY <2>3, <2>4
<1>3. ASSUME NEW x \in Symbols, Cache(x)
      PROVE  CacheCurrent'
  <2>1. /\ cached' = [cached EXCEPT ![x] = IF feed[x].seq \in BookUpdates THEN feed[x].seq ELSE @]
        /\ feed' = [feed EXCEPT ![x].at = "trade"] /\ feed[x].at = "cache"
        /\ UNCHANGED <<latest, tradeLog>>
    BY <1>3 DEF Cache, Carries
  <2>2. feed[x].seq = latest[x] /\ latest[x] \in Nat /\ cached[x] \in Nat
    BY DEF FeedsInPlace
  <2> QED
    BY <2>1, <2>2 DEF CacheCurrent
<1>4. ASSUME NEW x \in Symbols, AddTrade(x)
      PROVE  CacheCurrent'
  <2>1. feed' = [feed EXCEPT ![x].at = "publish"] /\ feed[x].at = "trade" /\ UNCHANGED <<cached, latest>>
    BY <1>4 DEF AddTrade
  <2>2. feed[x].seq = latest[x] /\ latest[x] \in 1 .. MaxUpdates
    BY <2>1 DEF FeedsInPlace
  <2>3. CASE latest[x] \in TradeUpdates
    <3>1. tradeLog' = [tradeLog EXCEPT ![x] = Append(@, latest[x])]
      BY <1>4, <2>2, <2>3 DEF AddTrade, Carries
    <3>2. Elements(tradeLog'[x]) = Elements(tradeLog[x]) \cup {latest[x]}
      <4> DEFINE T == 1 .. MaxUpdates
      <4>1. tradeLog'[x] = Append(tradeLog[x], latest[x]) /\ tradeLog[x] \in Seq(T)
        BY <3>1
      <4>2. latest[x] \in T
        BY <2>2
      <4> HIDE DEF T
      <4>3. Elements(Append(tradeLog[x], latest[x])) = Elements(tradeLog[x]) \cup {latest[x]}
        BY <4>1, <4>2, AppendElements
      <4> QED
        BY <4>1, <4>3
    <3> QED
      BY <2>1, <2>2, <3>1, <3>2 DEF CacheCurrent
  <2>4. CASE latest[x] \notin TradeUpdates
    <3>1. tradeLog' = tradeLog
      BY <1>4, <2>2, <2>4 DEF AddTrade, Carries
    <3> QED
      BY <2>1, <2>2, <2>4, <3>1 DEF CacheCurrent
  <2> QED
    BY <2>3, <2>4
<1>5. ASSUME NEW x \in Symbols, Publish(x) \/ (\E s \in Sessions : Offer(x, s)) \/ Send(x) \/ DropSlow(x) \/ Published(x)
      PROVE  CacheCurrent'
  <2>1. UNCHANGED dataVars /\ feed[x].at \notin {"cache", "trade"}
    BY <1>5 DEF Publish, Offer, Send, DropSlow, Published
  <2>2. \A y \in Symbols \ {x} : feed'[y] = feed[y]
    BY <1>5 DEF Publish, Offer, Send, DropSlow, Published
  <2> QED
    BY <2>1, <2>2 DEF CacheCurrent, dataVars
<1> QED
  BY <1>1, <1>2, <1>3, <1>4, <1>5, SessionFrame DEF Next, Publishing, vars

\* The trade buffers stay in place.
LEMMA RingsNext ==
  ASSUME TypeOK, FeedsInPlace, RingsInPlace, [Next]_vars
  PROVE  RingsInPlace'
<1>1. CASE UNCHANGED <<ring, tradeLog>>
  BY <1>1 DEF RingsInPlace
<1>2. ASSUME NEW x \in Symbols, AddTrade(x), ~UNCHANGED <<ring, tradeLog>>
      PROVE  RingsInPlace'
  <2>1. /\ ring' = [ring EXCEPT ![x] = Add(@, feed[x].seq)]
        /\ tradeLog' = [tradeLog EXCEPT ![x] = Append(@, feed[x].seq)]
    BY <1>2 DEF AddTrade
  <2>2. feed[x].seq \in 1 .. MaxUpdates
    BY <1>2 DEF AddTrade, FeedsInPlace, TypeOK, FeedTypeOK
  <2>3. Holds(Add(ring[x], feed[x].seq), Append(tradeLog[x], feed[x].seq))
    BY <2>2, AddHolds DEF RingsInPlace, TypeOK, DataTypeOK
  <2> QED
    BY <2>1, <2>3 DEF RingsInPlace, TypeOK, DataTypeOK
<1>3. ASSUME NEW x \in Symbols, Receive(x) \/ Publishing(x), ~AddTrade(x)
      PROVE  UNCHANGED <<ring, tradeLog>>
  BY <1>3 DEF Receive, Publishing, Cache, Publish, Offer, Send, DropSlow, Published, dataVars
<1> QED
  BY <1>1, <1>2, <1>3, SessionFrame DEF Next, Publishing, vars, dataVars
\* Who is still to be offered what a feed has in hand: a step of a feed changes
\* it for its own symbol only, and an update is on its way to nobody new.
LEMMA OffersNext ==
  ASSUME TypeOK, FeedsInPlace, OffersInOrder, [Next]_vars
  PROVE  OffersInOrder'
<1> USE DEF TypeOK, FeedTypeOK, DataTypeOK
<1>1. ASSUME UNCHANGED <<latest, got, lost>>,
             \A y \in Symbols, s \in Sessions : OnItsWay(y, s)' => OnItsWay(y, s)
      PROVE  OffersInOrder'
  <2>1. \A s \in Sessions : \A u \in got[s] \cup lost[s] : u.sym \in Symbols
    BY DEF BufferTypeOK, Update
  <2> QED
    BY <1>1, <2>1 DEF OffersInOrder
<1>2. CASE UNCHANGED <<feed, latest, got, lost>>
  BY <1>1, <1>2 DEF OnItsWay, ToOffer
<1>3. ASSUME NEW x \in Symbols, Receive(x)
      PROVE  OffersInOrder'
  <2>1. latest' = [latest EXCEPT ![x] = @ + 1] /\ UNCHANGED <<got, lost>>
    BY <1>3 DEF Receive, bufferVars
  <2>2. \A y \in Symbols \ {x} : feed'[y] = feed[y] /\ latest'[y] = latest[y]
    BY <1>3 DEF Receive
  <2>3. latest'[x] = latest[x] + 1
    BY <2>1
  <2>4. SUFFICES ASSUME NEW s \in Sessions, NEW u \in got[s] \cup lost[s]
                 PROVE  /\ u.seq <= latest'[u.sym]
                        /\ OnItsWay(u.sym, s)' => u.seq < latest'[u.sym]
    BY <2>1 DEF OffersInOrder
  <2>5. u.sym \in Symbols /\ u.seq \in Nat /\ latest[u.sym] \in Nat
    BY DEF BufferTypeOK, Update
  <2>6. u.seq <= latest[u.sym] /\ (OnItsWay(u.sym, s) => u.seq < latest[u.sym])
    BY DEF OffersInOrder
  <2>7. CASE u.sym = x
    BY <2>3, <2>5, <2>6, <2>7
  <2>8. CASE u.sym # x
    BY <2>2, <2>5, <2>6, <2>8 DEF OnItsWay, ToOffer
  <2> QED
    BY <2>7, <2>8
<1>4. ASSUME NEW x \in Symbols,
             Cache(x) \/ AddTrade(x) \/ Publish(x) \/ (\E s \in Sessions : Offer(x, s)) \/ DropSlow(x) \/ Published(x)
      PROVE  OffersInOrder'
  <2>1. UNCHANGED <<latest, got, lost>>
    BY <1>4 DEF Cache, AddTrade, Publish, Offer, DropSlow, Published, bufferVars, dataVars
  <2>2. \A y \in Symbols \ {x} : feed'[y] = feed[y]
    BY <1>4 DEF Cache, AddTrade, Publish, Offer, DropSlow, Published
  <2>3. \A s \in Sessions : OnItsWay(x, s)' => OnItsWay(x, s)
    <3>1. CASE Cache(x) \/ AddTrade(x) \/ Publish(x)
      BY <3>1 DEF Cache, AddTrade, Publish, OnItsWay
    <3>2. ASSUME NEW t \in Sessions, Offer(x, t)
          PROVE  \A s \in Sessions : OnItsWay(x, s)' => OnItsWay(x, s)
      BY <3>2 DEF Offer, OnItsWay, ToOffer
    <3>3. CASE DropSlow(x) \/ Published(x)
      <4>1. /\ feed[x].at \in {"slow", "offer"} /\ feed'[x].at \in {"offer", "receive", "locked"}
            /\ feed'[x].left = feed[x].left
        BY <3>3 DEF DropSlow, Published
      <4> QED
        BY <4>1 DEF OnItsWay, ToOffer
    <3> QED
      BY <1>4, <3>1, <3>2, <3>3
  <2> QED
    BY <1>1, <2>1, <2>2, <2>3 DEF OnItsWay, ToOffer
<1>5. ASSUME NEW x \in Symbols, Send(x)
      PROVE  OffersInOrder'
  <2> DEFINE t == feed[x].target
  <2> DEFINE w == InHand(x)
  <2>1. /\ t \in Sessions /\ t \notin feed[x].left /\ feed[x].at = "send" /\ latest' = latest
        /\ w.sym = x /\ w.seq = feed[x].seq /\ feed[x].seq = latest[x]
    BY <1>5, SendCases DEF Send, dataVars, InHand, FeedsInPlace
  <2>2. CASE UNCHANGED bufferVars
    <3>1. \E a \in {"slow", "offer", "broken"} : feed' = [feed EXCEPT ![x].at = a]
      BY <1>5, SendCases
    <3>2. \A y \in Symbols, s \in Sessions : OnItsWay(y, s)' => OnItsWay(y, s)
      BY <2>1, <3>1 DEF OnItsWay, ToOffer
    <3> QED
      BY <1>1, <2>1, <2>2, <3>2 DEF bufferVars
  <2>3. CASE ~UNCHANGED bufferVars
    <3>1. \E a \in {"slow", "offer"} : feed' = [feed EXCEPT ![x].at = a]
      BY <1>5, <2>3, SendCases
    <3>2. \A y \in Symbols, s \in Sessions :
            OnItsWay(y, s)' => OnItsWay(y, s) /\ (y = x => s # t)
      BY <2>1, <3>1 DEF OnItsWay, ToOffer
    <3>3. /\ \A s \in Sessions : got'[s] \cup lost'[s] \subseteq got[s] \cup lost[s] \cup {w}
          /\ \A s \in Sessions \ {t} : got'[s] \cup lost'[s] \subseteq got[s] \cup lost[s]
      <4>1. \/ lost' = [lost EXCEPT ![t] = @ \cup {w}] /\ got' = got
            \/ got' = [got EXCEPT ![t] = @ \cup {w}] /\ lost' = lost
        BY <1>5, <2>3, SendCases
      <4>2. got \in [Sessions -> SUBSET Update] /\ lost \in [Sessions -> SUBSET Update]
        BY DEF BufferTypeOK
      <4> HIDE DEF t, w
      <4> QED
        BY <4>1, <4>2
    <3>5. SUFFICES ASSUME NEW s \in Sessions, NEW u \in got'[s] \cup lost'[s]
                   PROVE  /\ u.seq <= latest[u.sym]
                          /\ OnItsWay(u.sym, s)' => u.seq < latest[u.sym]
      BY <2>1 DEF OffersInOrder
    <3>6. CASE u \in got[s] \cup lost[s]
      <4>1. u.sym \in Symbols
        BY <3>6 DEF BufferTypeOK, Update
      <4> QED
        BY <3>2, <3>6, <4>1 DEF OffersInOrder
    <3>7. CASE u = w /\ s = t
      BY <2>1, <3>2, <3>7
    <3> QED
      BY <3>3, <3>6, <3>7
  <2> QED
    BY <2>2, <2>3
<1> QED
  BY <1>2, <1>3, <1>4, <1>5, SessionFrame DEF Next, Publishing, vars, bufferVars, dataVars

\* What is taken from a channel is its oldest update, of which there is one.
LEMMA ChannelsNext ==
  ASSUME TypeOK, FeedsInPlace, OffersInOrder, ChannelsInOrder, [Next]_vars
  PROVE  ChannelsInOrder'
<1> USE DEF TypeOK, BufferTypeOK
<1>1. CASE UNCHANGED <<channel, got>>
  BY <1>1 DEF ChannelsInOrder
<1>2. ASSUME NEW x \in Symbols, Send(x), ~UNCHANGED <<channel, got>>
      PROVE  ChannelsInOrder'
  <2> DEFINE t == feed[x].target
  <2> DEFINE w == InHand(x)
  <2> DEFINE q == channel[t]
  <2>1. /\ t \in Sessions /\ w \in Update /\ w.sym = x /\ w.seq = latest[x] /\ OnItsWay(x, t)
        /\ channel' = [channel EXCEPT ![t] = Append(q, w)] /\ got' = [got EXCEPT ![t] = @ \cup {w}]
    BY <1>2, SendCases DEF bufferVars, InHand, OnItsWay, ToOffer, FeedsInPlace
  <2>2. /\ q \in Seq(Update) /\ Elements(q) \subseteq got[t] /\ Len(q) \in Nat
        /\ \A j \in 1 .. Len(q) : \A i \in 1 .. j - 1 : q[i].sym = q[j].sym => q[i].seq < q[j].seq
    <3>1. t \in Sessions
      BY <2>1
    <3>2. channel[t] \in Seq(Update)
      BY <3>1
    <3>3. DOMAIN channel[t] = 1 .. Len(channel[t]) /\ Len(channel[t]) \in Nat
      BY <3>2
    <3> QED
      BY <3>1, <3>2, <3>3 DEF ChannelsInOrder
  <2>3. \A i \in 1 .. Len(q) : q[i].sym = x => q[i].seq < w.seq
    <3> SUFFICES ASSUME NEW i \in 1 .. Len(q), q[i].sym = x
                 PROVE  q[i].seq < w.seq
      OBVIOUS
    <3>1. q[i] \in got[t]
      BY <2>2 DEF Elements
    <3> QED
      BY <2>1, <3>1 DEF OffersInOrder
  <2>4. /\ DOMAIN Append(q, w) = 1 .. Len(q) + 1
        /\ \A i \in 1 .. Len(q) + 1 : Append(q, w)[i] = IF i = Len(q) + 1 THEN w ELSE q[i]
    BY <2>1, <2>2
  <2>5. Elements(Append(q, w)) = Elements(q) \cup {w}
    BY <2>1, <2>2, AppendElements
  <2> DEFINE r == Append(q, w)
  <2>6. /\ DOMAIN r = 1 .. Len(q) + 1
        /\ \A i \in 1 .. Len(q) + 1 : r[i] = IF i = Len(q) + 1 THEN w ELSE q[i]
    BY <2>4
  <2> HIDE DEF r, q, w
  <2>7. \A j \in DOMAIN r : \A i \in 1 .. j - 1 : r[i].sym = r[j].sym => r[i].seq < r[j].seq
    <3> SUFFICES ASSUME NEW j \in DOMAIN r, NEW i \in 1 .. j - 1, r[i].sym = r[j].sym
                 PROVE  r[i].seq < r[j].seq
      OBVIOUS
    <3>1. j \in 1 .. Len(q) + 1 /\ i \in 1 .. Len(q) /\ r[i] = q[i]
      BY <2>2, <2>6
    <3>2. CASE j = Len(q) + 1
      BY <2>1, <2>3, <2>6, <3>1, <3>2
    <3>3. CASE j # Len(q) + 1
      <4>1. j \in 1 .. Len(q)
        <5>1. Len(q) \in Nat
          BY <2>2
        <5> QED
          BY <5>1, <3>1, <3>3
      <4>2. r[j] = q[j]
        BY <2>6, <3>1, <3>3
      <4> QED
        BY <2>2, <3>1, <4>1, <4>2
    <3> QED
      BY <3>2, <3>3
  <2> QED
    BY <2>1, <2>2, <2>5, <2>7 DEF ChannelsInOrder, r, q
<1>3. ASSUME NEW s \in Sessions, Write(s)
      PROVE  ChannelsInOrder'
  <2> DEFINE q == channel[s]
  <2>1. channel' = [channel EXCEPT ![s] = Tail(q)] /\ got' = got /\ q # <<>> /\ q \in Seq(Update)
    BY <1>3 DEF Write
  <2>2. /\ DOMAIN q = 1 .. Len(q) /\ Len(q) \in Nat /\ DOMAIN Tail(q) = 1 .. Len(q) - 1
        /\ \A i \in 1 .. Len(q) - 1 : Tail(q)[i] = q[i + 1]
    BY <2>1
  <2>3. /\ Elements(q) \subseteq got[s]
        /\ \A j \in DOMAIN q : \A i \in 1 .. j - 1 : q[i].sym = q[j].sym => q[i].seq < q[j].seq
    BY DEF ChannelsInOrder
  <2> DEFINE r == Tail(q)
  <2> HIDE DEF r, q
  <2>4. Elements(r) \subseteq got[s]
    BY <2>2, <2>3 DEF Elements, r
  <2>5. \A j \in DOMAIN r : \A i \in 1 .. j - 1 : r[i].sym = r[j].sym => r[i].seq < r[j].seq
    <3> SUFFICES ASSUME NEW j \in 1 .. Len(q) - 1, NEW i \in 1 .. j - 1, r[i].sym = r[j].sym
                 PROVE  r[i].seq < r[j].seq
      BY <2>2 DEF r
    <3>1. j + 1 \in DOMAIN q /\ i + 1 \in 1 .. (j + 1) - 1 /\ r[i] = q[i + 1] /\ r[j] = q[j + 1]
      BY <2>2 DEF r
    <3> QED
      BY <3>1, <2>3
  <2> QED
    BY <2>1, <2>4, <2>5 DEF ChannelsInOrder, r, q
<1>4. ASSUME NEW x \in Symbols, Receive(x) \/ Publishing(x), ~Send(x)
      PROVE  UNCHANGED <<channel, got>>
  BY <1>4 DEF Receive, Publishing, Cache, AddTrade, Publish, Offer, DropSlow, Published, bufferVars
<1>5. ASSUME NEW s \in Sessions, SessionStep(s), ~Write(s)
      PROVE  UNCHANGED <<channel, got>>
  BY <1>5 DEF SessionStep, OpenClient, Insert, Count, Snapshot, Leave, CloseStream,
              OpenStream, SubscribeRequest, UnsubscribeRequest, bufferVars
<1> QED
  BY <1>1, <1>2, <1>3, <1>4, <1>5 DEF Next, Publishing, vars, bufferVars
-----------------------------------------------------------------------------
(* The count of subscribers.                                               *)

\* The sets that are counted are finite.
LEMMA Finite ==
  ASSUME TypeOK
  PROVE  /\ IsFiniteSet(Sessions) /\ IsFiniteSet(Counting) /\ IsFiniteSet(Entries)
         /\ Cardinality(Counting) \in Nat /\ Cardinality(Entries) \in Nat
<1>1. IsFiniteSet(Sessions)
  BY FanoutAssumption, FS_Union DEF Sessions
<1>2. IsFiniteSet(Counting)
  BY <1>1, FS_Subset DEF Counting
<1>3. IsFiniteSet(Symbols \X Sessions)
  BY <1>1, FanoutAssumption, FS_Product
<1>4. IsFiniteSet(Entries)
  BY <1>3, FS_Subset DEF Entries
<1> QED
  BY <1>1, <1>2, <1>4, FS_CardinalityType

\* Who has subscribed and is not counted yet changes with his own steps only.
LEMMA CountingSteps ==
  ASSUME TypeOK, SessionsInPlace, [Next]_vars
  PROVE  \/ Counting' = Counting
         \/ \E s \in Sessions : Insert(s) \/ Count(s)
<1> USE DEF TypeOK, SessionTypeOK
<1>1. CASE UNCHANGED in
  BY <1>1 DEF Counting
<1>2. ASSUME NEW s \in Sessions, Snapshot(s)
      PROVE  Counting' = Counting
  BY <1>2 DEF Snapshot, Counting
<1>3. ASSUME NEW s \in Sessions, NEW x \in Symbols, OpenStream(s, x) \/ SubscribeRequest(s, x)
      PROVE  Counting' = Counting
  <2>1. in' = [in EXCEPT ![s] = "insert"]
    BY <1>3 DEF OpenStream, SubscribeRequest
  <2>2. in[s] = "read"
    BY <1>3 DEF OpenStream, SubscribeRequest, Request, SessionsInPlace
  <2> QED
    BY <2>1, <2>2 DEF Counting
<1>4. ASSUME NEW s \in Sessions, NEW x \in Symbols,
             OpenClient(s) \/ Write(s) \/ Leave(s) \/ CloseStream(s) \/ UnsubscribeRequest(s, x)
      PROVE  UNCHANGED in
  BY <1>4 DEF OpenClient, Write, Leave, CloseStream, UnsubscribeRequest
<1>5. CASE UNCHANGED vars
  BY <1>1, <1>5 DEF vars, sessionVars
<1> QED
  BY <1>1, <1>2, <1>3, <1>4, <1>5, FeedFrame, FanoutAssumption DEF Next, SessionStep, sessionVars
\* The entries after a removal and after a subscription.
LEMMA EntriesRemove ==
  ASSUME TypeOK, NEW x \in Symbols, NEW s \in Sessions, Remove(x, s)
  PROVE  Entries' = Entries \ {<<x, s>>}
<1>1. \A y \in Symbols : members'[y] = IF y = x THEN members[y] \ {s} ELSE members[y]
  BY RemoveEffect
<1>2. \A e \in Symbols \X Sessions : e[1] \in Symbols /\ (e[1] = x /\ e[2] = s <=> e = <<x, s>>)
  OBVIOUS
<1>3. \A e \in Symbols \X Sessions : e[2] \in members'[e[1]] <=> e[2] \in members[e[1]] /\ e # <<x, s>>
  BY <1>1, <1>2
<1> QED
  BY <1>3 DEF Entries

LEMMA EntriesInsert ==
  ASSUME TypeOK, NEW s \in Sessions, Insert(s)
  PROVE  /\ <<sym[s], s>> \in Symbols \X Sessions
         /\ <<sym[s], s>> \in Entries <=> s \in members[sym[s]]
         /\ Entries' = Entries \cup {<<sym[s], s>>}
<1>1. sym[s] \in Symbols /\ members' = [members EXCEPT ![sym[s]] = @ \cup {s}]
  BY DEF Insert, TypeOK, SessionTypeOK
<1>2. \A y \in Symbols : members'[y] = IF y = sym[s] THEN members[y] \cup {s} ELSE members[y]
  BY <1>1 DEF TypeOK, HubTypeOK
<1> QED
  BY <1>1, <1>2 DEF Entries

\* The count stays right.
LEMMA CountNext ==
  ASSUME TypeOK, FeedsInPlace, SessionsInPlace, CountAgrees, [Next]_vars
  PROVE  CountAgrees'
<1> DEFINE C == Cardinality(Counting)
<1> DEFINE E == Cardinality(Entries)
<1>1. /\ active \in Int /\ repeats \in Nat /\ C \in Nat /\ E \in Nat
      /\ IsFiniteSet(Counting) /\ IsFiniteSet(Entries)
  BY Finite DEF TypeOK, HubTypeOK
<1>2. active + C = E + repeats
  BY DEF CountAgrees
<1>3. ASSUME NEW s \in Sessions, Insert(s)
      PROVE  CountAgrees'
  <2>1. Counting' = Counting \cup {s} /\ s \notin Counting /\ active' = active
    BY <1>3 DEF Insert, Counting, TypeOK, SessionTypeOK
  <2>2. Cardinality(Counting') = C + 1
    BY <1>1, <2>1, FS_AddElement
  <2>3. Cardinality(Entries') = IF s \in members[sym[s]] THEN E ELSE E + 1
    BY <1>1, <1>3, EntriesInsert, FS_AddElement
  <2>4. repeats' = repeats + (IF s \in members[sym[s]] THEN 1 ELSE 0)
    BY <1>3 DEF Insert
  <2> HIDE DEF C, E
  <2>5. active' + Cardinality(Counting') = Cardinality(Entries') + repeats'
    BY <1>1, <1>2, <2>1, <2>2, <2>3, <2>4
  <2> QED
    BY <2>5 DEF CountAgrees
<1>4. ASSUME NEW s \in Sessions, Count(s)
      PROVE  CountAgrees'
  <2>1. /\ Counting' = Counting \ {s} /\ s \in Counting /\ active' = active + 1
        /\ Entries' = Entries /\ repeats' = repeats
    BY <1>4 DEF Count, Counting, Entries, TypeOK, SessionTypeOK
  <2>2. Cardinality(Counting') = C - 1
    BY <1>1, <2>1, FS_RemoveElement
  <2> HIDE DEF C, E
  <2>3. active' + Cardinality(Counting') = Cardinality(Entries') + repeats'
    BY <1>1, <1>2, <2>1, <2>2 DEF E
  <2> QED
    BY <2>3 DEF CountAgrees
<1>5. ASSUME NEW x \in Symbols, NEW s \in Sessions, Remove(x, s), UNCHANGED in
      PROVE  CountAgrees'
  <2>1. Counting' = Counting /\ repeats' = repeats
    BY <1>5, RemoveEffect DEF Counting
  <2>2. active' = IF <<x, s>> \in Entries THEN active - 1 ELSE active
    BY <1>5 DEF Remove, Entries, hubVars
  <2>3. Cardinality(Entries') = IF <<x, s>> \in Entries THEN E - 1 ELSE E
    BY <1>1, <1>5, EntriesRemove, FS_RemoveElement
  <2> HIDE DEF C, E
  <2>4. active' + Cardinality(Counting') = Cardinality(Entries') + repeats'
    BY <1>1, <1>2, <2>1, <2>2, <2>3 DEF C
  <2> QED
    BY <2>4 DEF CountAgrees
<1>6. ASSUME UNCHANGED hubVars, Counting' = Counting
      PROVE  CountAgrees'
  BY <1>6 DEF CountAgrees, hubVars, Entries
<1> QED
  BY <1>3, <1>4, <1>5, <1>6, HubSteps, CountingSteps

-----------------------------------------------------------------------------
(* The invariant.                                                          *)

\* The invariant holds initially.
LEMMA HubInit == Init => HubInv
<1> SUFFICES ASSUME Init
             PROVE  HubInv
  OBVIOUS
<1>1. TypeOK
  BY InitType
<1>2. MembersAreOpen /\ SessionsInPlace
  BY FanoutAssumption DEF Init, MembersAreOpen, SessionsInPlace, Fresh, Sessions
<1>3. CountAgrees
  <2>1. Counting = {} /\ Entries = {} /\ active = 0 /\ repeats = 0
    BY DEF Init, Counting, Entries
  <2> QED
    BY <2>1, FS_EmptySet DEF CountAgrees
<1>4. FeedsInPlace
  BY DEF Init, FeedsInPlace
<1>5. CacheCurrent
  <2>1. \A x \in Symbols : cached[x] = 0 /\ latest[x] = 0 /\ 1 .. latest[x] = {}
    BY DEF Init
  <2> QED
    BY <2>1 DEF CacheCurrent
<1>6. OffersInOrder
  BY DEF Init, OffersInOrder
<1>7. ChannelsInOrder
  <2>1. \A s \in Sessions : channel[s] = <<>> /\ DOMAIN channel[s] = {}
    BY DEF Init
  <2> QED
    BY <2>1 DEF ChannelsInOrder, Elements
<1>8. RingsInPlace
  BY NewHolds DEF Init, RingsInPlace
<1> QED
  BY <1>1, <1>2, <1>3, <1>4, <1>5, <1>6, <1>7, <1>8 DEF HubInv

\* Every step keeps it.
LEMMA HubNext == HubInv /\ [Next]_vars => HubInv'
  BY TypeNext, OpenNext, CountNext, FeedsNext, SessionsNext, CacheNext, OffersNext, ChannelsNext, RingsNext
  DEF HubInv

\* The hub's invariant, for any symbols, sessions, updates and buffer sizes:
\* topics, channels, feeds, cache and activeSubscribers agree.
THEOREM HubInvariant == Spec => []HubInv
<1>1. Init => HubInv
  BY HubInit
<1>2. HubInv /\ [Next]_vars => HubInv'
  BY HubNext
<1> QED
  BY <1>1, <1>2, PTL DEF Spec
-----------------------------------------------------------------------------
(* What the cache and its readers see.                                     *)

\* Whatever a subscriber was handed, the cache has.
THEOREM HubCacheAhead == Spec => []CacheAhead
<1>1. HubInv => CacheAhead
  <2> SUFFICES ASSUME HubInv, NEW s \in Sessions, NEW u \in got[s] \cup lost[s]
               PROVE  /\ u.seq \in BookUpdates => u.seq <= cached[u.sym]
                      /\ u.seq \in TradeUpdates => u.seq \in Elements(tradeLog[u.sym])
    BY DEF CacheAhead
  <2>1. u.sym \in Symbols /\ u.seq \in 1 .. MaxUpdates
    BY DEF HubInv, TypeOK, BufferTypeOK, Update
  <2>2. /\ u.seq <= latest[u.sym] /\ latest[u.sym] \in Nat
        /\ feed[u.sym].at \in {"cache", "trade"} => u.seq < latest[u.sym]
    BY <2>1 DEF HubInv, OffersInOrder, OnItsWay, TypeOK, DataTypeOK
  <2>3. u.seq \in 1 .. latest[u.sym]
    BY <2>1, <2>2
  <2>4. ~(u.seq = latest[u.sym] /\ feed[u.sym].at \in {"cache", "trade"})
    BY <2>1, <2>2
  <2> QED
    BY <2>1, <2>3, <2>4 DEF HubInv, CacheCurrent
<1> QED
  BY <1>1, HubInvariant, PTL

\* The trade history is the newest trades, however often the buffer has wrapped
\* round, for buffers of any size.
THEOREM HubRecentTrades == Spec => []RecentTrades
<1>1. HubInv => RecentTrades
  <2> SUFFICES ASSUME HubInv, NEW x \in Symbols
               PROVE  /\ \A n \in 0 .. TradeSize + 1 : GetRecent(ring[x], n) = LastTrades(tradeLog[x], n)
                      /\ GetAll(ring[x]) = LastTrades(tradeLog[x], TradeSize)
    BY DEF RecentTrades
  <2> DEFINE T == 1 .. MaxUpdates
  <2>1. ring[x] \in Rings(T) /\ tradeLog[x] \in Seq(T) /\ Holds(ring[x], tradeLog[x])
    BY DEF HubInv, TypeOK, DataTypeOK, RingsInPlace
  <2> HIDE DEF T
  <2>2. ASSUME NEW n \in 0 .. TradeSize + 1
        PROVE  GetRecent(ring[x], n) = LastTrades(tradeLog[x], n)
    <3>1. n \in Nat
      OBVIOUS
    <3> QED
      BY <2>1, <3>1, RecentIsLast
  <2>3. GetAll(ring[x]) = LastTrades(tradeLog[x], TradeSize)
    BY <2>1, AllIsLast
  <2> QED
    BY <2>2, <2>3
<1> QED
  BY <1>1, HubInvariant, PTL

-----------------------------------------------------------------------------
(* Slow subscribers.                                                       *)

\* Nobody over the threshold stays subscribed: the drop that takes him over it
\* leads straight to his removal.
THEOREM HubSlowIsCutOff == Spec => []SlowIsCutOff
<1>1. Init => SlowIsCutOff
  BY FanoutAssumption DEF Init, SlowIsCutOff
<1>2. ASSUME HubInv, SlowIsCutOff, [Next]_vars
      PROVE  SlowIsCutOff'
  <2>1. TypeOK /\ FeedsInPlace /\ closed \subseteq closed'
    BY <1>2, HubGrows DEF HubInv
  <2>2. CASE UNCHANGED <<dropped, feed>>
    BY <1>2, <2>1, <2>2 DEF SlowIsCutOff
  <2>3. ASSUME NEW x \in Symbols,
               Receive(x) \/ Cache(x) \/ AddTrade(x) \/ Publish(x) \/ (\E s \in Sessions : Offer(x, s)) \/ Published(x)
        PROVE  SlowIsCutOff'
    <3>1. UNCHANGED dropped /\ feed[x].at # "slow"
      BY <2>3 DEF Receive, Cache, AddTrade, Publish, Offer, Published, bufferVars
    <3>2. \A y \in Symbols \ {x} : feed'[y] = feed[y]
      BY <2>1, <2>3 DEF Receive, Cache, AddTrade, Publish, Offer, Published, TypeOK, FeedTypeOK
    <3> QED
      BY <1>2, <2>1, <3>1, <3>2 DEF SlowIsCutOff
  <2>4. ASSUME NEW x \in Symbols, Send(x)
        PROVE  SlowIsCutOff'
    <3> DEFINE t == feed[x].target
    <3>1. t \in Sessions /\ feed[x].at = "send"
      BY <2>1, <2>4, SendCases
    <3>2. CASE UNCHANGED dropped
      <4>1. \A y \in Symbols \ {x} : feed'[y] = feed[y]
        BY <2>1, <2>4 DEF Send, TypeOK, FeedTypeOK
      <4> QED
        BY <1>2, <2>1, <3>1, <3>2, <4>1 DEF SlowIsCutOff
    <3>3. CASE /\ dropped' = [dropped EXCEPT ![t] = @ + 1]
               /\ feed' = [feed EXCEPT ![x].at = IF TooSlow(t) THEN "slow" ELSE "offer"]
      <4>1. /\ \A y \in Symbols \ {x} : feed'[y] = feed[y]
            /\ feed'[x].target = t
            /\ feed'[x].at = IF dropped[t] >= SlowThreshold THEN "slow" ELSE "offer"
        BY <2>1, <3>3 DEF TypeOK, FeedTypeOK, TooSlow
      <4>2. /\ \A s \in Sessions \ {t} : dropped'[s] = dropped[s]
            /\ dropped'[t] = dropped[t] + 1 /\ dropped[t] \in Nat
        BY <2>1, <3>1, <3>3 DEF TypeOK, BufferTypeOK
      <4>3. dropped'[t] > SlowThreshold => feed'[x].at = "slow"
        BY <4>1, <4>2, FanoutAssumption
      <4> HIDE DEF t
      <4>4. ASSUME NEW s \in Sessions \ {t}, dropped'[s] > SlowThreshold
            PROVE  s \in closed' \/ \E y \in Symbols : feed'[y].at = "slow" /\ feed'[y].target = s
        BY <1>2, <2>1, <3>1, <4>1, <4>2, <4>4 DEF SlowIsCutOff
      <4> QED
        BY <4>1, <4>3, <4>4 DEF SlowIsCutOff
    <3> QED
      BY <2>1, <2>4, <3>2, <3>3, SendCases DEF bufferVars
  <2>5. ASSUME NEW x \in Symbols, DropSlow(x)
        PROVE  SlowIsCutOff'
    <3> DEFINE t == feed[x].target
    <3>1. UNCHANGED dropped /\ \A y \in Symbols \ {x} : feed'[y] = feed[y]
      BY <2>1, <2>5 DEF DropSlow, bufferVars, TypeOK, FeedTypeOK
    <3>2. t \in Sessions /\ t \in members[x] \cup closed
      BY <2>1, <2>5 DEF DropSlow, FeedsInPlace, TypeOK, HubTypeOK
    <3>3. t \in closed'
      BY <2>1, <2>5, <3>2, RemoveEffect, DropSlowCases DEF hubVars
    <3> QED
      BY <1>2, <2>1, <3>1, <3>3 DEF SlowIsCutOff
  <2> QED
    BY <1>2, <2>2, <2>3, <2>4, <2>5, SessionFrame DEF Next, Publishing, vars, bufferVars
<1> QED
  BY <1>1, <1>2, HubInvariant, PTL DEF Spec

-----------------------------------------------------------------------------
(* Streams miss nothing after their snapshot.                              *)

\* What was offered is never taken back.
LEMMA OffersGrow ==
  ASSUME TypeOK, FeedsInPlace, [Next]_vars, NEW s \in Sessions
  PROVE  got[s] \cup lost[s] \subseteq got'[s] \cup lost'[s]
<1>1. CASE UNCHANGED <<got, lost>>
  BY <1>1
<1>2. ASSUME NEW x \in Symbols, Send(x)
      PROVE  got[s] \subseteq got'[s] /\ lost[s] \subseteq lost'[s]
  <2> DEFINE t == feed[x].target
  <2> DEFINE w == InHand(x)
  <2>1. /\ lost' = lost \/ lost' = [lost EXCEPT ![t] = @ \cup {w}]
        /\ got' = got \/ got' = [got EXCEPT ![t] = @ \cup {w}]
    BY <1>2, SendCases DEF bufferVars
  <2>2. got \in [Sessions -> SUBSET Update] /\ lost \in [Sessions -> SUBSET Update]
    BY DEF TypeOK, BufferTypeOK
  <2> HIDE DEF t, w
  <2> QED
    BY <2>1, <2>2
<1>3. ASSUME NEW x \in Symbols, Receive(x) \/ Publishing(x), ~Send(x)
      PROVE  UNCHANGED <<got, lost>>
  BY <1>3 DEF Receive, Publishing, Cache, AddTrade, Publish, Offer, DropSlow, Published, bufferVars
<1> QED
  BY <1>1, <1>2, <1>3, SessionFrame DEF Next, Publishing, vars, bufferVars

\* What a stream that was not offered its newest update is excused by.
Expected(x, s) == OnItsWay(x, s) \/ BrokenOff(x, s)

\* No step but a new update or a snapshot opens a gap: an update that stops
\* being on its way was offered.
LEMMA GaplessKept ==
  ASSUME NEW s \in Streams, Gapless(s), sym'[s] = sym[s], base'[s] = base[s],
         latest'[sym[s]] = latest[sym[s]],
         got[s] \cup lost[s] \subseteq got'[s] \cup lost'[s],
         Expected(sym[s], s) =>
           Expected(sym[s], s)' \/ [sym |-> sym[s], seq |-> latest[sym[s]]] \in got'[s] \cup lost'[s]
  PROVE  Gapless(s)'
  BY DEF Gapless, Expected, OnItsWay, ToOffer, BrokenOff

\* A feed offers what it has in hand to every stream that is subscribed.
LEMMA GaplessFeed ==
  ASSUME HubInv, NEW s \in Streams, Gapless(s), s \in members'[sym[s]], [Next]_vars,
         Receive(sym[s]) \/ Publishing(sym[s])
  PROVE  Gapless(s)'
<1> DEFINE z == sym[s]
<1>1. TypeOK /\ FeedsInPlace /\ SessionsInPlace /\ MembersAreOpen
  BY DEF HubInv
<1>2. /\ s \in Sessions /\ z \in Symbols /\ latest[z] \in Nat /\ base[s] \in Nat
      /\ feed \in [Symbols -> [at : {"receive", "cache", "trade", "publish", "offer", "send", "slow",
                       "broken", "locked"},
                 seq : 0 .. MaxUpdates, left : SUBSET Sessions, target : Sessions \cup {NoTarget}]]
  BY <1>1 DEF Sessions, TypeOK, SessionTypeOK, DataTypeOK, FeedTypeOK
<1>3. sym'[s] = sym[s] /\ base'[s] = base[s]
  BY <1>2, FeedFrame DEF sessionVars
<1>4. got[s] \cup lost[s] \subseteq got'[s] \cup lost'[s]
  BY <1>1, <1>2, OffersGrow
<1>5. CASE Receive(z)
  <2>1. /\ latest' = [latest EXCEPT ![z] = @ + 1] /\ feed[z].at = "receive"
        /\ feed'[z].at = "cache" /\ feed[z].left = {} /\ UNCHANGED <<got, lost>>
    BY <1>1, <1>2, <1>5 DEF Receive, FeedsInPlace, bufferVars
  <2>2. latest'[z] = latest[z] + 1 /\ ~OnItsWay(z, s) /\ ~BrokenOff(z, s) /\ OnItsWay(z, s)'
    <3>1. latest'[z] = latest[z] + 1
      BY <1>1, <1>2, <2>1 DEF TypeOK, DataTypeOK
    <3>2. ~OnItsWay(z, s) /\ ~BrokenOff(z, s)
      BY <2>1 DEF OnItsWay, ToOffer, BrokenOff
    <3>3. feed'[sym'[s]].at = "cache"
      BY <1>3, <2>1
    <3> QED
      BY <1>3, <2>1, <3>1, <3>2, <3>3 DEF OnItsWay
  <2>3. \A n \in base[s] + 1 .. latest'[z] : n = latest'[z] \/ n \in base[s] + 1 .. latest[z]
    BY <1>2, <2>2
  <2> QED
    BY <1>3, <2>1, <2>2, <2>3 DEF Gapless
<1>6. CASE Cache(z) \/ AddTrade(z)
  <2>1. latest' = latest /\ feed'[z].at \in {"trade", "publish"}
    BY <1>2, <1>6 DEF Cache, AddTrade
  <2> QED
    BY <1>3, <1>4, <2>1, GaplessKept DEF Expected, OnItsWay, ToOffer, BrokenOff
<1>7. CASE Publish(z)
  <2>1. /\ latest' = latest /\ feed'[z].left = members[z] /\ UNCHANGED members
        /\ feed'[z].at = "offer"
    BY <1>2, <1>7 DEF Publish, dataVars, hubVars
  <2>2. Expected(z, s)'
    BY <1>3, <2>1 DEF Expected, OnItsWay, ToOffer
  <2> QED
    BY <1>3, <1>4, <2>1, <2>2, GaplessKept
<1>8. ASSUME NEW t \in Sessions, Offer(z, t)
      PROVE  Gapless(s)'
  <2>1. latest' = latest /\ UNCHANGED members /\ feed[z].at = "offer"
    BY <1>8 DEF Offer, dataVars, hubVars
  <2>2. feed'[z].left = feed[z].left \ {t} /\ feed'[z].at \in {"offer", "send"}
    BY <1>2, <1>8 DEF Offer
  <2>3. t = s => feed'[z].at = "send" /\ feed'[z].target = s
    <3>1. s \notin closed
      BY <1>1, <1>2, <2>1 DEF MembersAreOpen, Fresh
    <3> QED
      BY <1>2, <1>8, <3>1 DEF Offer
  <2>4. Expected(z, s) => Expected(z, s)'
    BY <1>3, <2>1, <2>2, <2>3 DEF Expected, OnItsWay, ToOffer, BrokenOff
  <2> QED
    BY <1>3, <1>4, <2>1, <2>4, GaplessKept
<1>9. CASE Send(z)
  <2>1. UNCHANGED <<latest, members>> /\ feed[z].at = "send" /\ feed'[z].left = feed[z].left
    BY <1>2, <1>9 DEF Send, dataVars, hubVars
  <2>2. feed[z].target = s => InHand(z) \in got'[s] \cup lost'[s]
    <3>1. s \notin closed
      BY <1>1, <1>2, <2>1 DEF MembersAreOpen, Fresh
    <3> QED
      <4> HAVE feed[z].target = s
      <4>1. \/ lost' = [lost EXCEPT ![s] = @ \cup {InHand(z)}]
            \/ got' = [got EXCEPT ![s] = @ \cup {InHand(z)}]
        <5>1. \/ feed[z].target \in closed
              \/ lost' = [lost EXCEPT ![feed[z].target] = @ \cup {InHand(z)}]
              \/ got' = [got EXCEPT ![feed[z].target] = @ \cup {InHand(z)}]
          BY <1>1, <1>2, <1>9, SendCases
        <5> QED
          BY <5>1, <3>1
      <4>2. got \in [Sessions -> SUBSET Update] /\ lost \in [Sessions -> SUBSET Update]
        BY <1>1 DEF TypeOK, BufferTypeOK
      <4> QED
        BY <1>2, <4>1, <4>2
  <2>3. InHand(z) = [sym |-> z, seq |-> latest[z]]
    BY <1>1, <1>2 DEF InHand, FeedsInPlace
  <2>4. feed'[z].at \in {"offer", "slow", "broken"}
    BY <1>1, <1>2, <1>9, SendCases
  <2>5. Expected(z, s) => Expected(z, s)' \/ feed[z].target = s
    BY <1>3, <2>1, <2>4 DEF Expected, OnItsWay, ToOffer, BrokenOff
  <2> QED
    BY <1>3, <1>4, <2>1, <2>2, <2>3, <2>5, GaplessKept
<1>10. CASE DropSlow(z) \/ Published(z)
  <2>1. latest' = latest /\ feed'[z].left = feed[z].left /\ feed[z].at \in {"slow", "offer"}
    BY <1>2, <1>10 DEF DropSlow, Published, dataVars
  <2>2. feed'[z].at \in {"offer", "locked"} \/ feed[z].left = {}
    BY <1>2, <1>10 DEF DropSlow, Published
  <2>3. Expected(z, s) => Expected(z, s)'
    BY <1>3, <2>1, <2>2 DEF Expected, OnItsWay, ToOffer, BrokenOff
  <2> QED
    BY <1>3, <1>4, <2>1, <2>3, GaplessKept
<1> QED
  BY <1>5, <1>6, <1>7, <1>8, <1>9, <1>10 DEF Publishing

\* An orderbook newer than the snapshot of a subscribed stream reaches it, is
\* on its way to it, or is counted as dropped, but for the one with which its
\* symbol's feed panicked.
THEOREM HubNoGap == Spec => []NoGap
<1>1. Init => NoGap
  BY FanoutAssumption DEF Init, NoGap, Sessions
<1>2. ASSUME HubInv, NoGap, [Next]_vars
      PROVE  NoGap'
  <2>1. TypeOK /\ FeedsInPlace /\ SessionsInPlace /\ CacheCurrent
    BY <1>2 DEF HubInv
  <2>2. SUFFICES ASSUME NEW s \in Streams, (in[s] = "gone")', (s \in members[sym[s]])'
                 PROVE  Gapless(s)'
    BY DEF NoGap
  <2> DEFINE z == sym[s]
  <2>3. s \in Sessions /\ z \in Symbols
    BY <2>1 DEF Sessions, TypeOK, SessionTypeOK
  <2>4. CASE UNCHANGED vars
    <3>1. Gapless(s)
      BY <1>2, <2>2, <2>4 DEF NoGap, vars, hubVars, sessionVars
    <3> QED
      BY <2>4, <3>1, GaplessKept DEF vars, sessionVars, dataVars, bufferVars, Expected, OnItsWay, ToOffer, BrokenOff
  <2>5. ASSUME NEW x \in Symbols, Receive(x) \/ Publishing(x)
        PROVE  Gapless(s)'
    <3>1. UNCHANGED sessionVars /\ s \in members'[z] /\ in[s] = "gone"
      BY <2>2, <2>5, FeedFrame DEF sessionVars
    <3>2. s \in members[z]
      BY <1>2, <2>1, <2>2, <2>3, <3>1, MemberBefore DEF sessionVars
    <3>3. Gapless(s)
      BY <1>2, <3>1, <3>2 DEF NoGap
    <3>4. CASE x = z
      BY <1>2, <2>5, <3>1, <3>3, <3>4, GaplessFeed
    <3>5. CASE x # z
      <4>1. feed'[z] = feed[z] /\ latest'[z] = latest[z]
        BY <2>1, <2>3, <2>5, <3>5
        DEF Receive, Publishing, Cache, AddTrade, Publish, Offer, Send, DropSlow, Published,
            dataVars, TypeOK, FeedTypeOK, DataTypeOK
      <4>2. got[s] \cup lost[s] \subseteq got'[s] \cup lost'[s]
        BY <1>2, <2>1, <2>3, OffersGrow
      <4> QED
        BY <3>1, <3>3, <4>1, <4>2, GaplessKept DEF sessionVars, Expected, OnItsWay, ToOffer, BrokenOff
    <3> QED
      BY <3>4, <3>5
  <2>6. ASSUME NEW t \in Sessions, SessionStep(t)
        PROVE  Gapless(s)'
    <3>1. UNCHANGED <<feed, latest, got, lost>>
      BY <2>6, SessionFrame DEF dataVars
    <3>2. CASE t = s /\ Snapshot(s)
      <4>1. sym'[s] = z /\ base'[s] = cached[z]
        BY <2>1, <3>2 DEF Snapshot, TypeOK, SessionTypeOK
      <4>2. cached[z] \in Nat /\ latest[z] \in Nat
        BY <2>1, <2>3 DEF TypeOK, DataTypeOK
      <4>3. \A n \in (cached[z] + 1 .. latest[z]) \cap BookUpdates :
              n = latest[z] /\ feed[z].at = "cache"
        BY <2>1, <2>3, <4>2 DEF CacheCurrent
      <4> QED
        BY <3>1, <4>1, <4>3 DEF Gapless, OnItsWay
    <3>3. CASE ~(t = s /\ Snapshot(s))
      <4>1. in[s] = "gone" /\ sym'[s] = z /\ base'[s] = base[s]
        BY <2>1, <2>2, <2>3, <2>6, <3>3, FanoutAssumption
        DEF SessionStep, OpenClient, Insert, Count, Snapshot, Write, Leave, CloseStream,
            OpenStream, SubscribeRequest, UnsubscribeRequest, Request, SessionsInPlace, TypeOK, SessionTypeOK
      <4>2. s \in members[z]
        BY <1>2, <2>1, <2>2, <2>3, <4>1, MemberBefore
      <4>3. Gapless(s)
        BY <1>2, <4>1, <4>2 DEF NoGap
      <4> QED
        BY <3>1, <4>1, <4>3, GaplessKept DEF Expected, OnItsWay, ToOffer, BrokenOff
    <3> QED
      BY <3>2, <3>3
  <2> QED
    BY <1>2, <2>4, <2>5, <2>6 DEF Next
<1> QED
  BY <1>1, <1>2, HubInvariant, PTL DEF Spec
-----------------------------------------------------------------------------
(* The hub implements OrderedDelivery.                                     *)

\* What a session took, as OrderedDelivery has it.
AllTaken == [s \in Sessions |-> Taken(s)]

\* A step that produces, offers and takes nothing.
LEMMA PromiseStutters ==
  UNCHANGED <<latest, got, lost, channel>> => UNCHANGED Promise!vars
  BY DEF Promise!vars, Taken

\* A session can be offered what its feed has in hand for it.
LEMMA DueInHand ==
  ASSUME HubInv, NEW x \in Symbols, Send(x)
  PROVE  LET s == feed[x].target
         IN  /\ InHand(x) \notin got[s] \cup lost[s]
             /\ \A v \in got[s] \cup lost[s] : Promise!Before(v, InHand(x))
             /\ feed[x].seq \in 1 .. latest[x]
<1> DEFINE s == feed[x].target
<1>1. s \in Sessions /\ OnItsWay(x, s)
  BY SendCases DEF HubInv, OnItsWay, ToOffer
<1>2. feed[x].seq = latest[x] /\ feed[x].seq >= 1 /\ latest[x] \in Nat
  BY DEF HubInv, FeedsInPlace, Send, TypeOK, DataTypeOK
<1>3. \A v \in got[s] \cup lost[s] : v.sym = x => v.seq < latest[x]
  BY <1>1 DEF HubInv, OffersInOrder
<1>4. InHand(x).sym = x /\ InHand(x).seq = latest[x]
  BY <1>2 DEF InHand
<1> HIDE DEF s
<1>5. \A v \in got[s] \cup lost[s] : Promise!Before(v, InHand(x))
  BY <1>3, <1>4 DEF Promise!Before
<1>6. InHand(x) \notin got[s] \cup lost[s]
  BY <1>2, <1>3, <1>4
<1>7. feed[x].seq \in 1 .. latest[x]
  BY <1>2
<1> QED
  BY <1>5, <1>6, <1>7 DEF s

\* A send keeps the update for its session, or loses it.
LEMMA SendOffers ==
  ASSUME HubInv, NEW x \in Symbols, Send(x)
  PROVE  Promise!Next \/ UNCHANGED Promise!vars
<1>1. PICK s \in Sessions : s = feed[x].target
  BY SendCases DEF HubInv
<1> DEFINE u == InHand(x)
<1>2. u \in Update /\ u = [sym |-> x, seq |-> feed[x].seq] /\ latest' = latest
  BY SendCases DEF HubInv, InHand, Send, dataVars
<1>3. u \notin got[s] /\ Promise!Due(s, u) /\ feed[x].seq \in 1 .. latest[x]
  BY <1>1, DueInHand DEF Promise!Due
<1>4. /\ got \in [Sessions -> SUBSET Update] /\ lost \in [Sessions -> SUBSET Update]
      /\ channel \in [Sessions -> Seq(Update)]
  BY DEF HubInv, TypeOK, BufferTypeOK
<1>5. CASE UNCHANGED bufferVars
  BY <1>2, <1>5, PromiseStutters DEF bufferVars
<1>6. CASE lost' = [lost EXCEPT ![s] = @ \cup {u}] /\ UNCHANGED <<channel, got>>
  <2>1. AllTaken' = AllTaken
    BY <1>6 DEF AllTaken, Taken
  <2>2. Promise!Lose(s, u)
    BY <1>2, <1>3, <1>6, <2>1 DEF Promise!Lose, AllTaken
  <2> QED
    BY <1>2, <1>3, <2>2 DEF Promise!Next
<1>7. CASE /\ channel' = [channel EXCEPT ![s] = Append(@, u)]
           /\ got' = [got EXCEPT ![s] = @ \cup {u}] /\ lost' = lost
  <2>1. Elements(channel'[s]) = Elements(channel[s]) \cup {u}
    BY <1>2, <1>4, <1>7, AppendElements
  <2>2. Taken(s)' = Taken(s)
    <3>1. got'[s] = got[s] \cup {u}
      BY <1>2, <1>4, <1>7
    <3>2. u \notin Elements(channel[s])
      BY <1>2, <1>3 DEF HubInv, ChannelsInOrder
    <3> QED
      BY <1>3, <2>1, <3>1, <3>2 DEF Taken
  <2>3. ASSUME NEW t \in Sessions, t # s
        PROVE  Taken(t)' = Taken(t)
    BY <1>4, <1>7, <2>3 DEF Taken
  <2>4. AllTaken' = AllTaken
    BY <2>2, <2>3 DEF AllTaken
  <2>5. Promise!Keep(s, u)
    BY <1>2, <1>3, <1>7, <2>4 DEF Promise!Keep, AllTaken
  <2> QED
    BY <1>2, <1>3, <2>5 DEF Promise!Next
<1>8. \/ UNCHANGED bufferVars
      \/ lost' = [lost EXCEPT ![s] = @ \cup {u}] /\ UNCHANGED <<channel, got>>
      \/ /\ channel' = [channel EXCEPT ![s] = Append(@, u)]
         /\ got' = [got EXCEPT ![s] = @ \cup {u}] /\ lost' = lost
  BY <1>1, SendCases DEF HubInv
<1> QED
  BY <1>5, <1>6, <1>7, <1>8

\* A write takes the oldest update of its symbol that was kept.
LEMMA WriteTakes ==
  ASSUME HubInv, NEW s \in Sessions, Write(s)
  PROVE  Promise!Next
<1> DEFINE q == channel[s]
<1> DEFINE u == q[1]
<1>1. /\ q \in Seq(Update) /\ q # <<>> /\ channel' = [channel EXCEPT ![s] = Tail(q)]
      /\ UNCHANGED <<got, lost, latest>>
  BY DEF HubInv, TypeOK, BufferTypeOK, Write, dataVars
<1>2. channel \in [Sessions -> Seq(Update)] /\ got \in [Sessions -> SUBSET Update]
  BY DEF HubInv, TypeOK, BufferTypeOK
<1>3. /\ Len(q) \in Nat \ {0} /\ DOMAIN q = 1 .. Len(q) /\ DOMAIN Tail(q) = 1 .. Len(q) - 1
      /\ \A i \in 1 .. Len(q) - 1 : Tail(q)[i] = q[i + 1]
  BY <1>1
<1>4. /\ Elements(q) \subseteq got[s]
      /\ \A j \in DOMAIN q : \A i \in 1 .. j - 1 : q[i].sym = q[j].sym => q[i].seq < q[j].seq
  BY DEF HubInv, ChannelsInOrder
<1>5. channel'[s] = Tail(q)
  BY <1>1, <1>2
<1> DEFINE r == Tail(q)
<1> HIDE DEF q, r
<1>6. \A j \in 2 .. Len(q) : q[j] \in Update /\ (q[1].sym = q[j].sym => q[1].seq < q[j].seq)
  <2>1. \A j \in 2 .. Len(q) : q[j] \in Update /\ j \in DOMAIN q /\ 1 \in 1 .. j - 1
    BY <1>1, <1>3
  <2> QED
    BY <1>4, <2>1
<1>7. Elements(q) = {q[1]} \cup Elements(r)
  <2>1. 1 \in DOMAIN q /\ \A j \in DOMAIN q : j = 1 \/ (j - 1 \in DOMAIN r /\ r[j - 1] = q[j])
    <3>1. 1 \in DOMAIN q
      BY <1>3
    <3>2. ASSUME NEW j \in DOMAIN q, j # 1
          PROVE  j - 1 \in DOMAIN r /\ r[j - 1] = q[j]
      <4>1. j - 1 \in 1 .. Len(q) - 1 /\ (j - 1) + 1 = j
        BY <1>3, <3>2
      <4> QED
        BY <1>3, <4>1 DEF r
    <3> QED
      BY <3>1, <3>2
  <2>2. \A i \in DOMAIN r : i + 1 \in DOMAIN q /\ r[i] = q[i + 1]
    BY <1>3 DEF r
  <2> QED
    BY <2>1, <2>2 DEF Elements
<1>8. \A v \in Elements(r) : Promise!Before(q[1], v) /\ v # q[1]
  <2> SUFFICES ASSUME NEW i \in DOMAIN r
               PROVE  Promise!Before(q[1], r[i]) /\ r[i] # q[1]
    BY DEF Elements
  <2>1. i + 1 \in 2 .. Len(q) /\ r[i] = q[i + 1]
    BY <1>3 DEF r
  <2>2. r[i] \in Update /\ (q[1].sym = r[i].sym => q[1].seq < r[i].seq)
    BY <1>6, <2>1
  <2>3. r[i].seq \in Nat
    BY <2>2 DEF Update
  <2> QED
    BY <2>2, <2>3 DEF Promise!Before
<1>9. /\ u \in got[s] \ Taken(s)
      /\ \A v \in got[s] \ Taken(s) : v = u \/ Promise!Before(u, v)
      /\ Taken(s)' = Taken(s) \cup {u}
  <2>1. got[s] \ Taken(s) = Elements(q)
    BY <1>4 DEF Taken, q
  <2>2. Taken(s)' = got[s] \ Elements(r)
    BY <1>1, <1>5 DEF Taken, r
  <2>3. u \notin Elements(r)
    BY <1>8
  <2>4. Taken(s) = got[s] \ Elements(q)
    BY DEF Taken, q
  <2> QED
    BY <1>4, <1>7, <1>8, <2>1, <2>2, <2>3, <2>4
<1>10. ASSUME NEW t \in Sessions, t # s
       PROVE  Taken(t)' = Taken(t)
  BY <1>1, <1>2, <1>10 DEF Taken, q
<1>11. AllTaken' = [AllTaken EXCEPT ![s] = @ \cup {u}]
  BY <1>9, <1>10 DEF AllTaken
<1>12. AllTaken[s] = Taken(s)
  BY DEF AllTaken
<1> HIDE DEF u
<1>13. Promise!Take(s, u)
  BY <1>1, <1>9, <1>11, <1>12 DEF Promise!Take, AllTaken
<1> QED
  BY <1>9, <1>12, <1>13 DEF Promise!Next, AllTaken

\* Every other step produces, offers and takes nothing.
LEMMA PromiseNext ==
  ASSUME HubInv, [Next]_vars
  PROVE  [Promise!Next]_Promise!vars
<1>1. CASE UNCHANGED vars
  BY <1>1, PromiseStutters DEF vars, bufferVars, dataVars
<1>2. ASSUME NEW x \in Symbols, Receive(x)
      PROVE  Promise!Next
  <2>1. latest' = [latest EXCEPT ![x] = @ + 1] /\ UNCHANGED <<got, lost, channel>>
    BY <1>2 DEF Receive, bufferVars
  <2>2. AllTaken' = AllTaken
    BY <2>1 DEF AllTaken, Taken
  <2>3. Promise!Produce(x)
    BY <2>1, <2>2 DEF Promise!Produce, AllTaken
  <2> QED
    BY <2>3 DEF Promise!Next
<1>3. ASSUME NEW x \in Symbols, Publishing(x), ~Send(x)
      PROVE  UNCHANGED Promise!vars
  <2>1. UNCHANGED <<latest, got, lost, channel>>
    BY <1>3 DEF Publishing, Cache, AddTrade, Publish, Offer, DropSlow, Published, bufferVars, dataVars
  <2> QED
    BY <2>1, PromiseStutters
<1>4. ASSUME NEW s \in Sessions, SessionStep(s), ~Write(s)
      PROVE  UNCHANGED Promise!vars
  <2>1. UNCHANGED <<latest, got, lost, channel>>
    BY <1>4 DEF SessionStep, OpenClient, Insert, Count, Snapshot, Leave, CloseStream,
                OpenStream, SubscribeRequest, UnsubscribeRequest, bufferVars, dataVars
  <2> QED
    BY <2>1, PromiseStutters
<1> QED
  BY <1>1, <1>2, <1>3, <1>4, SendOffers, WriteTakes DEF Next

\* Through topics, buffers and slow readers, whatever joins or leaves, each
\* session is offered the updates of a symbol in order and once: the hub
\* implements OrderedDelivery.
THEOREM HubDeliversInOrder == Spec => HubSpec
<1>1. Init => Promise!Init
  <2> SUFFICES ASSUME Init
               PROVE  Promise!Init
    OBVIOUS
  <2>1. \A s \in Sessions : Taken(s) = {}
    BY DEF Init, Taken
  <2>2. AllTaken = [s \in Sessions |-> {}]
    BY <2>1 DEF AllTaken
  <2> QED
    BY <2>2 DEF Init, Promise!Init, AllTaken
<1>2. HubInv /\ [Next]_vars => [Promise!Next]_Promise!vars
  BY PromiseNext
<1> QED
  BY <1>1, <1>2, HubInvariant, PTL DEF Spec, HubSpec, Promise!Spec
=============================================================================
