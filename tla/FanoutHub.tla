----------------------------- MODULE FanoutHub -----------------------------
(***************************************************************************)
(* The data path of the relay: an upstream stream hands an update to       *)
(* onData (main.go), which stores its orderbook and its trade, if it has   *)
(* them, in the cache and publishes it through the hub (fanout.go) to the  *)
(* buffered channels of the symbol's subscribers.  Two kinds of session    *)
(* own a subscriber:                                                       *)
(*   - a stream (grpc/server.go StreamOrderBook): one symbol, one          *)
(*     goroutine, a deferred Unsubscribe;                                  *)
(*   - a client (api/server.go WSHandler): any symbols, one goroutine that *)
(*     reads requests and one that writes updates, no deferred call.       *)
(*                                                                         *)
(* What the code runs under topic.mu is one step; Publish works on a copy  *)
(* of the subscribers without the lock.  A topic is never removed, and an  *)
(* absent one is a topic without subscribers.  An update is its sequence   *)
(* number within its symbol, and so is the trade in it.  A stream passes   *)
(* over the updates without an orderbook that it takes from its channel.   *)
(* A symbol is fed by one upstream stream at a time, as RelayAdmission     *)
(* shows (FedByOne).  A feed runs in a worker of the pool (ants), which    *)
(* recovers a panic: the feed is gone then, in the middle of what it did,  *)
(* and nobody starts another.  A panic of any other goroutine ends the     *)
(* process.  External: the upstream and the clients.                       *)
(***************************************************************************)
EXTENDS TradeRing, FiniteSets

CONSTANTS Symbols, Streams, Clients,
          BookUpdates,    \* sequence numbers of updates with an orderbook
          TradeUpdates,   \* sequence numbers of updates with a trade
          BufferSize, SlowThreshold,
          MaxUpdates,     \* bound: updates per symbol
          MaxOps          \* bound: requests per client

ASSUME FanoutAssumption ==
  /\ IsFiniteSet(Symbols) /\ Symbols # {}
  /\ IsFiniteSet(Streams) /\ IsFiniteSet(Clients) /\ Streams \cap Clients = {}
  /\ BookUpdates \subseteq Nat /\ TradeUpdates \subseteq Nat /\ NoTrade \notin Nat
  /\ BufferSize \in Nat \ {0} /\ SlowThreshold \in Nat
  /\ MaxUpdates \in Nat /\ MaxOps \in Nat

Sessions == Streams \cup Clients

VARIABLES
  members,   \* topic.subscribers of each symbol
  closed,    \* subscribers whose channel is closed (and closed flag set)
  channel,   \* SendChan of each subscriber: updates [sym, seq]
  dropped,   \* Subscriber.Dropped
  active,    \* activeSubscribers
  repeats,   \* history: Subscribe calls that found their entry there
  cached,    \* the cached orderbook of each symbol, 0 if there is none
  ring,      \* the trade buffer of each symbol, empty if there is none
  latest,    \* external: updates the upstream has produced
  feed,      \* the feed of each symbol: [at, seq, left, target]
  at,        \* the main goroutine of each session
  in,        \* each session's subscribing goroutine (the same, in a stream)
  sym,       \* the symbol it is about
  ops,       \* requests each client made
  base,      \* history: the snapshot a stream started from
  got,       \* history: what was put into each session's channel
  lost,      \* history: what was dropped for it
  tradeLog,  \* history: the trades of each symbol, oldest first
  crashed    \* a session's goroutine panicked, which ends the process

hubVars == <<members, closed, active, repeats>>
bufferVars == <<channel, dropped, got, lost>>
dataVars == <<cached, ring, tradeLog, latest>>
sessionVars == <<at, in, sym, ops, base>>
vars == <<hubVars, bufferVars, dataVars, feed, sessionVars, crashed>>

Update == [sym : Symbols, seq : 1 .. MaxUpdates]
NoTarget == "none"
Elements(q) == {q[i] : i \in DOMAIN q}

HubTypeOK ==
  /\ members \in [Symbols -> SUBSET Sessions]
  /\ closed \subseteq Sessions
  /\ active \in Int /\ repeats \in Nat

BufferTypeOK ==
  /\ channel \in [Sessions -> Seq(Update)]
  /\ \A s \in Sessions : Len(channel[s]) <= BufferSize
  /\ dropped \in [Sessions -> Nat]
  /\ got \in [Sessions -> SUBSET Update] /\ lost \in [Sessions -> SUBSET Update]

DataTypeOK ==
  /\ cached \in [Symbols -> 0 .. MaxUpdates] /\ latest \in [Symbols -> 0 .. MaxUpdates]
  /\ ring \in [Symbols -> Rings(1 .. MaxUpdates)]
  /\ tradeLog \in [Symbols -> Seq(1 .. MaxUpdates)]

FeedTypeOK ==
  feed \in [Symbols ->
            [at : {"receive", "cache", "trade", "publish", "offer", "send", "slow",
                   "broken", "locked"},
             seq : 0 .. MaxUpdates, left : SUBSET Sessions, target : Sessions \cup {NoTarget}]]

SessionTypeOK ==
  /\ at \in [Sessions -> {"idle", "run", "leave", "ended"}]
  /\ in \in [Sessions -> {"read", "insert", "count", "snapshot", "gone"}]
  /\ sym \in [Sessions -> Symbols] /\ ops \in [Sessions -> 0 .. MaxOps]
  /\ base \in [Sessions -> 0 .. MaxUpdates]

TypeOK ==
  /\ HubTypeOK /\ BufferTypeOK /\ DataTypeOK /\ FeedTypeOK /\ SessionTypeOK
  /\ crashed \in BOOLEAN

Init ==
  /\ members = [x \in Symbols |-> {}] /\ closed = {} /\ active = 0 /\ repeats = 0
  /\ channel = [s \in Sessions |-> <<>>]
  /\ dropped = [s \in Sessions |-> 0]
  /\ lost = [s \in Sessions |-> {}] /\ got = [s \in Sessions |-> {}]
  /\ cached = [x \in Symbols |-> 0] /\ latest = [x \in Symbols |-> 0]
  /\ ring = [x \in Symbols |-> NewTradeRingBuffer] /\ tradeLog = [x \in Symbols |-> <<>>]
  /\ feed = [x \in Symbols |-> [at |-> "receive", seq |-> 0, left |-> {}, target |-> NoTarget]]
  /\ at = [s \in Sessions |-> "idle"] /\ in = [s \in Sessions |-> "read"]
  /\ sym = [s \in Sessions |-> CHOOSE x \in Symbols : TRUE]
  /\ ops = [s \in Sessions |-> 0] /\ base = [s \in Sessions |-> 0]
  /\ crashed = FALSE

-----------------------------------------------------------------------------
(* The hub.                                                                *)

\* The feed of x panicked with topic.mu held: nobody gets the lock again.
Locked(x) == feed[x].at = "locked"

\* What is removed is closed already, and closing it panics (line 90).
ClosesAgain(x, s) == s \in members[x] \cap closed

\* Mutation of Remove: the entry stays.
RemoveKeeps(x, s) ==
  /\ ~Locked(x)
  /\ ~ClosesAgain(x, s)
  /\ IF s \in members[x]
     THEN /\ closed' = closed \cup {s}
          /\ active' = active - 1
          /\ UNCHANGED <<members, repeats>>
     ELSE UNCHANGED hubVars

\* Unsubscribe, under topic.mu.
Remove(x, s) ==
  /\ ~Locked(x)
  /\ ~ClosesAgain(x, s)
  /\ IF s \in members[x]
     THEN /\ members' = [members EXCEPT ![x] = @ \ {s}]
          /\ closed' = closed \cup {s}
          /\ active' = active - 1
          /\ UNCHANGED repeats
     ELSE UNCHANGED hubVars

\* A session's goroutine unsubscribes.
Unsubscribe(x, s) ==
  \/ Remove(x, s) /\ UNCHANGED crashed
  \/ ~Locked(x) /\ ClosesAgain(x, s) /\ crashed' = TRUE /\ UNCHANGED hubVars

\* Subscribe, under topic.mu; the count follows after the unlock.
Insert(s) ==
  /\ ~crashed
  /\ in[s] = "insert"
  /\ ~Locked(sym[s])
  /\ members' = [members EXCEPT ![sym[s]] = @ \cup {s}]
  /\ repeats' = repeats + (IF s \in members[sym[s]] THEN 1 ELSE 0)
  /\ in' = [in EXCEPT ![s] = "count"]
  /\ UNCHANGED <<closed, active, bufferVars, dataVars, feed,
                 at, sym, ops, base, crashed>>

Count(s) ==
  /\ ~crashed
  /\ in[s] = "count"
  /\ active' = active + 1
  /\ in' = [in EXCEPT ![s] = "snapshot"]
  /\ UNCHANGED <<members, closed, repeats, bufferVars, dataVars, feed,
                 at, sym, ops, base, crashed>>

-----------------------------------------------------------------------------
(* A feed: onData, which caches and publishes.                             *)

Receive(x) ==
  /\ ~crashed
  /\ feed[x].at = "receive"
  /\ latest[x] < MaxUpdates
  /\ latest' = [latest EXCEPT ![x] = @ + 1]
  /\ feed' = [feed EXCEPT ![x].at = "cache", ![x].seq = latest[x] + 1]
  /\ UNCHANGED <<hubVars, bufferVars, cached, ring, tradeLog, sessionVars, crashed>>

\* The update a feed has in hand.
InHand(x) == [sym |-> x, seq |-> feed[x].seq]
Carries(x, updates) == feed[x].seq \in updates

\* Mutation of Cache: the orderbook is not stored.
CacheNot(x) ==
  /\ ~crashed
  /\ feed[x].at = "cache"
  /\ feed' = [feed EXCEPT ![x].at = "trade"]
  /\ UNCHANGED <<hubVars, bufferVars, dataVars, sessionVars, crashed>>

\* UpdateOrderbook stores what it is given, whatever its sequence number.
Cache(x) ==
  /\ ~crashed
  /\ feed[x].at = "cache"
  /\ cached' = [cached EXCEPT ![x] = IF Carries(x, BookUpdates) THEN feed[x].seq ELSE @]
  /\ feed' = [feed EXCEPT ![x].at = "trade"]
  /\ UNCHANGED <<hubVars, bufferVars, ring, tradeLog, latest, sessionVars, crashed>>

AddTrade(x) ==
  /\ ~crashed
  /\ feed[x].at = "trade"
  /\ IF Carries(x, TradeUpdates)
     THEN /\ ring' = [ring EXCEPT ![x] = Add(@, feed[x].seq)]
          /\ tradeLog' = [tradeLog EXCEPT ![x] = Append(@, feed[x].seq)]
     ELSE UNCHANGED <<ring, tradeLog>>
  /\ feed' = [feed EXCEPT ![x].at = "publish"]
  /\ UNCHANGED <<hubVars, bufferVars, cached, latest, sessionVars, crashed>>

\* Publish copies the subscribers under the read lock.
Publish(x) ==
  /\ ~crashed
  /\ feed[x].at = "publish"
  /\ feed' = [feed EXCEPT ![x].at = "offer", ![x].left = members[x]]
  /\ UNCHANGED <<hubVars, bufferVars, dataVars, sessionVars, crashed>>

\* The range loop: a subscriber whose closed flag is set is passed over.
Offer(x, s) ==
  /\ ~crashed
  /\ feed[x].at = "offer"
  /\ s \in feed[x].left
  /\ feed' = [feed EXCEPT ![x] = [at |-> IF s \in closed THEN "offer" ELSE "send",
                                  seq |-> @.seq, left |-> @.left \ {s}, target |-> s]]
  /\ UNCHANGED <<hubVars, bufferVars, dataVars, sessionVars, crashed>>

\* Mutation of TooSlow: compared before Dropped grows.
TooSlowLate(s) == dropped[s] > SlowThreshold

\* Dropped, one more than here, exceeds the threshold.
TooSlow(s) == dropped[s] >= SlowThreshold

\* The non-blocking send drops when the buffer is full; Dropped is compared
\* right after it grew.  If the channel was closed since Offer it panics, and
\* the rest of the copied subscribers is never offered the update.
Send(x) ==
  LET s == feed[x].target
      u == InHand(x)
      full == Len(channel[s]) = BufferSize
  IN  /\ ~crashed
      /\ feed[x].at = "send"
      /\ IF s \in closed
         THEN /\ feed' = [feed EXCEPT ![x].at = "broken"]
              /\ UNCHANGED bufferVars
         ELSE /\ channel' = IF full THEN channel ELSE [channel EXCEPT ![s] = Append(@, u)]
              /\ got' = IF full THEN got ELSE [got EXCEPT ![s] = @ \cup {u}]
              /\ dropped' = IF full THEN [dropped EXCEPT ![s] = @ + 1] ELSE dropped
              /\ lost' = IF full THEN [lost EXCEPT ![s] = @ \cup {u}] ELSE lost
              /\ feed' = [feed EXCEPT ![x].at =
                            IF full /\ TooSlow(s) THEN "slow" ELSE "offer"]
      /\ UNCHANGED <<hubVars, dataVars, sessionVars, crashed>>

\* handleSlowConsumer.  A panic leaves topic.mu locked: no deferred unlock.
DropSlow(x) ==
  /\ ~crashed
  /\ feed[x].at = "slow"
  /\ \/ /\ Remove(x, feed[x].target)
        /\ feed' = [feed EXCEPT ![x].at = "offer"]
     \/ /\ ClosesAgain(x, feed[x].target)
        /\ feed' = [feed EXCEPT ![x].at = "locked"]
        /\ UNCHANGED hubVars
  /\ UNCHANGED <<bufferVars, dataVars, sessionVars, crashed>>

\* Mutation of Published: the update is published again.
PublishedAgain(x) ==
  /\ ~crashed
  /\ feed[x].at = "offer"
  /\ feed[x].left = {}
  /\ feed' = [feed EXCEPT ![x].at = "publish"]
  /\ UNCHANGED <<hubVars, bufferVars, dataVars, sessionVars, crashed>>

Published(x) ==
  /\ ~crashed
  /\ feed[x].at = "offer"
  /\ feed[x].left = {}
  /\ feed' = [feed EXCEPT ![x].at = "receive", ![x].target = NoTarget]
  /\ UNCHANGED <<hubVars, bufferVars, dataVars, sessionVars, crashed>>

-----------------------------------------------------------------------------
(* Sessions.                                                               *)

\* StreamOrderBook: upstream.Subscribe, then fanout.Subscribe.
OpenStream(s, x) ==
  /\ ~crashed
  /\ s \in Streams
  /\ at[s] = "idle"
  /\ at' = [at EXCEPT ![s] = "run"]
  /\ in' = [in EXCEPT ![s] = "insert"]
  /\ sym' = [sym EXCEPT ![s] = x]
  /\ UNCHANGED <<hubVars, bufferVars, dataVars, feed, ops, base, crashed>>

\* WSHandler.Handle starts the goroutine that reads requests.
OpenClient(c) ==
  /\ ~crashed
  /\ c \in Clients
  /\ at[c] = "idle"
  /\ at' = [at EXCEPT ![c] = "run"]
  /\ UNCHANGED <<hubVars, bufferVars, dataVars, feed, in, sym, ops, base, crashed>>

\* handleIncoming: "subscribe" and "unsubscribe".  A client whose connection is
\* gone makes no more requests; what it subscribed to stays subscribed.
Request(c) ==
  /\ ~crashed
  /\ c \in Clients
  /\ at[c] # "idle"
  /\ in[c] = "read"
  /\ ops[c] < MaxOps
  /\ ops' = [ops EXCEPT ![c] = @ + 1]

SubscribeRequest(c, x) ==
  /\ Request(c)
  /\ in' = [in EXCEPT ![c] = "insert"]
  /\ sym' = [sym EXCEPT ![c] = x]
  /\ UNCHANGED <<hubVars, bufferVars, dataVars, feed, at, base, crashed>>

\* One about a topic that stays locked never returns, and is as good as none.
UnsubscribeRequest(c, x) ==
  /\ Request(c)
  /\ Unsubscribe(x, c)
  /\ UNCHANGED <<bufferVars, dataVars, feed, at, in, sym, base>>

\* The snapshot, if there is one, is read from the cache and sent.
Snapshot(s) ==
  /\ ~crashed
  /\ in[s] = "snapshot"
  /\ in' = [in EXCEPT ![s] = IF s \in Streams THEN "gone" ELSE "read"]
  /\ base' = IF s \in Streams THEN [base EXCEPT ![s] = cached[sym[s]]] ELSE base
  /\ UNCHANGED <<hubVars, bufferVars, dataVars, feed, at, sym, ops, crashed>>

\* A stream's goroutine reaches its loop only after the snapshot; a client's
\* writer runs from the start.
MayWrite(s) == at[s] = "run" /\ (s \in Streams => in[s] = "gone")

Write(s) ==
  /\ ~crashed
  /\ MayWrite(s)
  /\ channel[s] # <<>>
  /\ channel' = [channel EXCEPT ![s] = Tail(@)]
  /\ UNCHANGED <<hubVars, dropped, lost, got, dataVars, feed,
                 at, in, sym, ops, base, crashed>>

\* A write fails, the context ends, or the channel is closed and empty.
Leave(s) ==
  /\ ~crashed
  /\ MayWrite(s)
  /\ at' = [at EXCEPT ![s] = IF s \in Streams THEN "leave" ELSE "ended"]
  /\ UNCHANGED <<hubVars, bufferVars, dataVars, feed, in, sym, ops, base, crashed>>

\* The deferred Unsubscribe of a stream.
CloseStream(s) ==
  /\ ~crashed
  /\ at[s] = "leave"
  /\ Unsubscribe(sym[s], s)
  /\ at' = [at EXCEPT ![s] = "ended"]
  /\ UNCHANGED <<bufferVars, dataVars, feed, in, sym, ops, base>>

-----------------------------------------------------------------------------
Publishing(x) ==
  \/ Cache(x) \/ AddTrade(x) \/ Publish(x) \/ (\E s \in Sessions : Offer(x, s))
  \/ Send(x) \/ DropSlow(x) \/ Published(x)

SessionStep(s) ==
  \/ OpenClient(s) \/ Insert(s) \/ Count(s) \/ Snapshot(s)
  \/ Write(s) \/ Leave(s) \/ CloseStream(s)
  \/ \E x \in Symbols : OpenStream(s, x) \/ SubscribeRequest(s, x) \/ UnsubscribeRequest(s, x)

Next ==
  \/ \E x \in Symbols : Receive(x) \/ Publishing(x)
  \/ \E s \in Sessions : SessionStep(s)

Spec == Init /\ [][Next]_vars

-----------------------------------------------------------------------------
Taken(s) == got[s] \ Elements(channel[s])

\* The feed of x has yet to offer s what it has in hand: s was among the
\* subscribers Publish copied and its turn has not come, or is now.
ToOffer(x, s) ==
  \/ feed[x].at \in {"offer", "send", "slow"} /\ s \in feed[x].left
  \/ feed[x].at = "send" /\ feed[x].target = s

\* What the feed of x has in hand will be offered to s if s stays subscribed.
OnItsWay(x, s) == feed[x].at \in {"cache", "trade", "publish"} \/ ToOffer(x, s)

\* The feed of x panicked before it came to s.
BrokenOff(x, s) == feed[x].at \in {"broken", "locked"} /\ s \in feed[x].left

\* A client keeps one Subscriber for all its requests, so that from the second
\* one on it may be closed, or subscribed already, when it subscribes.
Fresh(s) == s \in Streams \/ ops[s] <= 1

\* A subscriber found in a topic is open, so that removing it is safe: the
\* deferred Unsubscribe of a stream and the hub's own removal of a slow
\* consumer never close a channel twice, whichever comes first.  Only a client
\* that subscribes again after its subscriber was closed is an exception.
MembersAreOpen ==
  \A x \in Symbols : \A s \in members[x] \cap closed : ~Fresh(s)

\* activeSubscribers counts the subscribers, but for those whose Subscribe
\* has not reached the count yet, also when one is removed before that; what a
\* client repeats for a symbol it is subscribed to is counted for good.
Counting == {s \in Sessions : in[s] = "count"}
Entries == {e \in Symbols \X Sessions : e[2] \in members[e[1]]}
CountAgrees == active + Cardinality(Counting) = Cardinality(Entries) + repeats

\* A feed works on the newest update of its symbol, and whom it holds on to
\* after the lock was released is subscribed still or was closed meanwhile.
FeedsInPlace ==
  \A x \in Symbols :
    /\ feed[x].seq = latest[x]
    /\ feed[x].at # "receive" => feed[x].seq >= 1
    /\ feed[x].left # {} => feed[x].at \in {"offer", "send", "slow", "broken", "locked"}
    /\ feed[x].left \subseteq members[x] \cup closed
    /\ feed[x].at \in {"send", "slow"} =>
         feed[x].target \in (members[x] \cup closed) \ feed[x].left

\* A session subscribes once per request, and a stream once.
SessionsInPlace ==
  /\ \A s \in Streams :
       /\ at[s] = "idle" <=> in[s] = "read"
       /\ in[s] # "gone" => at[s] \in {"idle", "run"}
  /\ \A c \in Clients :
       /\ at[c] = "idle" => in[c] = "read" /\ ops[c] = 0
       /\ in[c] \notin {"read", "gone"} => ops[c] > 0
  /\ \A s \in Sessions : Fresh(s) =>
       /\ \A x \in Symbols : s \in members[x] => x = sym[s]
       /\ in[s] = "insert" \/ (IF s \in Streams THEN at[s] = "idle" ELSE ops[s] = 0) =>
            s \notin closed /\ \A x \in Symbols : s \notin members[x]

\* The cache holds the newest orderbook and every trade, but for those of the
\* update its feed has not stored yet.
CacheCurrent ==
  \A x \in Symbols :
    /\ cached[x] <= latest[x]
    /\ \A n \in BookUpdates \cap (1 .. latest[x]) :
         n <= cached[x] \/ (n = latest[x] /\ feed[x].at = "cache")
    /\ \A n \in TradeUpdates \cap (1 .. latest[x]) :
         n \in Elements(tradeLog[x]) \/ (n = latest[x] /\ feed[x].at \in {"cache", "trade"})

\* Nobody was offered an update twice or will be: what a session was offered is
\* no newer than the newest, and older if that is on its way to it.
OffersInOrder ==
  \A s \in Sessions : \A u \in got[s] \cup lost[s] :
    /\ u.seq <= latest[u.sym]
    /\ OnItsWay(u.sym, s) => u.seq < latest[u.sym]

\* A channel holds, in the order of their numbers, updates put into it.
ChannelsInOrder ==
  \A s \in Sessions :
    /\ Elements(channel[s]) \subseteq got[s]
    /\ \A j \in DOMAIN channel[s] : \A i \in 1 .. j - 1 :
         channel[s][i].sym = channel[s][j].sym => channel[s][i].seq < channel[s][j].seq

\* The trade buffers hold the newest trades.
RingsInPlace == \A x \in Symbols : Holds(ring[x], tradeLog[x])

\* The types, and the agreement of topics, channels and activeSubscribers
\* (fanout.go:58-96), with what the feeds, the sessions and the cache know of
\* each other while the lock is not held.
HubInv ==
  /\ TypeOK /\ MembersAreOpen /\ CountAgrees /\ FeedsInPlace /\ SessionsInPlace
  /\ CacheCurrent /\ OffersInOrder /\ ChannelsInOrder /\ RingsInPlace

\* "New subscribers get the snapshot, then the updates" without a gap: while a
\* stream is subscribed, every orderbook after its snapshot was sent, is buffered,
\* is on its way to it or was counted as dropped, although snapshot and
\* subscription are separate steps.  Only the last orderbook a symbol ever has,
\* the one with which its feed panicked, may miss the streams whose turn had not
\* come (fanout.go:116-121).
Gapless(s) ==
  \A n \in (base[s] + 1 .. latest[sym[s]]) \cap BookUpdates :
    \/ [sym |-> sym[s], seq |-> n] \in got[s] \cup lost[s]
    \/ n = latest[sym[s]] /\ (OnItsWay(sym[s], s) \/ BrokenOff(sym[s], s))
NoGap == \A s \in Streams : in[s] = "gone" /\ s \in members[sym[s]] => Gapless(s)

\* What a subscriber was handed is never ahead of the cache: whoever sees an
\* update and then asks the REST handlers finds its orderbook or a newer one,
\* and its trade among those added, because onData stores before it publishes.
CacheAhead ==
  \A s \in Sessions : \A u \in got[s] \cup lost[s] :
    /\ u.seq \in BookUpdates => u.seq <= cached[u.sym]
    /\ u.seq \in TradeUpdates => u.seq \in Elements(tradeLog[u.sym])

\* The trade history of a symbol is the newest trades in order, however many
\* are asked for and however often the buffer has wrapped round: GetRecent and
\* GetAll return the end of what was added.
RecentTrades ==
  \A x \in Symbols :
    /\ \A n \in 0 .. TradeSize + 1 : GetRecent(ring[x], n) = LastTrades(tradeLog[x], n)
    /\ GetAll(ring[x]) = LastTrades(tradeLog[x], TradeSize)

\* A subscriber over the threshold is cut off: it is closed, or the feed that
\* dropped its last update is about to close it.
SlowIsCutOff ==
  \A s \in Sessions :
    dropped[s] > SlowThreshold =>
      s \in closed \/ \E x \in Symbols : feed[x].at = "slow" /\ feed[x].target = s

\* The hub delivers in order and at most once, as OrderedDelivery says, with one
\* feed per symbol: what was put into a session's buffer is what
\* it kept, what is no longer there is what it took.
Promise == INSTANCE OrderedDelivery WITH
             produced <- latest,
             kept <- got,
             taken <- [s \in Sessions |-> Taken(s)]

HubSpec == Promise!Spec

-----------------------------------------------------------------------------
(* Statements of the documents that the code does not keep.                *)

\* relay-core-design.md 8.2: a slow consumer is dropped or disconnected; a
\* client that disconnects is cleaned up.  Nothing else happens to the relay:
\* no session panics, and no feed, which takes its symbol's data with it.
NoPanic == ~crashed /\ \A x \in Symbols : feed[x].at \notin {"broken", "locked"}
=============================================================================
