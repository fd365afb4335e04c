-------------------------- MODULE ExchangeService --------------------------
(***************************************************************************)
(* The methods of the exchange service that ask before they act            *)
(* (exchange_service.go): MarketOrder and MarketOrderSpot ask the price,   *)
(* ClosePosition the positions and then the price, CancelAllOrders and     *)
(* CancelAllOrdersByCoin the open orders.  What they send afterwards rests *)
(* on an answer that may be out of date by then.                           *)
(*                                                                         *)
(* Asking is one step: the service's own InfoAPI has no WebSocket (it is   *)
(* not handed to it by NewHyperliquid), so the answer is the server's or   *)
(* an error.  Sending, executing and returning are the steps of            *)
(* ActionCalls.tla, which ClientRequest.tla implements; this module adds   *)
(* what each step does here.  External: the exchange, with positions and   *)
(* orders.                                                                 *)
(***************************************************************************)
EXTENDS ActionCalls, Integers, FiniteSets

CONSTANTS Callers,
          Perps, Spots,          \* coins of the two markets
          FirstPerp, FirstSpot,  \* the coins with asset id 0 and 10000
          PerpNames, SpotNames,  \* coins that users name to the methods of each market
          Sides,                 \* sides of the orders users place: 1 buys, -1 sells
          MaxSize                \* bound: size of an order

ASSUME ServiceAssumption ==
  /\ Perps \cap Spots = {} /\ FirstPerp \in Perps /\ FirstSpot \in Spots
  /\ PerpNames \subseteq Perps \cup Spots /\ SpotNames \subseteq Perps \cup Spots
  /\ Sides \subseteq {1, -1}
  /\ MaxSize \in Nat \ {0} /\ MaxCalls \in Nat

Coins == Perps \cup Spots

VARIABLES
  meta,      \* coins in the maps that NewExchangeAPI fetched, but for the ones with
  spotMeta,  \* id 0 and 10000, for which it does not matter; none if that failed
  at, call,  \* each caller: where it is, the call it makes
  task,      \* of each call: [op, coin, side, size, orders]
  position,  \* external: of each asset
  open,      \* external: resting orders [oid, asset, side]
  listed     \* history: the orders that were open when a call asked for them

mapVars == <<meta, spotMeta>>
serverVars == <<position, open>>
vars == <<actionVars, mapVars, at, call, task, serverVars, listed>>

SpotOrders == {"limitSpot", "marketSpot"}
Orders == {"limit", "market", "close"} \cup SpotOrders
NoTask == [op |-> "none", coin |-> FirstPerp, side |-> 1, size |-> 0, orders |-> {}]

Cancels == {"cancelAll", "cancelByCoin"}
Tasks == [op : Orders \cup Cancels \cup {"none"}, coin : Coins, side : {1, -1}, size : Nat,
          orders : SUBSET [asset : Coins, oid : Calls]]

\* A resting order, named by the call that placed it.
Order == [oid : Calls, asset : Coins, side : {1, -1}]

TypeOK ==
  /\ ActionTypeOK
  /\ meta \subseteq Perps /\ spotMeta \subseteq Spots
  /\ at \in [Callers -> {"idle", "position", "price", "orders", "send", "wait"}]
  /\ call \in [Callers -> 0 .. MaxCalls]
  /\ task \in [Calls -> Tasks]
  /\ position \in [Coins -> Int]
  /\ open \subseteq Order
  /\ listed \in [Calls -> SUBSET Order]

Init ==
  /\ ActionInit
  /\ meta \in SUBSET (Perps \ {FirstPerp}) /\ spotMeta \in SUBSET (Spots \ {FirstSpot})
  /\ at = [c \in Callers |-> "idle"] /\ call = [c \in Callers |-> 0]
  /\ task = [n \in Calls |-> NoTask]
  /\ open = {}
  /\ position = [x \in Coins |-> 0]
  /\ listed = [n \in Calls |-> {}]

\* A coin that the map of the market does not have (it was listed later, is of
\* the other market or mistyped, or the map was not fetched) gives the zero
\* AssetInfo: asset id 0, and 10000 for a spot order.
PerpAsset(x) == IF x \in meta THEN x ELSE FirstPerp

\* Mutation of SpotAsset: looked up in the map of the perpetuals.
SpotAssetPerp(x) == PerpAsset(x)

SpotAsset(x) == IF x \in spotMeta THEN x ELSE FirstSpot

-----------------------------------------------------------------------------
(* The methods.                                                            *)

Begin(c, t, next) ==
  /\ at[c] = "idle"
  /\ Make
  /\ call' = [call EXCEPT ![c] = made + 1]
  /\ task' = [task EXCEPT ![made + 1] = t]
  /\ at' = [at EXCEPT ![c] = next]
  /\ UNCHANGED <<mapVars, serverVars, listed>>

Task(op, x, d, k) == [op |-> op, coin |-> x, side |-> d, size |-> k, orders |-> {}]

\* The caller names the price; that it may set reduceOnly itself is left out.
LimitOrder(c, x, d) == Begin(c, Task("limit", x, d, 1), "send")

OrderSpot(c, x, d) == Begin(c, Task("limitSpot", x, d, 1), "send")

MarketOrder(c, x, d, k) == Begin(c, Task("market", x, d, k), "price")

MarketOrderSpot(c, x, d, k) == Begin(c, Task("marketSpot", x, d, k), "price")

\* Of a spot coin, in which there is no position, it only fails.
ClosePosition(c, x) == Begin(c, Task("close", x, 1, 0), "position")

CancelAllOrders(c) == Begin(c, Task("cancelAll", FirstPerp, 1, 0), "orders")

CancelAllOrdersByCoin(c, x) == Begin(c, Task("cancelByCoin", x, 1, 0), "orders")

Return(c, r) ==
  /\ End(call[c], r)
  /\ at' = [at EXCEPT ![c] = "idle"]
  /\ call' = [call EXCEPT ![c] = 0]

\* GetUserState, which lists the positions in perpetuals; the call ends if
\* there is none in the coin.
AskPosition(c) ==
  LET n == call[c]
      size == position[task[n].coin]
  IN  /\ at[c] = "position"
      /\ IF size = 0
         THEN Return(c, "error") /\ UNCHANGED task
         ELSE /\ task' = [task EXCEPT ![n].side = IF size > 0 THEN -1 ELSE 1,
                                      ![n].size = IF size > 0 THEN size ELSE -size]
              /\ at' = [at EXCEPT ![c] = "price"]
              /\ UNCHANGED <<actionVars, call>>
      /\ UNCHANGED <<mapVars, serverVars, listed>>

\* SlippagePrice: an error of the price service is a price of zero, and the
\* order is sent all the same.  What fills at that price, nothing of a buy and
\* any part of a sale, is among what Fillable lets fill.
AskPrice(c) ==
  /\ at[c] = "price"
  /\ at' = [at EXCEPT ![c] = "send"]
  /\ UNCHANGED <<actionVars, mapVars, call, task, serverVars, listed>>

\* Mutation of Wanted: orders of other coins are not passed over.
WantedAny(t, o) == TRUE

\* CancelAllOrdersByCoin passes over the orders of other coins.
Wanted(t, o) == t.op = "cancelByCoin" => o.asset = t.coin

\* GetOpenOrders: CancelAllOrders gives up when there is none.
AskOrders(c) ==
  LET n == call[c]
      t == task[n]
  IN  /\ at[c] = "orders"
      /\ listed' = [listed EXCEPT ![n] = open]
      /\ IF t.op = "cancelAll" /\ open = {}
         THEN Return(c, "error") /\ UNCHANGED task
         ELSE /\ task' = [task EXCEPT ![n].orders =
                            {[asset |-> PerpAsset(o.asset), oid |-> o.oid] :
                               o \in {p \in open : Wanted(t, p)}}]
              /\ at' = [at EXCEPT ![c] = "send"]
              /\ UNCHANGED <<actionVars, call>>
      /\ UNCHANGED <<mapVars, serverVars>>

\* GetUserState or GetOpenOrders fails.
AskFails(c) ==
  /\ at[c] \in {"position", "orders"}
  /\ Return(c, "error")
  /\ UNCHANGED <<mapVars, task, serverVars, listed>>

\* MakeUniversalRequest.
Send(c) ==
  /\ at[c] = "send"
  /\ Emit(call[c])
  /\ at' = [at EXCEPT ![c] = "wait"]
  /\ UNCHANGED <<mapVars, call, task, serverVars, listed>>

\* With success, or with an error that does not tell whether the action was or
\* will be executed; before anything is sent, because signing failed or the
\* order type of a LimitOrder is none.
Finish(c, r) ==
  /\ at[c] \in {"send", "wait"}
  /\ Return(c, r)
  /\ UNCHANGED <<mapVars, task, serverVars, listed>>

-----------------------------------------------------------------------------
(* The exchange.                                                           *)

AssetOf(t) == IF t.op \in SpotOrders THEN SpotAsset(t.coin) ELSE PerpAsset(t.coin)

\* Mutation of ReduceOnly: the flag is not set by ClosePosition.
ReduceOnlyNever(t) == FALSE

\* The orders sent with the flag.
ReduceOnly(t) == t.op = "close"

\* How much of an order may fill: of a reduce-only order at most the position
\* it reduces.
Fillable(t) ==
  LET held == -t.side * position[AssetOf(t)]
      most == IF ~ReduceOnly(t) \/ t.size <= held THEN t.size ELSE held
  IN  0 .. most

\* External: an order that does not rest fills in part, in full or not at all.
ExecuteOrder(n) ==
  LET t == task[n]
  IN  /\ Execute(n)
      /\ t.op \in Orders
      /\ \/ /\ t.op \in {"limit", "limitSpot"}
            /\ open' = open \cup {[oid |-> n, asset |-> AssetOf(t), side |-> t.side]}
            /\ UNCHANGED position
         \/ /\ \E k \in Fillable(t) \cup {0} :
                 position' = [position EXCEPT ![AssetOf(t)] = @ + k * t.side]
            /\ UNCHANGED open
      /\ UNCHANGED <<mapVars, at, call, task, listed>>

\* External: each cancel that names a resting order by asset and id.
ExecuteCancel(n) ==
  LET t == task[n]
  IN  /\ Execute(n)
      /\ t.op \in Cancels
      /\ open' = {o \in open : [asset |-> o.asset, oid |-> o.oid] \notin t.orders}
      /\ UNCHANGED <<mapVars, at, call, task, position, listed>>

\* External: a resting order fills.
Fill(o) ==
  /\ o \in open
  /\ open' = open \ {o}
  /\ position' = [position EXCEPT ![o.asset] = @ + o.side]
  /\ UNCHANGED <<actionVars, mapVars, at, call, task, listed>>

-----------------------------------------------------------------------------
CallerStep(c) ==
  \/ \E x \in PerpNames, d \in Sides :
       LimitOrder(c, x, d) \/ \E k \in 1 .. MaxSize : MarketOrder(c, x, d, k)
  \/ \E x \in SpotNames, d \in Sides :
       OrderSpot(c, x, d) \/ \E k \in 1 .. MaxSize : MarketOrderSpot(c, x, d, k)
  \/ (\E x \in Perps : ClosePosition(c, x)) \/ (\E x \in Coins : CancelAllOrdersByCoin(c, x))
  \/ CancelAllOrders(c)
  \/ AskPosition(c) \/ AskOrders(c) \/ AskFails(c) \/ AskPrice(c)
  \/ Send(c) \/ (\E r \in {"ok", "error"} : Finish(c, r))

Next ==
  \/ \E c \in Callers : CallerStep(c)
  \/ \E n \in Calls : ExecuteOrder(n) \/ ExecuteCancel(n)
  \/ \E o \in open : Fill(o)

Spec == Init /\ [][Next]_vars

-----------------------------------------------------------------------------
Reduced(p, q) == (0 <= p /\ p <= q) \/ (q <= p /\ p <= 0)

\* ClosePosition never opens: whatever was filled since it read the position,
\* however many goroutines close at once, and when a call that reported an
\* error is executed late, its order only takes positions towards zero.
CloseOnlyReduces ==
  [][\A n \in wire \ wire' :
       task[n].op = "close" => \A x \in Coins : Reduced(position'[x], position[x])]_vars

\* What a cancelling call is asked to cancel, and what of it the code can name:
\* it looks every coin up in the map of the perpetuals.
Asked(n) == {o \in listed[n] : task[n].op = "cancelAll" \/ o.asset = task[n].coin}
Cancellable(n) == {o \in Asked(n) : o.asset \in meta \cup {FirstPerp}}

\* Executing CancelAllOrders, or CancelAllOrdersByCoin, however late, removes
\* only orders that were open when it asked for them, nothing placed since and
\* no other coin's; and of these all that are still there in the coins of
\* api.meta.  What it leaves is in coins that map lacks, such as all spot coins:
\* the code does not keep its comments "Cancel all orders for a given coin" and
\* "Cancel all open orders" (exchange_service.go:443, 460).
CancelsExactly ==
  [][\A n \in wire \ wire' :
       task[n].op \in Cancels =>
         /\ open' \subseteq open /\ open \ open' \subseteq Asked(n)
         /\ open' \cap Cancellable(n) = {}]_vars

\* The map an order's coin is looked up in, and the coin without which it is
\* sent.
MapOf(t) == IF t.op \in SpotOrders THEN spotMeta \cup {FirstSpot} ELSE meta \cup {FirstPerp}
Fallback(t) == IF t.op \in SpotOrders THEN FirstSpot ELSE FirstPerp

\* An order rests on the side, and on the coin, that its caller named, if the
\* map of that market has the coin.  If not, it rests all the same, on the coin
\* with id 0 of that market, which the caller did not name.
OnNamedCoin ==
  \A o \in open :
    LET t == task[o.oid]
    IN  /\ t.op \in Orders /\ o.side = t.side
        /\ IF t.coin \in MapOf(t) THEN o.asset = t.coin
           ELSE o.asset = Fallback(t) /\ o.asset # t.coin

\* Who is told that CancelAllOrders, or CancelAllOrdersByCoin, succeeded has
\* none of the orders left that were open when the call asked, in the coins of
\* api.meta; spot orders are left resting.
OkCancels ==
  \A n \in Calls :
    result[n] = "ok" /\ task[n].op \in Cancels => open \cap Cancellable(n) = {}

-----------------------------------------------------------------------------
(* What makes these inductive.                                             *)

Unsent(c) == at[c] \in {"position", "price", "orders", "send"}

\* Each call is one caller's, and what it has not sent is neither on its way
\* nor executed.
CallsInPlace ==
  /\ \A c \in Callers : at[c] # "idle" => call[c] \in 1 .. made
  /\ \A c, d \in Callers : at[c] # "idle" /\ at[d] # "idle" /\ call[c] = call[d] => c = d
  /\ \A c \in Callers : Unsent(c) => call[c] \notin wire /\ executed[call[c]] = 0
  /\ \A c \in Callers : at[c] \in {"position", "price"} => task[call[c]].op \in Orders

Known == open \cup UNION {listed[n] : n \in Calls}

\* An order was executed, once, so that there is one of a number.
OrdersInPlace ==
  /\ \A o \in Known : executed[o.oid] = 1
  /\ \A o, p \in Known : o.oid = p.oid => o = p

CancelsOf(n) ==
  {[asset |-> PerpAsset(o.asset), oid |-> o.oid] : o \in {p \in listed[n] : Wanted(task[n], p)}}

\* What a cancelling call sends is what it found.
CancelsInPlace ==
  \A n \in Calls :
    /\ task[n].op \in Cancels
    /\ n \in wire \/ \E c \in Callers : at[c] = "send" /\ call[c] = n
    => task[n].orders = CancelsOf(n)

\* A cancelling call that was executed left nothing of what it could name.
ExecutedCancels ==
  \A n \in Calls :
    executed[n] = 1 /\ task[n].op \in Cancels => open \cap Cancellable(n) = {}

\* The types, where orders rest (convert.go:46, exchange_service.go:60-70), that
\* the orders a cancelling call could name are gone when it reports success
\* (exchange_service.go:442-475), and that a call, its order and its cancels
\* belong together whatever the other callers do.
ServiceInv ==
  /\ TypeOK /\ ActionInv
  /\ CallsInPlace /\ OrdersInPlace /\ CancelsInPlace
  /\ ExecutedCancels
  /\ OnNamedCoin
  /\ OkCancels
=============================================================================
