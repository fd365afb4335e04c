--------------------------- MODULE ServiceProofs ---------------------------
(***************************************************************************)
(* Proofs about ExchangeService, for any number of callers, calls and      *)
(* coins and orders of any size: its calls are those of ActionCalls, the   *)
(* invariant ServiceInv holds, and closing and cancelling do what their    *)
(* callers saw.  Each step of a caller or of the exchange is a step of     *)
(* ActionCalls or leaves its variables alone, so ActionInv is proved there *)
(* and the lemmas about the steps here start from ActionInv'.              *)
(***************************************************************************)
EXTENDS ExchangeService, TLAPS

\* The two maps, which no step changes.
USE DEF mapVars

\* What the calls promise implies ActionInv.
LEMMA ActionInitially == ASSUME MaxCalls \in Nat PROVE ActionInit => ActionInv
BY DEF ActionInit, ActionInv, ActionTypeOK, Calls

LEMMA ActionStep ==
  ASSUME MaxCalls \in Nat, ActionInv, [ActionNext]_actionVars
  PROVE  ActionInv'
<1> USE DEF ActionInv
<1>1. CASE Make \/ Fail
  <2>1. /\ made \in Nat /\ made' = made + 1 /\ made + 1 \in Calls /\ UNCHANGED <<wire, executed>>
        /\ result' = result \/ result' = [result EXCEPT ![made + 1] = "error"]
    BY <1>1 DEF Make, Fail, ActionTypeOK, Calls
  <2>2. ActionTypeOK'
    BY <2>1 DEF ActionTypeOK, Calls
  <2>3. \A n \in Calls : n > made' => n > made /\ n # made + 1
    BY <2>1 DEF Calls
  <2>4. \A n \in wire' : n <= made'
    BY <2>1 DEF ActionTypeOK, Calls
  <2> QED
    BY <2>1, <2>2, <2>3, <2>4 DEF ActionTypeOK
<1>2. ASSUME NEW n \in Calls, Emit(n) PROVE ActionInv'
  BY <1>2 DEF Emit, ActionTypeOK, Calls
<1>3. ASSUME NEW n \in Calls, Execute(n) PROVE ActionInv'
  <2>1. executed[n] = 0 /\ n <= made
    BY <1>3 DEF Execute
  <2>2. executed' = [executed EXCEPT ![n] = 1]
    BY <1>3, <2>1 DEF Execute, ActionTypeOK
  <2> QED
    BY <1>3, <2>1, <2>2 DEF Execute, ActionTypeOK, Calls
<1>4. ASSUME NEW n \in Calls, NEW r \in {"ok", "error"}, End(n, r) PROVE ActionInv'
  BY <1>4 DEF End, ActionTypeOK, Calls
<1>5. CASE UNCHANGED actionVars
  BY <1>5 DEF actionVars, ActionTypeOK
<1> QED
  BY <1>1, <1>2, <1>3, <1>4, <1>5 DEF ActionNext

\* Executing an action counts it from none to one.
LEMMA ExecuteSets ==
  ASSUME ActionInv, NEW n \in Calls, Execute(n)
  PROVE  executed[n] = 0 /\ executed' = [executed EXCEPT ![n] = 1]
<1>1. executed[n] = 0 /\ n \in wire
  BY DEF Execute, ActionInv
<1>2. executed' = [executed EXCEPT ![n] = executed[n] + 1]
  BY DEF Execute
<1> QED
  BY <1>1, <1>2

\* PerpAsset is a perpetual, SpotAsset a spot coin.
LEMMA AssetTypes ==
  ASSUME TypeOK
  PROVE  /\ \A x : PerpAsset(x) \in Perps
         /\ \A x : SpotAsset(x) \in Spots
         /\ Perps \subseteq Coins /\ Spots \subseteq Coins
BY ServiceAssumption DEF TypeOK, PerpAsset, SpotAsset, Coins

\* The asset of an order is a coin.
LEMMA AssetOfType ==
  ASSUME TypeOK, NEW t
  PROVE  AssetOf(t) \in Coins
BY AssetTypes DEF AssetOf

\* A task keeps its type when its fields are assigned.
LEMMA TaskUpdates ==
  ASSUME NEW t \in Tasks
  PROVE  /\ \A d \in {1, -1}, k \in Nat : [t EXCEPT !.side = d, !.size = k] \in Tasks
         /\ \A os \in SUBSET [asset : Coins, oid : Calls] : [t EXCEPT !.orders = os] \in Tasks
BY DEF Tasks

\* What the cancels of a call name.
LEMMA CancelsType ==
  ASSUME TypeOK, NEW n \in Calls, NEW os \in SUBSET Order
  PROVE  {[asset |-> PerpAsset(o.asset), oid |-> o.oid] : o \in {p \in os : Wanted(task[n], p)}}
            \in SUBSET [asset : Coins, oid : Calls]
BY AssetTypes DEF Order

\* The initial states have it.
LEMMA ServiceInit == Init => ServiceInv
<1> SUFFICES ASSUME Init PROVE ServiceInv
  OBVIOUS
<1>0. ActionInv
  BY ServiceAssumption, ActionInitially DEF Init
<1>1. TypeOK
  <2>1. NoTask \in Tasks
    BY ServiceAssumption DEF NoTask, Tasks, Coins, Orders, Cancels
  <2> QED
    BY <1>0, <2>1, ServiceAssumption DEF Init, TypeOK, ActionInv
<1>2. CallsInPlace
  BY DEF Init, CallsInPlace, Unsent
<1>3. OrdersInPlace
  BY DEF Init, OrdersInPlace, Known
<1>4. CancelsInPlace /\ ExecutedCancels /\ OkCancels
  BY DEF Init, CancelsInPlace, ExecutedCancels, OkCancels, NoTask, Cancels
<1>5. OnNamedCoin
  BY DEF Init, OnNamedCoin
<1> QED
  BY <1>0, <1>1, <1>2, <1>3, <1>4, <1>5 DEF ServiceInv

-----------------------------------------------------------------------------
(* Steps of a caller.                                                      *)

\* A call begins.
LEMMA BeginStep ==
  ASSUME ServiceInv, ActionInv', NEW c \in Callers, NEW t \in Tasks,
         NEW l \in {"position", "price", "orders", "send"},
         l \in {"position", "price"} => t.op \in Orders,
         l = "send" => t.op \notin Cancels,
         Begin(c, t, l)
  PROVE  ServiceInv'
<1> USE DEF ServiceInv
<1>1. /\ made' = made + 1 /\ made \in Nat /\ made + 1 \in Calls
      /\ call' = [call EXCEPT ![c] = made + 1]
      /\ task' = [task EXCEPT ![made + 1] = t]
      /\ at' = [at EXCEPT ![c] = l]
      /\ UNCHANGED <<mapVars, wire, executed, result, position, open, listed>>
  BY ServiceAssumption DEF Begin, Make, ActionInv, ActionTypeOK, Calls, serverVars
<1>2. TypeOK'
  <2>1. call' \in [Callers -> 0 .. MaxCalls] /\ task' \in [Calls -> Tasks]
    BY <1>1 DEF TypeOK, Calls
  <2> QED
    BY <1>1, <2>1 DEF TypeOK, ActionInv
<1>3. executed[made + 1] = 0 /\ made + 1 \notin wire
  BY <1>1 DEF ActionInv, Calls
<1>4. CallsInPlace'
  BY <1>1, <1>3 DEF CallsInPlace, TypeOK, Unsent, Calls
<1>5. OrdersInPlace'
  BY <1>1 DEF OrdersInPlace, Known
<1>6. \A n \in Calls : n # made + 1 => task'[n] = task[n] /\ Cancellable(n)' = Cancellable(n)
  BY <1>1 DEF TypeOK, Cancellable, Asked
<1>7. CancelsInPlace'
  <2> SUFFICES ASSUME NEW n \in Calls, task'[n].op \in Cancels,
                      n \in wire' \/ \E d \in Callers : at'[d] = "send" /\ call'[d] = n
               PROVE  task'[n].orders = CancelsOf(n)'
    BY DEF CancelsInPlace
  <2>1. n # made + 1
    BY <1>1, <1>3 DEF CallsInPlace, TypeOK
  <2>2. n \in wire \/ \E d \in Callers : at[d] = "send" /\ call[d] = n
    BY <1>1, <2>1 DEF TypeOK
  <2> QED
    BY <1>1, <1>6, <2>1, <2>2 DEF CancelsInPlace, CancelsOf, PerpAsset, Wanted
<1>8. ExecutedCancels'
  BY <1>1, <1>3, <1>6 DEF ExecutedCancels
<1>9. OnNamedCoin'
  <2>1. \A o \in open : o.oid \in Calls /\ o.oid # made + 1
    BY <1>3 DEF OrdersInPlace, Known, TypeOK, Order
  <2> QED
    BY <1>1, <1>6, <2>1 DEF OnNamedCoin, MapOf
<1>10. OkCancels'
  BY <1>8 DEF OkCancels, ExecutedCancels, ActionInv
<1> QED
  BY <1>2, <1>4, <1>5, <1>7, <1>8, <1>9, <1>10

\* A call returns, whatever it did before.
LEMMA ReturnStep ==
  ASSUME ServiceInv, ActionInv', NEW c \in Callers, NEW r \in {"ok", "error"}, Return(c, r),
         UNCHANGED <<mapVars, task, serverVars>>,
         \/ UNCHANGED listed
         \/ at[c] = "orders" /\ listed' = [listed EXCEPT ![call[c]] = open]
  PROVE  ServiceInv'
<1> USE DEF ServiceInv
<1>1. /\ at' = [at EXCEPT ![c] = "idle"] /\ call' = [call EXCEPT ![c] = 0]
      /\ UNCHANGED <<mapVars, made, task, wire, executed, position, open>>
  BY DEF Return, End, serverVars
<1>2. TypeOK'
  <2>1. listed' \in [Calls -> SUBSET Order]
    BY <1>1 DEF TypeOK
  <2>2. at' \in [Callers -> {"idle", "position", "price", "orders", "send", "wait"}]
        /\ call' \in [Callers -> 0 .. MaxCalls]
    BY <1>1, ServiceAssumption DEF TypeOK
  <2> QED
    BY <1>1, <2>1, <2>2 DEF TypeOK, ActionInv
<1>3. CallsInPlace'
  BY <1>1 DEF CallsInPlace, TypeOK, Unsent
<1>4. OrdersInPlace'
  <2>1. Known' \subseteq Known
    BY <1>1 DEF Known, TypeOK
  <2> QED
    BY <1>1, <2>1 DEF OrdersInPlace
<1>5. \A n \in Calls :
        n \in wire \/ executed[n] = 1 \/ (\E d \in Callers : at[d] = "send" /\ call[d] = n) =>
          listed'[n] = listed[n]
  BY <1>1 DEF CallsInPlace, TypeOK, Unsent
<1>6. CancelsInPlace'
  BY <1>1, <1>5 DEF CancelsInPlace, CancelsOf, PerpAsset, Wanted, TypeOK
<1>7. ExecutedCancels'
  BY <1>1, <1>5 DEF ExecutedCancels, Cancellable, Asked
<1>8. OnNamedCoin'
  BY <1>1 DEF OnNamedCoin, MapOf
<1>9. OkCancels'
  BY <1>7 DEF OkCancels, ExecutedCancels, ActionInv
<1> QED
  BY <1>2, <1>3, <1>4, <1>6, <1>7, <1>8, <1>9

\* A call goes on to its next question or to sending, with a task of its own
\* that still is what it was, but for the list of orders to cancel.
LEMMA AskStep ==
  ASSUME ServiceInv, ActionInv', NEW c \in Callers, NEW t \in Tasks,
         at[c] \in {"position", "price", "orders"},
         NEW l \in {"price", "send"},
         t.op = task[call[c]].op, t.coin = task[call[c]].coin,
         l = "price" => t.op \in Orders,
         at' = [at EXCEPT ![c] = l],
         task' = [task EXCEPT ![call[c]] = t],
         UNCHANGED <<actionVars, mapVars, call, serverVars>>,
         \/ at[c] # "orders" /\ UNCHANGED listed
         \/ at[c] = "orders" /\ listed' = [listed EXCEPT ![call[c]] = open],
         t.op \in Cancels => at[c] = "orders" /\ t.orders = CancelsOf(call[c])'
  PROVE  ServiceInv'
<1> USE DEF ServiceInv
<1>1. UNCHANGED <<mapVars, made, call, wire, executed, result, position, open>>
  BY DEF actionVars, serverVars
<1>2. /\ call[c] \in Calls /\ call[c] \in 1 .. made
      /\ Unsent(c) /\ executed[call[c]] = 0 /\ call[c] \notin wire
  BY ServiceAssumption DEF CallsInPlace, ActionInv, ActionTypeOK, Calls, Unsent
<1>3. TypeOK'
  <2>1. listed' \in [Calls -> SUBSET Order]
    BY DEF TypeOK
  <2> QED
    BY <1>1, <1>2, <2>1 DEF TypeOK, ActionInv
<1>4. CallsInPlace'
  <2>1. \A d \in Callers : Unsent(d)' => Unsent(d)
    BY <1>2 DEF TypeOK, Unsent
  <2>2. \A d \in Callers : at'[d] # "idle" => at[d] # "idle"
    BY DEF TypeOK
  <2>3. \A d \in Callers : at'[d] \in {"position", "price"} => task'[call'[d]].op \in Orders
    BY <1>1, <1>2 DEF CallsInPlace, TypeOK
  <2> QED
    BY <1>1, <2>1, <2>2, <2>3 DEF CallsInPlace
<1>5. OrdersInPlace'
  <2>1. Known' \subseteq Known
    BY <1>1 DEF Known, TypeOK
  <2> QED
    BY <1>1, <2>1 DEF OrdersInPlace
<1>6. \A n \in Calls : n # call[c] => task'[n] = task[n] /\ listed'[n] = listed[n]
  BY DEF TypeOK
<1>7. CancelsInPlace'
  <2> SUFFICES ASSUME NEW n \in Calls, task'[n].op \in Cancels,
                      n \in wire' \/ \E d \in Callers : at'[d] = "send" /\ call'[d] = n
               PROVE  task'[n].orders = CancelsOf(n)'
    BY DEF CancelsInPlace
  <2>1. CASE n = call[c]
    BY <2>1, <1>2 DEF TypeOK
  <2>2. CASE n # call[c]
    <3>1. n \in wire \/ \E d \in Callers : at[d] = "send" /\ call[d] = n
      BY <1>1, <2>2 DEF TypeOK
    <3> QED
      BY <1>1, <1>6, <2>2, <3>1 DEF CancelsInPlace, CancelsOf, PerpAsset, Wanted
  <2> QED
    BY <2>1, <2>2
<1>8. ExecutedCancels'
  BY <1>1, <1>2, <1>6 DEF ExecutedCancels, Cancellable, Asked
<1>9. OnNamedCoin'
  <2>1. \A o \in open : o.oid \in Calls /\ o.oid # call[c]
    BY <1>2 DEF OrdersInPlace, Known, TypeOK, Order
  <2> QED
    BY <1>1, <1>6, <2>1 DEF OnNamedCoin, MapOf
<1>10. OkCancels'
  BY <1>8 DEF OkCancels, ExecutedCancels, ActionInv
<1> QED
  BY <1>3, <1>4, <1>5, <1>7, <1>8, <1>9, <1>10

\* A call is sent.
LEMMA SendStep ==
  ASSUME ServiceInv, ActionInv', NEW c \in Callers, Send(c)
  PROVE  ServiceInv'
<1> USE DEF ServiceInv
<1>1. /\ at[c] = "send" /\ wire' = wire \cup {call[c]} /\ at' = [at EXCEPT ![c] = "wait"]
      /\ UNCHANGED <<mapVars, made, executed, result, call, task, position, open, listed>>
  BY DEF Send, Emit, serverVars
<1>2. call[c] \in Calls /\ call[c] \in 1 .. made /\ Unsent(c)
  BY <1>1, ServiceAssumption DEF CallsInPlace, ActionInv, ActionTypeOK, Calls, Unsent
<1>3. TypeOK'
  BY <1>1, <1>2 DEF TypeOK, ActionInv
<1>4. \A d \in Callers : Unsent(d)' => Unsent(d) /\ call[d] # call[c]
  BY <1>1, <1>2 DEF CallsInPlace, TypeOK, Unsent
<1>5. CallsInPlace'
  BY <1>1, <1>2, <1>4 DEF CallsInPlace, TypeOK
<1>6. OrdersInPlace' /\ OnNamedCoin' /\ ExecutedCancels' /\ OkCancels'
  <2>1. OrdersInPlace' /\ ExecutedCancels' /\ OkCancels'
    BY <1>1 DEF OrdersInPlace, Known, ExecutedCancels, OkCancels, Cancellable, Asked
  <2>2. OnNamedCoin'
    BY <1>1 DEF OnNamedCoin, MapOf
  <2> QED
    BY <2>1, <2>2
<1>7. CancelsInPlace'
  BY <1>1, <1>2 DEF CancelsInPlace, CancelsOf, PerpAsset, Wanted, TypeOK
<1> QED
  BY <1>3, <1>5, <1>6, <1>7

-----------------------------------------------------------------------------
(* Steps of the exchange.                                                  *)

\* How many of an order fill is a number, negative only for a sell.
LEMMA FillableType ==
  ASSUME TypeOK, NEW n \in Calls, NEW k \in Fillable(task[n]) \cup {0}
  PROVE  /\ k \in Nat
         /\ position[AssetOf(task[n])] \in Int
         /\ position[AssetOf(task[n])] + k * task[n].side \in Int
<1>1. task[n].size \in Nat /\ task[n].side \in {1, -1}
  BY DEF TypeOK, Tasks
<1>2. position[AssetOf(task[n])] \in Int
  BY AssetOfType DEF TypeOK
<1>3. k \in Nat
  BY <1>1, <1>2 DEF Fillable
<1> QED
  BY <1>1, <1>2, <1>3

\* The exchange executes an order.
LEMMA ExecuteOrderStep ==
  ASSUME ServiceInv, ActionInv', NEW n \in Calls, ExecuteOrder(n)
  PROVE  ServiceInv'
<1> USE DEF ServiceInv
<1> DEFINE o == [oid |-> n, asset |-> AssetOf(task[n]), side |-> task[n].side]
<1>1. /\ n \in wire /\ task[n].op \in Orders /\ wire' = wire \ {n}
      /\ executed[n] = 0 /\ executed' = [executed EXCEPT ![n] = 1]
      /\ UNCHANGED <<mapVars, made, result, at, call, task, listed>>
  BY ExecuteSets DEF ExecuteOrder, Execute
<1>2. o \in Order /\ o.oid = n
  BY AssetOfType DEF Order, TypeOK, Tasks
<1>3. open' = open \/ open' = open \cup {o}
  BY DEF ExecuteOrder
<1>4. TypeOK'
  <2>1. position' \in [Coins -> Int]
    BY FillableType DEF ExecuteOrder, TypeOK
  <2>2. open' \subseteq Order
    BY <1>2, <1>3 DEF TypeOK
  <2> QED
    BY <1>1, <2>1, <2>2 DEF TypeOK, ActionInv
<1>5. /\ executed'[n] = 1
      /\ \A m \in Calls : m # n => executed'[m] = executed[m]
  BY <1>1 DEF ActionInv, ActionTypeOK
<1>6. CallsInPlace'
  <2>1. \A d \in Callers : Unsent(d) => call[d] # n /\ call[d] \in Calls
    BY <1>1, ServiceAssumption DEF CallsInPlace, Unsent, ActionInv, ActionTypeOK, Calls
  <2> QED
    BY <1>1, <1>5, <2>1 DEF CallsInPlace, Unsent
<1>7. \A p \in Known : p.oid # n /\ p.oid \in Calls
  BY <1>1 DEF OrdersInPlace, Known, TypeOK, Order
<1>8. OrdersInPlace'
  <2>1. Known' \subseteq Known \cup {o}
    BY <1>1, <1>3 DEF Known
  <2> HIDE DEF o
  <2> QED
    BY <1>2, <1>5, <1>7, <2>1 DEF OrdersInPlace
<1>9. CancelsInPlace'
  BY <1>1 DEF CancelsInPlace, CancelsOf, PerpAsset, Wanted
<1>10. ExecutedCancels'
  <2>1. \A m \in Calls : o \notin Cancellable(m)
    <3> HIDE DEF o
    <3> QED
      BY <1>2, <1>7 DEF Cancellable, Asked, Known
  <2>2. \A m \in Calls : executed'[m] = 1 /\ task[m].op \in Cancels => executed[m] = 1
    BY <1>1, <1>5 DEF Cancels, Orders, SpotOrders
  <2> HIDE DEF o
  <2> QED
    BY <1>1, <1>3, <2>1, <2>2 DEF ExecutedCancels, Cancellable, Asked
<1>11. OnNamedCoin'
  <2>1. LET t == task[n]
        IN  /\ t.op \in Orders /\ o.side = t.side
            /\ IF t.coin \in MapOf(t) THEN o.asset = t.coin
               ELSE o.asset = Fallback(t) /\ o.asset # t.coin
    BY <1>1 DEF AssetOf, SpotAsset, PerpAsset, MapOf, Fallback
  <2> SUFFICES ASSUME NEW p \in open'
               PROVE  LET t == task[p.oid]
                      IN  /\ t.op \in Orders /\ p.side = t.side
                          /\ IF t.coin \in MapOf(t) THEN p.asset = t.coin
                             ELSE p.asset = Fallback(t) /\ p.asset # t.coin
    BY <1>1 DEF OnNamedCoin, MapOf
  <2> HIDE DEF o
  <2> QED
    BY <1>2, <1>3, <2>1 DEF OnNamedCoin
<1>12. OkCancels'
  BY <1>10 DEF OkCancels, ExecutedCancels, ActionInv
<1> QED
  BY <1>4, <1>6, <1>8, <1>9, <1>10, <1>11, <1>12

\* What an executed call's cancels remove: orders the call asked for, and all
\* of these that are left in the coins it can name.
LEMMA CancelEffect ==
  ASSUME ServiceInv, NEW n \in Calls, ExecuteCancel(n)
  PROVE  /\ open' \subseteq open /\ open \ open' \subseteq Asked(n)
         /\ open' \cap Cancellable(n) = {}
<1>1. n \in wire /\ task[n].op \in Cancels
  BY DEF ExecuteCancel, Execute
<1>2. /\ task[n].orders = CancelsOf(n)
      /\ open' = {o \in open : [asset |-> o.asset, oid |-> o.oid] \notin task[n].orders}
  BY <1>1 DEF ServiceInv, CancelsInPlace, ExecuteCancel
<1>3. ASSUME NEW o \in open, [asset |-> o.asset, oid |-> o.oid] \in CancelsOf(n)
      PROVE  o \in Asked(n)
  <2>1. PICK p \in listed[n] : /\ Wanted(task[n], p)
                              /\ [asset |-> o.asset, oid |-> o.oid]
                                   = [asset |-> PerpAsset(p.asset), oid |-> p.oid]
    BY <1>3 DEF CancelsOf
  <2>2. o.asset = PerpAsset(p.asset) /\ o.oid = p.oid
    BY <2>1
  <2>3. p = o
    BY <2>2 DEF ServiceInv, OrdersInPlace, Known
  <2> QED
    BY <1>1, <2>1, <2>2, <2>3 DEF Asked, Wanted, Cancels
<1>4. ASSUME NEW o \in Cancellable(n)
      PROVE  [asset |-> o.asset, oid |-> o.oid] \in CancelsOf(n)
  <2>1. o \in listed[n] /\ PerpAsset(o.asset) = o.asset /\ Wanted(task[n], o)
    BY <1>1, <1>4 DEF Cancellable, Asked, PerpAsset, Wanted, Cancels
  <2> QED
    BY <2>1 DEF CancelsOf
<1> QED
  BY <1>2, <1>3, <1>4

\* Orders go away; a cancelling call that was executed by this has none left.
LEMMA OrdersGoStep ==
  ASSUME ServiceInv, ActionInv', open' \subseteq open, wire' \subseteq wire,
         position' \in [Coins -> Int],
         UNCHANGED <<made, result, mapVars, at, call, task, listed>>,
         \/ UNCHANGED executed
         \/ \E n \in wire : /\ executed' = [executed EXCEPT ![n] = 1]
                            /\ open' \cap Cancellable(n) = {}
  PROVE  ServiceInv'
<1> USE DEF ServiceInv
<1>1. \A n \in Calls : executed'[n] = executed[n] \/ executed'[n] = 1
  BY DEF ActionInv, ActionTypeOK
<1>2. \A n \in Calls :
        executed'[n] # executed[n] => n \in wire /\ open' \cap Cancellable(n) = {}
  BY DEF ActionInv, ActionTypeOK
<1>3. TypeOK'
  BY DEF TypeOK, ActionInv
<1>4. CallsInPlace'
  <2>1. \A d \in Callers : Unsent(d) => call[d] \in Calls
    BY ServiceAssumption DEF CallsInPlace, Unsent, ActionInv, ActionTypeOK, Calls
  <2> QED
    BY <1>2, <2>1 DEF CallsInPlace, Unsent
<1>5. OrdersInPlace'
  <2>1. Known' \subseteq Known
    BY DEF Known
  <2>2. \A o \in Known : o.oid \in Calls
    BY DEF Known, TypeOK, Order
  <2> QED
    BY <1>1, <2>1, <2>2 DEF OrdersInPlace
<1>6. CancelsInPlace' /\ OnNamedCoin'
  <2>1. CancelsInPlace'
    BY DEF CancelsInPlace, CancelsOf, PerpAsset, Wanted
  <2>2. OnNamedCoin'
    BY DEF OnNamedCoin, MapOf
  <2> QED
    BY <2>1, <2>2
<1>7. ExecutedCancels'
  <2>1. ASSUME NEW n \in Calls, executed'[n] = 1, task[n].op \in Cancels
        PROVE  open' \cap Cancellable(n) = {}
    <3>1. CASE executed[n] = 1
      BY <2>1, <3>1 DEF ExecutedCancels
    <3>2. CASE executed[n] # 1
      BY <1>2, <2>1, <3>2
    <3> QED
      BY <3>1, <3>2
  <2> QED
    BY <2>1 DEF ExecutedCancels, Cancellable, Asked
<1>8. OkCancels'
  BY <1>7 DEF OkCancels, ExecutedCancels, ActionInv
<1> QED
  BY <1>3, <1>4, <1>5, <1>6, <1>7, <1>8

-----------------------------------------------------------------------------
(* The service is built on the calls.                                      *)

\* Every step of the service is a step of ActionCalls, or none.
LEMMA StepOfCalls == ServiceInv /\ [Next]_vars => [ActionNext]_actionVars
<1> SUFFICES ASSUME ServiceInv, [Next]_vars PROVE [ActionNext]_actionVars
  OBVIOUS
<1>1. ASSUME NEW c \in Callers, CallerStep(c) PROVE [ActionNext]_actionVars
  <2>1. \A t, l : Begin(c, t, l) => ActionNext
    BY DEF Begin, ActionNext
  <2>2. ASSUME NEW r \in {"ok", "error"}, Return(c, r) PROVE ActionNext
    <3>1. call[c] \in Calls /\ End(call[c], r)
      BY <2>2, ServiceAssumption DEF Return, End, ServiceInv, ActionInv, ActionTypeOK, Calls
    <3> QED
      BY <3>1 DEF ActionNext
  <2>3. Send(c) => ActionNext
    BY ServiceAssumption DEF Send, Emit, ActionNext, ServiceInv, ActionInv, ActionTypeOK, Calls
  <2>4. CASE \/ \E x \in PerpNames, d \in Sides :
                  LimitOrder(c, x, d) \/ \E k \in 1 .. MaxSize : MarketOrder(c, x, d, k)
             \/ \E x \in SpotNames, d \in Sides :
                  OrderSpot(c, x, d) \/ \E k \in 1 .. MaxSize : MarketOrderSpot(c, x, d, k)
             \/ \E x \in Perps : ClosePosition(c, x)
             \/ \E x \in Coins : CancelAllOrdersByCoin(c, x)
             \/ CancelAllOrders(c)
    BY <2>1, <2>4 DEF LimitOrder, MarketOrder, OrderSpot, MarketOrderSpot, ClosePosition,
                     CancelAllOrdersByCoin, CancelAllOrders
  <2>5. CASE AskPosition(c) \/ AskOrders(c) \/ AskFails(c) \/ AskPrice(c)
    BY <2>2, <2>5 DEF AskPosition, AskOrders, AskFails, AskPrice
  <2>6. CASE Send(c) \/ \E r \in {"ok", "error"} : Finish(c, r)
    BY <2>2, <2>3, <2>6 DEF Finish
  <2> QED
    BY <1>1, <2>4, <2>5, <2>6 DEF CallerStep
<1>2. ASSUME NEW n \in Calls, ExecuteOrder(n) \/ ExecuteCancel(n) PROVE ActionNext
  BY <1>2 DEF ExecuteOrder, ExecuteCancel, ActionNext
<1>3. ASSUME NEW o \in open, Fill(o) PROVE UNCHANGED actionVars
  BY <1>3 DEF Fill
<1> QED
  BY <1>1, <1>2, <1>3 DEF Next, vars

\* What leaves the wire is executed.
LEMMA LeavesWire ==
  ASSUME ServiceInv, [Next]_vars, NEW n \in wire \ wire'
  PROVE  n \in Calls /\ (ExecuteOrder(n) \/ ExecuteCancel(n))
<1>1. ASSUME NEW c \in Callers, CallerStep(c) PROVE wire \subseteq wire'
  <2>1. \A t, l : Begin(c, t, l) => wire \subseteq wire'
    BY DEF Begin, Make
  <2>2. \A r : Return(c, r) => wire \subseteq wire'
    BY DEF Return, End
  <2>3. Send(c) => wire \subseteq wire'
    BY DEF Send, Emit
  <2>4. CASE \/ \E x \in PerpNames, d \in Sides :
                  LimitOrder(c, x, d) \/ \E k \in 1 .. MaxSize : MarketOrder(c, x, d, k)
             \/ \E x \in SpotNames, d \in Sides :
                  OrderSpot(c, x, d) \/ \E k \in 1 .. MaxSize : MarketOrderSpot(c, x, d, k)
             \/ \E x \in Perps : ClosePosition(c, x)
             \/ \E x \in Coins : CancelAllOrdersByCoin(c, x)
             \/ CancelAllOrders(c)
    BY <2>1, <2>4 DEF LimitOrder, MarketOrder, OrderSpot, MarketOrderSpot, ClosePosition,
                     CancelAllOrdersByCoin, CancelAllOrders
  <2>5. CASE AskPosition(c) \/ AskOrders(c) \/ AskFails(c) \/ AskPrice(c)
    BY <2>2, <2>5 DEF AskPosition, AskOrders, AskFails, AskPrice, actionVars
  <2>6. CASE Send(c) \/ \E r \in {"ok", "error"} : Finish(c, r)
    BY <2>2, <2>3, <2>6 DEF Finish
  <2> QED
    BY <1>1, <2>4, <2>5, <2>6 DEF CallerStep
<1>2. ASSUME NEW m \in Calls, ExecuteOrder(m) \/ ExecuteCancel(m) PROVE wire' = wire \ {m}
  BY <1>2 DEF ExecuteOrder, ExecuteCancel, Execute
<1>3. ASSUME NEW o \in open, Fill(o) PROVE wire' = wire
  BY <1>3 DEF Fill, actionVars
<1> QED
  BY <1>1, <1>2, <1>3 DEF Next, vars, actionVars, ServiceInv, ActionInv, ActionTypeOK

\* Every step keeps the invariant.
LEMMA ServiceStep == ServiceInv /\ [Next]_vars => ServiceInv'
<1> SUFFICES ASSUME ServiceInv, [Next]_vars PROVE ServiceInv'
  OBVIOUS
<1>0. ActionInv'
  BY StepOfCalls, ActionStep, ServiceAssumption DEF ServiceInv
<1>1. ASSUME NEW c \in Callers, CallerStep(c) PROVE ServiceInv'
  <2>0. PerpNames \subseteq Coins /\ SpotNames \subseteq Coins
    BY ServiceAssumption DEF Coins
  <2>1. ASSUME NEW x \in Coins, NEW d \in Sides, LimitOrder(c, x, d) \/ OrderSpot(c, x, d)
        PROVE  ServiceInv'
    <3>1. \A op \in {"limit", "limitSpot"} :
            Task(op, x, d, 1) \in Tasks /\ Task(op, x, d, 1).op = op
      BY ServiceAssumption DEF Task, Tasks, Orders, SpotOrders
    <3> QED
      BY <1>0, <2>1, <3>1, BeginStep DEF LimitOrder, OrderSpot, Cancels
  <2>2. ASSUME NEW x \in Coins, NEW d \in Sides, NEW k \in 1 .. MaxSize,
               MarketOrder(c, x, d, k) \/ MarketOrderSpot(c, x, d, k)
        PROVE  ServiceInv'
    <3>1. \A op \in {"market", "marketSpot"} :
            Task(op, x, d, k) \in Tasks /\ Task(op, x, d, k).op = op
      BY ServiceAssumption DEF Task, Tasks, Orders, SpotOrders
    <3> QED
      BY <1>0, <2>2, <3>1, BeginStep DEF MarketOrder, MarketOrderSpot, Orders, SpotOrders
  <2>3. ASSUME NEW x \in Perps, ClosePosition(c, x) PROVE ServiceInv'
    <3>1. Task("close", x, 1, 0) \in Tasks
      BY DEF Task, Tasks, Orders, Coins
    <3>2. Task("close", x, 1, 0).op = "close"
      BY DEF Task
    <3> QED
      BY <1>0, <2>3, <3>1, <3>2, BeginStep DEF ClosePosition, Orders
  <2>4. ASSUME NEW x \in Coins, CancelAllOrdersByCoin(c, x) PROVE ServiceInv'
    <3>1. Task("cancelByCoin", x, 1, 0) \in Tasks
      BY DEF Task, Tasks, Cancels
    <3> QED
      BY <1>0, <2>4, <3>1, BeginStep DEF CancelAllOrdersByCoin
  <2>5. CASE CancelAllOrders(c)
    <3>1. Task("cancelAll", FirstPerp, 1, 0) \in Tasks
      BY ServiceAssumption DEF Task, Tasks, Cancels, Coins
    <3> QED
      BY <1>0, <2>5, <3>1, BeginStep DEF CancelAllOrders
  <2>6. CASE AskPosition(c)
    <3> DEFINE n == call[c]
    <3> DEFINE size == position[task[n].coin]
    <3> DEFINE side == IF size > 0 THEN -1 ELSE 1
    <3> DEFINE sz == IF size > 0 THEN size ELSE -size
    <3>1. CASE size = 0
      BY <1>0, <2>6, <3>1, ReturnStep DEF AskPosition
    <3>2. CASE size # 0
      <4>1. at[c] = "position" /\ n \in Calls /\ task[n] \in Tasks /\ task[n].op \in Orders
        BY <2>6, ServiceAssumption DEF AskPosition, ServiceInv, CallsInPlace, TypeOK, ActionTypeOK, Calls
      <4>2. size \in Int /\ side \in {1, -1} /\ sz \in Nat
        BY <4>1, <3>2 DEF ServiceInv, TypeOK, Tasks
      <4>3. /\ at' = [at EXCEPT ![c] = "price"]
            /\ UNCHANGED <<actionVars, call, mapVars, serverVars, listed>>
        BY <2>6, <3>2 DEF AskPosition
      <4>4. task' = [task EXCEPT ![n] = [task[n] EXCEPT !.side = side, !.size = sz]]
        BY <2>6, <3>2, <4>1 DEF AskPosition, ServiceInv, TypeOK
      <4> HIDE DEF size, side, sz
      <4> DEFINE t == [task[n] EXCEPT !.side = side, !.size = sz]
      <4>5. t \in Tasks /\ t.op = task[n].op /\ t.coin = task[n].coin
        BY <4>1, <4>2, TaskUpdates DEF Tasks
      <4>6. t.op \notin Cancels
        BY <4>1, <4>5 DEF Orders, SpotOrders, Cancels
      <4> HIDE DEF t
      <4> QED
        BY <1>0, <4>1, <4>3, <4>4, <4>5, <4>6, AskStep DEF t
    <3> QED
      BY <3>1, <3>2
  <2>7. CASE AskOrders(c)
    <3> DEFINE n == call[c]
    <3>1. CASE task[n].op = "cancelAll" /\ open = {}
      BY <1>0, <2>7, <3>1, ReturnStep DEF AskOrders
    <3>2. CASE ~(task[n].op = "cancelAll" /\ open = {})
      <4> DEFINE os == {[asset |-> PerpAsset(o.asset), oid |-> o.oid] : o \in {p \in open : Wanted(task[n], p)}}
      <4>1. at[c] = "orders" /\ n \in Calls /\ task[n] \in Tasks
        BY <2>7, ServiceAssumption DEF AskOrders, ServiceInv, CallsInPlace, TypeOK, ActionTypeOK, Calls
      <4>2. os \in SUBSET [asset : Coins, oid : Calls]
        BY <4>1, CancelsType DEF ServiceInv, TypeOK
      <4>3. /\ at' = [at EXCEPT ![c] = "send"] /\ UNCHANGED <<actionVars, call, mapVars, serverVars>>
            /\ listed' = [listed EXCEPT ![n] = open]
        BY <2>7, <3>2 DEF AskOrders
      <4>4. task' = [task EXCEPT ![n] = [task[n] EXCEPT !.orders = os]]
        BY <2>7, <3>2, <4>1 DEF AskOrders, ServiceInv, TypeOK
      <4> DEFINE t == [task[n] EXCEPT !.orders = os]
      <4>5. t \in Tasks /\ t.op = task[n].op /\ t.coin = task[n].coin /\ t.orders = os
        BY <4>1, <4>2, TaskUpdates DEF Tasks
      <4>6. os = CancelsOf(n)'
        <5>1. task'[n] = t /\ listed'[n] = open /\ UNCHANGED mapVars
          BY <4>1, <4>3, <4>4 DEF ServiceInv, TypeOK
        <5>2. \A p : Wanted(task[n], p) <=> Wanted(task'[n], p)
          BY <4>5, <5>1 DEF Wanted
        <5> HIDE DEF t
        <5> QED
          BY <5>1, <5>2, <4>3 DEF CancelsOf, PerpAsset
      <4> HIDE DEF t, os
      <4> QED
        BY <1>0, <4>1, <4>3, <4>4, <4>5, <4>6, AskStep DEF t
    <3> QED
      BY <3>1, <3>2
  <2>8. CASE AskFails(c)
    BY <1>0, <2>8, ReturnStep DEF AskFails
  <2>9. CASE AskPrice(c)
    <3> DEFINE n == call[c]
    <3>1. at[c] = "price" /\ n \in Calls /\ task[n] \in Tasks /\ task[n].op \in Orders
      BY <2>9, ServiceAssumption DEF AskPrice, ServiceInv, CallsInPlace, TypeOK, ActionTypeOK, Calls
    <3>2. /\ at' = [at EXCEPT ![c] = "send"]
          /\ UNCHANGED <<actionVars, call, mapVars, serverVars, listed>>
          /\ task' = [task EXCEPT ![n] = task[n]]
      BY <2>9, <3>1 DEF AskPrice, ServiceInv, TypeOK
    <3>3. task[n].op \notin Cancels
      BY <3>1 DEF Orders, SpotOrders, Cancels
    <3> QED
      BY <1>0, <3>1, <3>2, <3>3, AskStep
  <2>10. CASE Send(c)
    BY <1>0, <2>10, SendStep
  <2>11. ASSUME NEW r \in {"ok", "error"}, Finish(c, r) PROVE ServiceInv'
    BY <1>0, <2>11, ReturnStep DEF Finish
  <2> QED
    BY <1>1, <2>0, <2>1, <2>2, <2>3, <2>4, <2>5, <2>6, <2>7, <2>8, <2>9, <2>10, <2>11 DEF CallerStep
<1>2. ASSUME NEW n \in Calls, ExecuteOrder(n) PROVE ServiceInv'
  BY <1>0, <1>2, ExecuteOrderStep
<1>3. ASSUME NEW n \in Calls, ExecuteCancel(n) PROVE ServiceInv'
  <2>1. wire' \subseteq wire /\ position' \in [Coins -> Int]
    BY <1>3 DEF ExecuteCancel, Execute, ServiceInv, TypeOK
  <2>2. n \in wire /\ executed' = [executed EXCEPT ![n] = 1]
    BY <1>3, ExecuteSets DEF ExecuteCancel, Execute, ServiceInv
  <2> QED
    BY <1>0, <1>3, <2>1, <2>2, CancelEffect, OrdersGoStep DEF ExecuteCancel, Execute
<1>4. ASSUME NEW o \in open, Fill(o) PROVE ServiceInv'
  <2>1. o.asset \in Coins /\ o.side \in Int
    BY DEF ServiceInv, TypeOK, Order
  <2>2. open' \subseteq open /\ position' \in [Coins -> Int]
    BY <1>4, <2>1 DEF Fill, ServiceInv, TypeOK
  <2> QED
    BY <1>0, <1>4, <2>2, OrdersGoStep DEF Fill, actionVars
<1>5. CASE UNCHANGED vars
  <2>1. position' \in [Coins -> Int]
    BY <1>5 DEF vars, serverVars, ServiceInv, TypeOK
  <2> QED
    BY <1>0, <1>5, <2>1, OrdersGoStep DEF vars, serverVars, actionVars
<1> QED
  BY <1>1, <1>2, <1>3, <1>4, <1>5 DEF Next

\* In every behaviour the state keeps its types, calls, orders and cancels
\* belong together, and orders rest on the coin their callers named.
THEOREM ServiceInvariant == Spec => []ServiceInv
BY ServiceInit, ServiceStep, PTL DEF Spec

\* The order of a ClosePosition, whenever it is executed and whatever has been
\* filled since the position was read, only takes positions towards zero.
THEOREM ServiceCloseReduces == Spec => CloseOnlyReduces
<1>1. ASSUME ServiceInv, [Next]_vars
      PROVE  [\A n \in wire \ wire' :
                task[n].op = "close" => \A x \in Coins : Reduced(position'[x], position[x])]_vars
  <2> SUFFICES ASSUME NEW n \in wire \ wire', task[n].op = "close", NEW x \in Coins
               PROVE  Reduced(position'[x], position[x])
    OBVIOUS
  <2>1. n \in Calls /\ ExecuteOrder(n)
    BY <1>1, LeavesWire DEF ExecuteCancel, Cancels
  <2>2. PICK k \in Fillable(task[n]) \cup {0} :
          position' = [position EXCEPT ![AssetOf(task[n])] = @ + k * task[n].side]
    BY <2>1 DEF ExecuteOrder
  <2>3. /\ task[n].side \in {1, -1} /\ task[n].size \in Nat
        /\ position[AssetOf(task[n])] \in Int /\ position[x] \in Int
    BY <1>1, <2>1, AssetOfType DEF ServiceInv, TypeOK, Tasks
  <2>4. k \in Nat /\ (k = 0 \/ k <= -task[n].side * position[AssetOf(task[n])])
    BY <2>3 DEF Fillable, ReduceOnly
  <2>5. Reduced(position[AssetOf(task[n])] + k * task[n].side, position[AssetOf(task[n])])
    <3>1. CASE task[n].side = 1
      BY <2>3, <2>4, <3>1 DEF Reduced
    <3>2. CASE task[n].side = -1
      BY <2>3, <2>4, <3>2 DEF Reduced
    <3> QED
      BY <2>3, <3>1, <3>2
  <2> QED
    BY <1>1, <2>2, <2>3, <2>5 DEF ServiceInv, TypeOK, Reduced
<1> QED
  BY <1>1, ServiceInvariant, PTL DEF Spec, CloseOnlyReduces

\* Executing the cancels of CancelAllOrders or CancelAllOrdersByCoin removes
\* what was open when the call asked and is still there, and nothing else.
THEOREM ServiceCancelsExactly == Spec => CancelsExactly
<1>1. ASSUME ServiceInv, [Next]_vars
      PROVE  [\A n \in wire \ wire' :
                task[n].op \in Cancels =>
                  /\ open' \subseteq open /\ open \ open' \subseteq Asked(n)
                  /\ open' \cap Cancellable(n) = {}]_vars
  <2> SUFFICES ASSUME NEW n \in wire \ wire', task[n].op \in Cancels
               PROVE  /\ open' \subseteq open /\ open \ open' \subseteq Asked(n)
                      /\ open' \cap Cancellable(n) = {}
    OBVIOUS
  <2>1. n \in Calls /\ ExecuteCancel(n)
    BY <1>1, LeavesWire DEF ExecuteOrder, Orders, SpotOrders, Cancels
  <2> QED
    BY <1>1, <2>1, CancelEffect
<1> QED
  BY <1>1, ServiceInvariant, PTL DEF Spec, CancelsExactly

\* Who is told that CancelAllOrders or CancelAllOrdersByCoin succeeded has none
\* of the perpetual orders left that the call had found.
THEOREM ServiceOkCancels == Spec => []OkCancels
<1>1. ServiceInv => OkCancels
  BY DEF ServiceInv
<1> QED
  BY <1>1, ServiceInvariant, PTL

\* The service only sends, executes and returns as ActionCalls does, which
\* ClientRequest implements (ClientProofs): what is proved here about actions
\* executed late, once or never holds over its posts, fallbacks and copies.
THEOREM ServiceUsesCalls == Spec => ActionSpec
<1>1. Init => ActionInit
  BY DEF Init
<1> QED
  BY <1>1, StepOfCalls, ServiceInvariant, PTL DEF Spec, ActionSpec
=============================================================================
