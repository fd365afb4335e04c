# go_hyperliquid in TLA+

`src/` holds a Go client library for the Hyperliquid exchange (package
`hyperliquid`: HTTP and WebSocket) and, under `src/relay/`, a server that
receives market data once and relays it to many clients. This directory models
the concurrent parts of both in TLA+, model-checks them with TLC on small
instances, and proves the most important facts with TLAPS for every instance.
`PROJECT.json` lists components, runs, mutants, hazards and theorems, and maps
every definition to the lines of code it stands for.

## 1. The system

### Client library

| Component | State | Operations | Correct when |
|---|---|---|---|
| Nonce generator, `utils.go` | the process-wide `nonceCounter` | `GetNonce`, from any goroutine | no nonce is handed out twice, none is behind the clock its call read, calls that follow each other get growing nonces, every call returns |
| Post requests, `websocket.go:1355` | `nextPostID`, `postResponses` (id to a one-slot channel) | `PostRequest`, `handlePostResponse`, `Disconnect` | a call gets the answer to its own request or none; nothing is sent on a closed channel; no registration leaks; every call returns |
| Subscription registry, `websocket.go:400-770, 970-1353, 1435-1624` | `subscriptions` (key to subscription), `channelHandlers` (channel name to a slice), one buffered channel and one handler goroutine per subscription | 16 `Subscribe*`/`Unsubscribe*` pairs, `Disconnect`, the dispatch of a message | the two maps agree with each other and, when nothing is in progress, with the server; the reader never waits for a handler |
| Connection, `websocket.go:212-341, 773-967` | `conn`, `isConnected`, `manualDisconnect`, `reconnectCount`, `pingStopChan`, `lastPingTime` | `Connect`, `Disconnect`, `DisconnectForTesting`, reader, ping handler, `reconnect` | a connected client is watched by exactly one ping handler or reconnect; a lost connection is noticed, replaced and re-subscribed |
| Request routing, `client.go`, `api.go` | none of its own: the nonce, the posts and `isConnected` | `Request`, `requestViaWebSocket`, `requestViaHTTP`, the service methods that are one call | an action is executed at most once although it may be sent twice; success means executed |
| Exchange service, `exchange_service.go`, `convert.go` | the maps of asset ids, fetched once | `MarketOrder`, `ClosePosition`, `CancelAllOrders`, ...: they ask, then act | closing never opens a position, cancelling cancels what it found and nothing else, an order rests on the coin it names |
| Signing and key manager; wire formats, JSON, conversions | none | stateless | not modelled |

A service method signs its action with `GetNonce` and calls
`MakeUniversalRequest`, which goes to `Client.Request`. That routes to
`PostRequest` when `IsConnected()`, and to HTTP otherwise; an exchange call
whose post fails falls back to HTTP. Three goroutines per connection live in
`WebSocketAPI` (the reader, the ping handler and, at times, `reconnect`) next
to one handler goroutine per subscription and the callers. They share one
`RWMutex`, `ws.mu`, which `Connect` does not take.

### Relay

| Component | State | Operations | Correct when |
|---|---|---|---|
| Fan-out hub, `fanout.go` | topics (symbol to subscribers), each subscriber's buffered channel, `closed` flag and drop count, counters | `Subscribe`, `Unsubscribe`, `Publish`, `handleSlowConsumer` | members are open, the count is right, updates come in order, once and without uncounted gaps, slow subscribers are cut off, the feed never waits |
| Sessions, `grpc/server.go`, `api/server.go` | one subscriber each | `StreamOrderBook`; `Handle` and `handleIncoming` | they get a snapshot and all that follows |
| Cache, `cache.go` | order books; per symbol an array of trades written round and round | `UpdateOrderbook`, `AddTrade`, `GetRecent`, `GetAll` | never behind what was published; the newest trades in order |
| Stream limiter, `ratelimit.go` | key to limiter, each with a count of streams | `AcquireStream`, `ReleaseStream`, `Allow`, `cleanup` | no slot is lost, the limit holds |
| Upstream manager, `upstream/manager.go` | symbol to stream, a pool of 100 workers | `Subscribe`, `Unsubscribe`, `runStream`, `Stop` | a subscribed symbol is fed by one worker; `Stop` is never stuck |
| Usage metering, `usage.go` | key to a buffer of atomic counters, a row of the day per key | `Record*`, `UpdatePeakStreams`, `Flush`, `Stop` | every event is written, waiting or accounted for; `Stop` is followed by a last flush |
| Authentication, `auth.go` | a cache of AuthContexts with times, over SQL | `Authenticate`, `InvalidateCache`, `cleanupCache` | what it lets in was valid at most `cacheTTL` ago |
| Plans, `plan.go` | a cache without lock or lifetime, over SQL | `GetByID`, `Update`, `Deprecate`, `ClearCache` | a cached plan is the current one |
| Tenants, `tenant.go` | SQL | `UpdateStatus` (`Suspend`, `Activate`, `Delete`) | a suspended tenant is soon refused |
| Configuration, logging, metrics, `main` | counters | - | not modelled: start-up and declarations |

A session is authenticated, takes a stream slot (or a token of the rate
limiter), subscribes its symbol upstream and its channel in the hub, and reads
a snapshot from the cache. A worker of the upstream pool calls `onData` in
`main.go`, which writes the cache and then publishes. Usage, authentication
and plans touch the data path only at its ends: who may come in, with which
limits, and what is counted.

### What is hard here

* interleavings: state is read under a lock and used after it (the slice of
  handlers, the limiter, `pingStopChan`), `Connect` changes shared state without
  the lock, closing races sending;
* time: a post that times out may still be executed; tickers; cleanup;
* unreliable delivery: answers late, twice, out of order, or never;
* answers out of date: a position, a list of orders, a row of a table is read,
  and acted upon when others have changed it;
* limits: full buffers, slow consumers, a pool with no free worker;
* Go's own rules: a send on a closed channel and a second `close` panic, a
  receive from a closed channel returns the zero value at once, slices share
  their backing arrays.

`PROJECT.json`, "hazards", has each at its line, with the properties about it.

## 2. The modules

| Module | Models | State and actions |
|---|---|---|
| `Nonce` | `GetNonce` | per goroutine `at`, the clock it read, the value it loaded. `Call` reads the clock, `Load`, then `CasSucceeds` or `CasFails`, `Return`. `issued` is a history of the nonces in the order of return, with the number of calls that had returned when each began. |
| `AtomicNonce` | what it promises | `Ask`, an indivisible `Take`, `Return`. |
| `WSPost` | `PostRequest` and the answers | ids are taken, registered, written, waited for and cleaned up as separate steps; `reading` is the reader with an answer in hand; `slot` the one-slot channels; `registered` and `closed` sets of ids. `conn` may be nil (before `Connect`, or between a reconnect's teardown and dial), and a write may never end: both leave the call hung with `ws.mu` held for good (`WriteHangs`, `muHeld`). The server answers any number of times. |
| `RequestReply` | what it promises | a call sends one request and ends once, with its own answer or without. |
| `WSRegistry` | registry and dispatch | `subscriptions`; `channelHandlers` as slice headers (length, capacity, array) over shared arrays, because `removeSubscription` shifts the array in place under a reader that walks it; subscriptions are numbered. Each region under `ws.mu` is one action, the write to the server another. `Receive` copies the header, `Pick` and `Send` walk it without the lock. |
| `WSConnection` | life cycle | `Connect` holds no lock: the assignments that others can come between are actions of their own, for users and for `reconnect` alike; readers, ping handlers and reconnects are numbered like the connection they belong to. The registry is a set of keys. |
| `ClientRequest` | routing and fallback | a call takes a nonce, is routed, posted, and possibly sent again over HTTP. The exchange executes an action unless its nonce was used. The post is used as `RequestReply` promises it, the nonce as `AtomicNonce` does. |
| `ActionCalls` | what a signed call may rely on when it goes through `MakeUniversalRequest` | calls are made, or fail at once; each emits its action, ends with success or error; `wire` holds actions that may be executed at any later time or never, also after their call has ended with an error. |
| `ExchangeService` | the methods that ask first | EXTENDS `ActionCalls`: sending, executing and returning are its steps, to which this module adds what they mean here. Per caller where it is between asking and sending; per call its task: coin, side, size, what it will cancel. `meta` and `spotMeta` are the coins the fetched maps have; an order for any other coin goes to asset id 0 or 10000. The exchange is external: positions, resting orders, partial fills, reduce-only. |
| `FanoutHub` | `onData`, cache, hub, sessions | what is done under `topic.mu` is one action; `Publish` walks a copy: `Offer` tests `closed`, `Send` sends, `DropSlow` removes. Streams and WebSocket clients have their own steps. A feed whose send panics is `broken`; one that panics closing a channel again is `locked`, since `topic.mu` stays held; the hub goes on without it. A panic in a session's own goroutine ends the process (`crashed`). |
| `TradeRing` | the ring buffer of `cache.go` | no state of its own: `Add`, `GetRecent`, `GetAll` on a record, with the index arithmetic of the code, next to `LastTrades`, what they should return. |
| `OrderedDelivery` | what the hub promises | per session what it was offered and kept, offered and lost, and took. |
| `StreamLimiter` | `ratelimit.go` | `Lookup`, `Create`, `Touch`, `Acquire`, `Release`: steps of a session inside the limiter, so that `Cleanup` may come between any two. Limiters are objects that may outlive their entry in the map. `byDefault` holds the keys whose limiter `Allow` created. |
| `Upstream` | `upstream/manager.go` | `Subscribe` is two steps (the map, then `pool.Submit`) with `streamsMu` held in between; `Stop` is three. A worker ends by its context or by a panic that the pool recovers (`StreamPanics`), after which its stream stays in the map. |
| `RelayAdmission` | the two composed by a session | where each session is between arrival and release, for gRPC streams, WebSocket connections, their messages, and requests. |
| `Usage` | `usage.go` | a recorder finds its buffer (`Lookup`, `Create`), then adds to it without a lock, one field per step; `flushLoop` takes the map, empties each buffer field by field (`SwapField`) and writes the row, or fails to. Buffers are objects that a recorder may still hold when they have been written. |
| `Tables` | the rows behind the caches | status of tenants and keys, limits of plans; one statement is one step. |
| `AuthCache` | `auth.go` | per goroutine: cache looked up, row queried, checked, put. Every change of a row, invalidation, cleanup and tick of the clock may come between. `raced` are the keys of which a goroutine had the old row in hand when the row changed or the key was invalidated. |
| `PlanCache` | `plan.go` | a query and its store, a statement and its delete, each two steps; a query that fails (`QueryPlanFails`) and a statement that takes effect but is reported as failed (`UpdatePlanFails`). `missed` are the plans of such statements, `overtaken` those whose entry was deleted while a goroutine had the old row to store. |
| `ControlPlane` | both over the same tables | a change of a plan reaches the one cache and not the other. |

`MC*` modules instantiate them: each has the constants of its scenarios and the
symmetry sets. `PromiseProofs` (about `Nonce` and `WSPost`), `RegistryProofs`,
`ConnectionProofs`, `ClientProofs`, `ServiceProofs`, `HubProofs`, `RelayProofs` and
`ControlProofs` (about `ControlPlane` and `Usage`) hold the proofs. Definitions
whose comment begins with "Mutation of" are altered forms of the definition that
follows; they show that a property depends on the detail they change, and no
specification uses them.

Composition: `RelayAdmission` EXTENDS `StreamLimiter` and `Upstream` and says
when each takes a step. `FanoutHub` starts where it ends: it has one feed per
symbol, because `FedByOne` of `RelayAdmission` says so, and the panic that
`FedByOne` excepts is the one of its `Send` and `DropSlow`.
`ClientRequest` sits on top of the promises of `Nonce` and `WSPost`, which are
checked and proved to implement `AtomicNonce` and `RequestReply`.
Client and service meet in `ActionCalls`: `ClientRequest` implements it (`CallsSpec`,
checked and proved), and `ExchangeService` takes its steps (`ServiceUsesCalls`). The
refinement maps the copies of an action that is yet to be executed to one action
on its way (`Underway`), and what the caller is told to success or error (`Told`). That
a copy of an executed action still travels cannot be seen from above, because the
exchange refuses its nonce. `FanoutHub` uses `TradeRing` as its trade history and implements
`OrderedDelivery`. `ControlPlane` EXTENDS `AuthCache` and `PlanCache`, which
share `Tables`.
`WSConnection` and `WSRegistry` see each other only through what they share: the
first reduces the registry to a set of keys, and has the re-subscription of a
reconnect; the second reduces the connection to "open or not".

## 3. The runs

Each passing run finishes within two and a half minutes with two workers.
Each property has a mutant in `PROJECT.json`: a definition of the model changed
the way a plausible bug would change the code, under which TLC finds the
property violated.

| Run | Instance | Shows |
|---|---|---|
| `MCNonce` | 2 goroutines, 4 calls, clock values 1, 2, 4 in any order | `UniqueNonces`, `RealTimeOrder`; `EveryCallReturns`; the loop implements `AtomicNonce` |
| `MCWSPost` | 2 callers, 2 requests in all, `ws.conn` nil or not, writes that may never end | `PostInv`, `OwnAnswer`, `WaiterReachable`; `EveryPostReturns`; posts implement `RequestReply` |
| `MCWSRegistry` | 2 callers, 3 keys of which two share a channel and one has a user, 2 subscriptions and a message in all, buffers of 1 | `RegistryInv`, `RegisteredListedOnce`, `QuietAgreement` |
| `MCWSConnection` | one user, 3 calls of any kind, 2 connections, dials that may fail | `ConnectionInv`, `SingleWatch`, `DropNoticed`, `ReconnectCompletes` |
| `MCClientRequest` | 2 callers, 3 calls, disconnects | `ClientInv`, `RejectedIsOwnCopy`; the client implements `ActionCalls` (`CallsSpec`) |
| `MCExchangeService` | 2 callers, 3 calls, 2 perpetuals and a spot coin, maps that have all coins, some or none, coins named to the methods of the wrong market | `ServiceInv`, `CloseOnlyReduces`, `CancelsExactly` |
| `MCFanoutHub` | one stream, one WebSocket client with 3 requests, one feed with 3 updates (two books, three trades), buffers of 1, threshold 1, trade history of 2 | `HubInv`, `NoGap`, `SlowIsCutOff`, `CacheAhead`, `RecentTrades`; the hub implements `OrderedDelivery` |
| `MCRelayAdmission` | 2 sessions of one key, a plan of 1 stream, 2 symbols, 1 worker, with symmetry of sessions and of symbols | `RelayInv`, `NoLostSlot`, `WithinLimit`, `FedByOne`, `StopNeverWaits` |
| `MCUsage` | 2 goroutines, 2 calls on one key, peaks up to 2 | `UsageInv`, `Conserved`; `StoppedIsFlushed` |
| `MCControlPlane` | one key, tenant and plan with two limits, 2 goroutines, lifetime 1, 3 ticks, expiry at 2, statements that fail after their effect | `ControlInv`, `ClearedStaysOut`, `PlanCacheAgrees`, `StaleAtMostTTL` |

`ServiceInv`, `ClientInv`, `ControlInv`, `UsageInv`, `PostInv`, `RegistryInv`,
`ConnectionInv`, `HubInv` and `RelayInv` are the inductive invariants of their
modules: types, the named properties, and what ties them together.

Two runs refute a statement of the repository; the finding in `PROJECT.json`
quotes it.

| Run | Statement | What the code does |
|---|---|---|
| `MCWSConnectionResub` | "Resubscribe to all active subscriptions" (`websocket.go:903`) | every key is still in the map and therefore skipped: the new connection streams nothing |
| `MCFanoutHubPanic` | a slow consumer is dropped or disconnected (`docs/relay-core-design.md:307`) | `Publish` tests `closed` and then sends, and `Unsubscribe` may close in between: the send panics, the pool recovers it, the rest of the subscribers do not get the update and the symbol is not fed any more |

Section 5 lists others. Where the formula of such a statement is short it is
kept at the end of its module (`WSConnection.ReadErrorRecovered`,
`WSRegistry.NoPanic`, `Usage.AverageKept`, `AuthCache.RevokedRefused`); TLC
refutes each under its module's instance.

### Bounds, and why they are enough

* Two callers, goroutines or sessions: every race in this code is between two
  parties (two goroutines on the counter, a caller and the reader, a session and
  the cleanup). A third adds repetitions of the same pairs. Safety of nonces,
  posts, connections, calls, orders, the hub, admission, usage and the caches is
  also proved for any number.
* `MaxSubs`, `MaxMessages`: two subscriptions give a replacement, a removal from
  the front or the back of a slice of two, and a shift under a dispatch. One message
  is enough: a dispatch leaves nothing to the next but the buffers, and a walk over
  an array that was shifted and appended to meanwhile offers it twice to one handler,
  whose buffer of one may then be full.
* `MaxConns = 2`: a connection and its successor, so that old goroutines meet the
  new connection's channel. `MaxCalls` (three operations) covers connect,
  disconnect, connect.
* `MaxUpdates = 3`: the first fills a buffer of one, the second is dropped, the
  third is dropped again, which is past the threshold of one; three trades in a
  history of two wrap round it. `MaxOps = 3`: a client subscribes, is cut off or
  unsubscribes, subscribes its closed subscriber again, and unsubscribes it. One
  symbol, since symbols share only sessions; the proofs
  cover any number of them.
* `MCExchangeService`: two callers are two `ClosePosition`s at once, or one method
  that asks while another call's action is still on its way; the third call makes
  the position or the order they are about. Sizes are one, since a fill may be
  partial or zero anyway. Two perpetuals tell the named coin from the one with
  id 0; `meta` with and without the other one, and a spot coin named to
  `LimitOrder` and the reverse, are the ways to miss a map. The proofs cover the rest.
* `MCUsage`: two calls are two reports racing for one buffer, or one that crosses a
  flush; a swap of the map, whatever it interrupts, can happen at every step, and
  any number of times. Two keys never share anything but the loop.
* `MCControlPlane`: one key suffices, as entries never interact; two limits are two
  versions of a plan, so that an update can be overtaken, missed and repeated;
  three ticks outlive a lifetime of one and an expiry at two.
* `PoolSize = 1` with two symbols: the pool is exhausted as soon as one is fed.
  100 workers and 101 symbols behave alike.
* `Limit = 2` in `MCWSPost` leaves room for two overlapping calls, or one that
  reuses nothing of its predecessor's. Numbers of `Times` skip 3 so that the
  counter can fall behind and run ahead of the clock.
* Deadlock is not checked where a bound ends the behaviour (all calls are made)
  and a client may fall silent for good, which is legal. `MCRelayAdmission` has no
  such end and checks it.

### Fairness

* `Nonce`: a goroutine in the loop keeps running (the Go scheduler); nobody is
  obliged to call, and a compare-and-swap fails only when the counter moved.
* `WSPost`: a call in progress keeps running and its 30 s timer fires. Server,
  network and user owe nothing, and a write need not end: it has no deadline, and
  the timer starts after it. `EveryPostReturns` therefore promises the return of
  a call only as long as nobody keeps `ws.mu` for good (`muHeld`).
* `WSConnection`: goroutines run, sleeps, dials and writes end (that a write may
  not is the subject of `WSPost`), tickers tick. A select
  with both the ticker and a closed stop channel ready takes either, so only
  strong fairness makes a handler see the stop. Users and failures owe nothing.
* `Usage`: `flushLoop` is a goroutine of its own that keeps running, and the ticker
  ticks. When the context is cancelled and the ticker is ready as well, the
  select takes either; that it takes the cancellation some day is strong
  fairness of `FinalFlush`, since each tick it loses to is followed by another
  choice. Recorders owe nothing.
* All others are checked for safety only. That `Stop` is not blocked by a
  subscriber is stated as an invariant (`StopNeverWaits`): once `Stop` has begun,
  the guard of its next step holds (`CancelReady`, `ReleaseReady`,
  `CancelEachReady`), or the session that holds `streamsMu` is past waiting for a
  worker (`SubmitReady`). The guards are operators that the actions themselves use.

## 4. The proofs

TLAPS checks these for every value of the constants (any set of goroutines or
callers, any bound, any clock).

* `PromiseProofs`, first half. `NonceTyping`; `NonceInvariant`, the inductive invariant
  `NonceInv`; from it `NonceUnique`, `NonceAtLeastNow`, `NonceRealTimeOrder`,
  `NonceRetryMeansProgress`; and `NonceImplementsAtomic`, the refinement.
  `UniqueNonces` is not inductive: a call that has won its compare-and-swap but
  has not returned holds a nonce that no entry of `issued` shows. `NonceInv`
  therefore says that the counter covers everything handed out or about to be
  (`CounterCoversAll`), that pending results are new and differ
  (`PendingIsFresh`), and that they exceed whatever their call has seen
  (`SeenIsPast`). The one interesting step is a successful compare-and-swap: the
  counter is still what the call loaded, so the new nonce is above everything.
  Assumption: the clock's values are natural numbers.
* `PromiseProofs`, second half. `PostTypeOK`; `PostInvariant` for `PostInv`; from it
  `PostOwnAnswer`, `PostRegisteredAreOpen`, `PostRegisteredInUse`,
  `PostWaiterReachable`; and `PostImplementsRequestReply`. `OwnAnswer` needs that
  two calls never have one id (`UniqueIds`), that nothing in flight carries an id
  that is yet to be taken (`IdsTaken`, `FreshBeforeRegister`), and that a message
  under a call's id is about its request (`MessagesMatch`), whichever way it came.
* `RegistryProofs`. `RegistryInvariant` for `RegistryInv`; from it
  `RegistryListedOnce`, and `RegistryOnlySendPanics`: no caller closes a channel
  twice, so that the reader's send is all that can panic. `RegistryQuietAgreement`
  is proved together with the invariant, being inductive with it.
  - What `append` and the removal in place do to an array is stated once for every
    slice somebody may hold of it (`AppendWrites`, `RemoveShifts`): its elements
    stay, or become ones of the channel whose slice was changed. With
    `ArraysInPlace`, that two channels share no array, this is all that a reader in
    the middle of a walk needs (`Moves`, `ReaderInPlace`).
  - A channel lists each subscription at one place (`ListedInPlace`), so a removal
    takes exactly the one asked for from the list (`RemoveLists`) and every other
    registered one stays listed (`RegisteredInPlace`), with an open channel.
  - `QuietAgreement` is about moments between calls and rests on what a call in
    progress has established: a key nobody else touches is registered when its
    subscription is about to be written, and not registered when its end is
    (`CallsInPlace`). A call may find its user listed and register nothing; that its
    own key is then registered needs `UsersInPlace`, that of an undisturbed key with
    a user no replaced subscription stays listed.

  Assumption: `RegistryAssumption` (a key has a channel and a user parameter, a
  subscription's channel has room for a message).
* `ConnectionProofs`. `ConnectionInvariant` for `ConnectionInv`; from it
  `ConnectionSingleWatch`. That a client which believes it is connected is watched
  (`Watched`) has to survive every race of `Connect`, which holds no lock, with
  itself and with everyone else. It is stated for moments when no `Connect` is half
  done and rests on three facts. A stop channel is open whenever no `Connect` is half
  done, so the ping handler that listens to it lives (`StopsInPlace`). A `Connect`
  under way has a connection that no other has (`FreshInPlace`), whose ping handler
  will be its last assignment. And a handler that gives up on a client with
  `isConnected` set does start a reconnect, because `manualDisconnect` is then
  clear, or some `Connect` is about to clear it (`IntentInPlace`). `SingleWatch` is
  about clients left alone; `LeftAloneInPlace` says that exactly one of all the
  goroutines is busy with such a client, and that its ping handler listens to the
  channel that the next reconnect will close. Assumption: `ConnectionAssumption`
  (users are not connections, a bound on connections and calls).
* `ClientProofs`. `ClientInvariant` for `ClientInv`; from it `ClientOkIsExecuted`,
  `ClientRejectedIsOwnCopy`, and `ClientKeepsPromise`, that the client implements
  `ActionCalls`: every step is one of `Make`, `Fail`, `Emit`, `Execute`, `End`, or
  nothing that can be seen from above, like the second copy of the fallback, a
  refusal by the exchange, or an info request. "At most once" is not inductive. It
  rests on two facts: a nonce identifies its call (`NoncesInPlace`: it was above
  all others when taken, and the fallback does not take another), and an action is
  executed exactly when the exchange has accepted its nonce (`ExecutedInPlace`).
  Assumption: what `AtomicNonce` promises, which `NonceImplementsAtomic` proves of
  the code.
* `ServiceProofs`. `ServiceInvariant` for `ServiceInv`; from it
  `ServiceCloseReduces`, `ServiceCancelsExactly` and `ServiceOkCancels`. The first
  follows from the reduce-only flag alone, whatever position was read; the second
  needs that what a call sends is what it found (`CancelsInPlace`) and that an order
  has one number (`OrdersInPlace`), so that a cancel that names asset and number
  names the order it was made for. The third, that success means gone, needs in
  addition that nothing a call has found comes back once it was executed
  (`ExecutedCancels`): an order that was open when somebody asked was executed, and
  no action is executed twice. `ServiceUsesCalls` closes the composition: the
  methods use `ActionCalls` and nothing else of the client, so what is proved here
  holds on top of what `ClientKeepsPromise` says of the code below. Assumption:
  `ServiceAssumption` (the markets are disjoint and have a coin with id 0). Where
  an order rests is part of `ServiceInv` (`OnNamedCoin`) for any maps and any coin
  named: on that coin if the map of its market has it, on the one with id 0 if not.
  The theorems on cancels are about the coins that the map of the perpetuals has
  (`Cancellable`).
* `HubProofs`. `HubInvariant` for `HubInv`; from it `HubCacheAhead`,
  `HubRecentTrades`, `HubSlowIsCutOff` and `HubNoGap`; and `HubDeliversInOrder`, that
  the hub implements `OrderedDelivery`.
  - A feed publishes to a copy of the list of subscribers; whoever is on it is
    subscribed still, or was closed meanwhile (`FeedsInPlace`). That
    `activeSubscribers` agrees with the lists (`CountAgrees`) counts the sessions
    between the list and the counter, and the repeated subscriptions, which are
    counted for good.
  - `NoGap` is proved by following one orderbook: it is after the snapshot, so its
    feed has yet to reach the subscriber (it is on its way), or has reached it
    (delivered or counted as lost), or panicked before its turn (`BrokenOff`), which
    a feed does once, so that this can be said of its last update only; `CacheCurrent` says that a snapshot misses
    nothing but what its feed has not stored yet. `SlowIsCutOff` needs that only
    the feed about to close a subscriber has seen it pass the threshold.
  - That updates come in order (`ChannelsInOrder`) needs that nobody is on his way to
    be offered what he was offered before (`OffersInOrder`).
  - The trade buffer needs no induction over the array: the log of trades is a
    variable, `Holds` relates each slot to an entry of the log, and one `Add`
    moves every slot at most once (`AddHolds`, `SlotsMove`); `GetRecent` and
    `GetAll` then return the end of the log (`RecentIsLast`, `AllIsLast`).

  Assumptions: `FanoutAssumption` (finite sets, a buffer of at least one),
  `TradeRingAssumption` (at least one slot).
* `ControlProofs`, first half. `ControlInvariant` for `ControlInv`; from it
  `ControlClearedStaysOut`, `ControlPlanCacheAgrees` and `ControlStaleAtMostTTL`.
  The last needs `OvertakenLater`: an entry that differs from the database is
  older than the change, and nobody has an old row in hand, but for the `raced`
  keys. That a key or plan enters `raced`, `missed` or `overtaken` is decided when
  the row changes or the entry is deleted, by who has an old row in hand at that
  moment and never by what is put later; the theorems then say that nothing put or
  stored later is old, which needs `OvertakenLater` for the one cache and
  `StoresAgree` (what a goroutine is about to store is the row) for the other. Assumptions:
  `TablesAssumption` (keys have a tenant, a plan and an expiry), `AuthAssumption`,
  `PlanAssumption` (the zero limit is no plan's).
* `ControlProofs`, second half. `UsageInvariant` for `UsageInv`; from it `UsageConserved` and
  `UsageLateOnlyAcrossFlush`. `Conserved` is a balance: each step adds what it
  records to one of five amounts (`TotalAdds`), or moves an amount to the next
  place (`TotalToBatch`, `TotalToHand`, `TotalToRow`). That the place is the right
  one needs to know which buffer is whose: no buffer belongs to two keys or to both
  maps, and the number of a call that is about to create one is in no use
  (`OneKeyPerBuffer`); a call keeps to a buffer of its key (`CallsInPlace`); what
  `Flush` has not taken is not in its hands (`FlushInPlace`). `CallsInPlace` also says
  that a compare-and-swap of the peak raises it. Assumption: `UsageAssumption`.
* `RelayProofs`. `RelayInvariant` for `RelayInv`, defined at the end of
  `RelayAdmission`; from it `RelayTypeOK`, `RelayNoLostSlot`, `RelayWithinLimit`,
  `RelayFedByOne` and `RelayStopNeverWaits`. The two halves never write each other's
  variables, so each has an invariant of its own (`UpstreamInv`, `LimiterInv`) that
  every step preserves; what ties them to the sessions is `LockInPlace`.
  - `FedByOne` holds of each symbol whose worker has not panicked; `panicked` has
    streams of the map only. It needs that a stream is in the map under its own symbol and that
    the one being submitted is in the map and not running (`StreamsInPlace`).
  - `NoLostSlot` is not inductive: a release looks its limiter up again and may
    reach another one than the acquire did. `SlotsDue` counts only the sessions
    whose release will reach the registered limiter, which is what a release
    can take away from; it needs to know where limiters and holders can be
    (`LimitersInPlace`, `HoldersServe`).
  - `WithinLimit` follows from `UnracedCounted`: for a key whose limiter was
    never removed under a session the count is exact. That it is measured against
    the plan needs `SlotsLimited` (the streams are at most the slots of the
    registered limiter) and `LimitsGiven` (those are the plan's, or `DefaultRPS` if
    `Allow` created it).
  - Streams and limiters are numbered by the models, which reuse a number that
    nothing refers to. That there always is one is a pigeonhole argument
    (`UnusedIsFree`, `UnreferencedIsFree`): fewer than `PoolSize + 1` streams run,
    and keys and sessions together refer to fewer limiters than there are.

  Assumptions: `LimiterAssumption`, `UpstreamAssumption` (the sets are finite,
  plans and the pool have a size) and `AdmissionAssumption` (`Nobody` is no
  session). Each is checked by the run.

Out of the prover's reach and left to TLC: liveness under fairness
(`EveryCallReturns`, `EveryPostReturns`, `DropNoticed`, `ReconnectCompletes`,
`StoppedIsFlushed`) and what recursive definitions compute for every input. Every
other property of a passing run is the subject of a theorem: the invariants, the
action properties and the four refinements (`AtomicNonce`, `RequestReply`,
`ActionCalls`, `OrderedDelivery`, all of them safety) hold for all values of the
constants.

## 5. Behaviour of the code that the models contain

The models follow the code in these points too. No property that holds mentions
them, and no run is spent on them.

Client:

* `Connect` clears `manualDisconnect`, so a `reconnect` that was already waiting
  undoes a `Disconnect` (`websocket.go:249, 789`).
* `DisconnectForTesting` stops the ping handler, so the reconnection that
  its test expects never happens (`websocket.go:286`, `websocket_test.go:66`).
* A second `Connect` can leave two ping handlers, or one that waits on its
  successor's or on a nil channel (`websocket.go:227, 821`).
* `ws.conn` is nil before the first `Connect` and between the teardown and the
  dial of a reconnect; a read, ping, subscribe or post then panics
  (`websocket.go:325, 875, 1394`). A post panics with `ws.mu` held, and its deferred
  function locks `ws.mu` again (`websocket.go:1367`): the goroutine hangs, and
  `ws.mu` is lost to everyone (`WSPost.WriteHangs`).
* No write has a deadline. A post, a ping and a subscription write with `ws.mu` held:
  one that never ends has the same effect, and the 30 s of a post begin only after
  its write (`websocket.go:1394, 1405`).
* A reader whose connection was replaced may find out late: its read error then
  clears the `isConnected` that the new connection has set (`websocket.go:330`), and
  a working connection is neither used for posts nor pinged. `ReconnectCompletes`
  promises `isConnected` only when no old reader was left before the dial.
* `Disconnect` closes the response channels, so waiting posts return the zero
  response with a nil error (`websocket.go:1401`), which becomes an empty success
  in `requestViaWebSocket`; the README's fallback (`README.md:99`) does not apply,
  nor does it to info requests.
* Two subscriptions of one user and channel race past the check for an existing
  one (`websocket.go:680`); the second of two is otherwise refused silently.
* Re-subscribing a key appends a second handler; the replaced one stays listed
  and its goroutine is never ended (`websocket.go:715`).
* A removal shifts the array under a dispatch, which then skips a handler or
  serves one twice (`websocket.go:1078`).
* The reader clears `isConnected` on a read error and leaves the rest to the ping
  handler (`websocket.go:330`), which does nothing while it is false
  (`websocket.go:780`): such a connection is not replaced
  (`WSConnection.ReadErrorRecovered`).
* "If no pong received within 45 seconds" (`websocket.go:784`) compares the time of
  the last ping sent, which a 30 s ticker keeps from ever being that old.
* A dispatch sends on a channel that an `Unsubscribe` closed after the slice was
  copied (`websocket.go:439`); `TestWebSocketConcurrentAccess`
  (`websocket_test.go:992`) expects no panic (`WSRegistry.NoPanic`).
* `SlippagePrice` returns 0 when the price cannot be asked
  (`exchange_service.go:93`), and the order is placed at that price: `AskPrice`
  goes on to send whatever the answer is.
* A refused withdrawal comes back with a nil error: `WithdrawResponse` has no field
  for the refusal's text (`exchange_types.go:267`), so the body unmarshals and only
  its `Status` tells. `Told` counts it as an error.
* The exchange service makes an `InfoAPI` of its own that never gets the
  WebSocket: what it asks always goes over HTTP. `Withdraw` passes a pointer that
  `requestViaWebSocket` does not know, and always uses HTTP too.
* A coin that the map lacks gives asset id 0, 10000 for a spot order
  (`convert.go:46`), and the order is placed on that other coin: a coin that was
  mistyped or listed after the map was fetched, a spot coin named to `LimitOrder` or
  `MarketOrder`, which always look in the map of the perpetuals
  (`exchange_service.go:304, 390`), and every coin when the map could not be
  fetched. `OnNamedCoin` says which orders these are.
* Cancels and `BulkModify` look spot coins up in the map of the perpetuals:
  `CancelAllOrders` and `CancelAllOrdersByCoin` report success and leave spot orders
  resting (`exchange_service.go:455, 472`), although their comments say "Cancel all
  open orders" and "Cancel all orders for a given coin" (460, 443).
  `CancelsExactly` and `OkCancels` promise the coins that map has, and leave open
  what happens to the others.
* `CancelAllOrdersByCoin` without such orders sends an empty cancel.

Relay:

* The drop count of a subscriber is never reset, so it is not the count of
  consecutive drops the design speaks of (`docs/relay-core-design.md:168`).
* A WebSocket client may get updates before its snapshot
  (`docs/hl-relay-architecture.md:71`) and stays subscribed after it has gone,
  until it is cut off as slow (`docs/relay-core-design.md:306`).
* A key's limiter is created by whoever comes first; `Allow` creates it with the
  default rate as its number of streams, not the plan's
  (`docs/relay-core-design.md:235`). `WithinLimit` measures against the plan and
  gives a key the default rate only while its limiter is one that `Allow` created;
  in `MCRelayAdmission` such a key has two streams on a plan of one. It excepts keys
  whose limiter was removed between a session's lookup and its use: two limiters
  then count one key's streams.
* `Publish` may send on a channel that its owner's `Unsubscribe` has closed since
  (`fanout.go:117-121`), or close it again (`fanout.go:90`). It runs in a worker of
  the pool (`manager.go:130`; ants v2.9.1), which recovers and logs the panic, so
  the relay goes on; but the subscribers whose turn had not come never get the
  update, neither in their channels nor in `Dropped` (`NoGap`, `BrokenOff`). The
  stream stays in `streams`, uncancelled and without a worker, and every later
  `Subscribe` is told "already subscribed" (`manager.go:116`; `FedByOne`,
  `StreamPanics`). After the second close `topic.mu` stays locked, too, and whoever
  subscribes to or unsubscribes from the symbol waits for ever. The same panic in
  a session's own goroutine is recovered by nobody and ends the process (`crashed`).
* With all 100 workers busy, `Subscribe` waits in `pool.Submit` with `streamsMu`
  held, and so does everyone else, until `Stop`; an Enterprise plan alone may
  have 200 symbols (`docs/control-plane-design.md:208`).
* Limiter and usage keys are `string(rune(id))` (`grpc/server.go:130`,
  `usage.go:131`), and the address of the HTTP server is built with
  `string(rune(port))` (`api/server.go:392`); ids that are no code points
  (surrogates, above 0x10FFFF) share one key.
* Ids of streams are made from the time (`grpc/server.go:251`): two of one
  instant are equal.
* `GetRecent` panics on a negative `count`, which `api/server.go:194` passes on;
  the HTTP middleware recovers.
* Usage: sum and count of latencies are taken one after the other, so a batch may
  have the one without the other; the average of a row is weighted by requests,
  of which MySQL, which evaluates left to right, adds the new ones first; a
  flush without latencies erases the average (`Usage.AverageKept`;
  `docs/control-plane-design.md` 7.3 wants an average). Errors of the statement are
  ignored after the buffer was emptied (`usage.go:203`), and what is recorded
  after the last flush is never written. `Conserved` counts both.
* An update of a tenant or plan that changes nothing affects no rows and is
  answered with "not found"; a plan's cache entry then stays.
* The statement of a plan's update may take effect and be answered with an error
  (`plan.go:168-173`: the context is cancelled, the connection is lost). The entry is
  not deleted then. Neither does the same update again delete it: it affects no
  rows. The plan stays wrong until another update or `ClearCache` (`missed`).
* `docs/control-plane-design.md:289` and 352-353 have a revoked key cleared from the
  cache. A request that read the row before puts it back, and it lets the key in
  for another `cacheTTL` (`AuthCache.RevokedRefused`). `ClearedStaysOut` says when
  an invalidation is final, and does not cover this race.
  Changes of tenants and plans clear nothing.
* The plan cache is a map without a lock or a lifetime: what the race of a query
  with an update leaves there (`plan.go:83`) stays until the next one.
  `PlanCacheAgrees` excepts such plans (`overtaken`).
* The stream interceptor answers an expired, revoked or suspended key with
  `Internal` instead of the code of the unary one.
* `main.go` does not wire the gRPC server, the WebSocket handler, usage, plans,
  tenants or metrics; the models treat them as the packages intend.

## 6. What is not modelled

* Signing, key management, wire formats, JSON and float conversions: stateless.
  A failed signature is `SignFails` in `ClientRequest`, `Finish` in
  `ExchangeService`.
* The matchers of `websocket.go:456-673` by their fields: a message carries the
  key it is for, and a channel matches by key or matches everything.
* Bodies of requests and answers: ok, rejected, error or empty. Prices: whatever
  the price, what `Fillable` lets fill includes what would fill at it, from nothing
  to all. A size is a number of units.
* The clock of the ping handler: when it pings and when it gives up is
  nondeterministic in `WSConnection`. `handlePong` and latencies: nothing depends
  on them.
* The token bucket (`golang.org/x/time/rate`), the worker pool (`ants`), the
  network, the exchange, MySQL and the upstream gateways: external, and as free
  as their interfaces allow. The Redis cache of `auth.go` is a stub that stores
  nothing.
* Methods that read and keep no state: the info service, the REST handlers without
  a subscription, the queries of the usage collector. Creating and listing
  tenants, keys and plans: single statements.
* `RecordMessage` and `RecordError`, which behave as `RecordRequest`; the change of
  the day.
* Health checks and gateway selection of the upstream manager, whose results
  nothing reads; statistics; the trimming of books to a depth;
  `CleanupZombies`, `SetLimit`, `AllowN`, `Wait` and `cache.Layer.Cleanup`, which
  nothing calls (`docs/relay-core-design.md:216` wants the cache cleaned regularly).
* Configuration, logging, metrics.

## 7. Plan

Done: the client (nonces, posts, registry, connection, routing, the exchange
service) and the relay (hub, cache and trades, admission, usage, authentication
and plans). Every safety property of the runs is proved.

The composition of `ExchangeService` with `ClientRequest` is done, through
`ActionCalls`. Next: the keep-alive times as a refinement of the nondeterministic
`PingTick` and `PongTimeout`.

New runs replace or extend instances: a module that refines another can share
its run, and the runs that refute a statement can be exchanged for others of
section 5.
