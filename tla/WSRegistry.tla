----------------------------- MODULE WSRegistry -----------------------------
(***************************************************************************)
(* The subscription registry and the message dispatcher of websocket.go.   *)
(*                                                                         *)
(* A subscription is registered under a key ("l2Book:BTC") in the map      *)
(* subscriptions and listed under its channel name ("l2Book") in           *)
(* channelHandlers, whose values are Go slices.  Callers run Subscribe*    *)
(* and Unsubscribe* (first the registry, then the write to the server) and *)
(* Disconnect; one reader goroutine dispatches each message to the         *)
(* handlers of its channel, on a copy of the slice HEADER taken under the  *)
(* read lock, without the lock; one goroutine per subscription drains the  *)
(* subscription's buffered channel.  Slices are modelled with their        *)
(* backing arrays because removeSubscription shifts the array in place     *)
(* while the reader may be walking it.                                     *)
(*                                                                         *)
(* Each region that the code runs under ws.mu is one step.  How the        *)
(* connection is lost and restored is the subject of WSConnection.tla;     *)
(* here it only opens and closes.  What a reconnect does with the          *)
(* registry, to write to the server and then to add a subscription that    *)
(* was removed meanwhile (ResubCheck, ResubWrite, ResubAdd), is modelled   *)
(* there too, on a set of keys.                                            *)
(***************************************************************************)
EXTENDS Naturals, Sequences

CONSTANTS Callers,     \* goroutines that use the API
          Keys,        \* subscription keys
          Channels,    \* channel names
          ChannelOf,   \* getChannelName of a key's subscription type
          UserOf,      \* the user parameter of a key
          NoUser,      \* a key without one
          MatchAll,    \* channels whose matcher accepts every message
          BufferSize,  \* capacity of a subscription's channel
          MaxSubs,     \* bound: subscriptions created
          MaxMessages  \* bound: messages received

ASSUME RegistryAssumption ==
  /\ ChannelOf \in [Keys -> Channels]
  /\ Keys # {} /\ DOMAIN UserOf = Keys
  /\ MatchAll \subseteq Channels
  /\ BufferSize \in Nat \ {0}
  /\ MaxSubs \in Nat
  /\ MaxMessages \in Nat

NoSub == 0                       \* no subscription under a key
AnyKey == CHOOSE k \in Keys : TRUE  \* of a caller or reader that has none
Subs == 1 .. MaxSubs             \* subscriptions, in order of creation

VARIABLES
  created,          \* created[s]: the key subscription s was made for
  subscriptions,    \* key -> subscription or NoSub
  arrays,           \* backing arrays of the slices, in order of allocation
  channelHandlers,  \* channel name -> slice [arr, len], arr = 0 for nil
  closed,           \* subscriptions whose Go channel is closed
  buffer,           \* contents of each subscription's Go channel
  pc, key,          \* of each caller: where it is, and the key it is about
  open,             \* the connection accepts writes
  feeds,            \* external: keys the server streams on this connection
  unclear,          \* history: keys with overlapping, failed or cut-off calls
  messages,         \* messages received so far
  reader,           \* the dispatcher: [at, msg, slice, next, picked]
  crashed           \* a goroutine panicked, which ends the process

regVars == <<created, subscriptions, arrays, channelHandlers, closed>>
callVars == <<pc, key, unclear>>
connVars == <<open, feeds>>
readVars == <<messages, reader>>
vars == <<regVars, buffer, callVars, connVars, readVars, crashed>>

NilSlice == [arr |-> 0, len |-> 0]
Elem(slice, i) == arrays[slice.arr][i]
Listed(ch) == {Elem(channelHandlers[ch], i) : i \in 1 .. channelHandlers[ch].len}
KeyOf(s) == created[s]
ChanOf(s) == ChannelOf[KeyOf(s)]
Live == 1 .. Len(created)

Slices == [arr : Nat, len : Nat]
InBounds(slice) ==
  \/ slice = NilSlice
  \/ slice.arr \in DOMAIN arrays /\ slice.len \in 0 .. Len(arrays[slice.arr])

RegTypeOK ==
  /\ created \in Seq(Keys) /\ Len(created) <= MaxSubs
  /\ subscriptions \in [Keys -> Subs \cup {NoSub}]
  /\ arrays \in Seq(Seq(Subs \cup {NoSub}))
  /\ channelHandlers \in [Channels -> Slices]
  /\ \A ch \in Channels : InBounds(channelHandlers[ch])
  /\ closed \subseteq Live

CallTypeOK ==
  /\ pc \in [Callers -> {"idle", "check", "insert", "subscribe", "unsubscribe"}]
  /\ key \in [Callers -> Keys] /\ unclear \subseteq Keys

ReadTypeOK ==
  /\ messages \in 0 .. MaxMessages
  /\ reader \in [at : {"read", "pick", "send"}, msg : Keys, slice : Slices, next : Nat,
                 picked : Subs \cup {NoSub}]

TypeOK ==
  /\ RegTypeOK /\ CallTypeOK /\ ReadTypeOK
  /\ open \in BOOLEAN /\ feeds \subseteq Keys
  /\ buffer \in [Subs -> Seq(0 .. MaxMessages)] /\ \A s \in Subs : Len(buffer[s]) <= BufferSize
  /\ crashed \in BOOLEAN

Init ==
  /\ created = <<>>
  /\ subscriptions = [k \in Keys |-> NoSub]
  /\ arrays = <<>>
  /\ channelHandlers = [ch \in Channels |-> NilSlice]
  /\ closed = {}
  /\ buffer = [s \in Subs |-> <<>>]
  /\ pc = [c \in Callers |-> "idle"]
  /\ key = [c \in Callers |-> AnyKey]
  /\ open = TRUE
  /\ feeds = {}
  /\ unclear = {}
  /\ messages = 0
  /\ reader = [at |-> "read", msg |-> AnyKey,
               slice |-> NilSlice, next |-> 1, picked |-> NoSub]
  /\ crashed = FALSE

-----------------------------------------------------------------------------
(* Subscribe*: addSubscription, then the write to the server.              *)

\* A key is unclear from the moment two calls about it overlap, a call's
\* write fails, or the connection closes during a call.
Overlaps(c, k) == \E d \in Callers \ {c} : pc[d] # "idle" /\ key[d] = k
Noting(c, k) == unclear \cup (IF Overlaps(c, k) THEN {k} ELSE {})

Subscribe(c, k) ==
  /\ ~crashed
  /\ pc[c] = "idle"
  /\ Len(created) < MaxSubs
  /\ pc' = [pc EXCEPT ![c] = IF UserOf[k] = NoUser THEN "insert" ELSE "check"]
  /\ key' = [key EXCEPT ![c] = k]
  /\ unclear' = Noting(c, k)
  /\ UNCHANGED <<regVars, buffer, connVars, readVars, crashed>>

\* Under the read lock: the user already has a subscription on this channel.
SameUserListed(k) ==
  \E s \in Listed(ChannelOf[k]) : UserOf[KeyOf(s)] = UserOf[k]

CheckExisting(c) ==
  /\ ~crashed
  /\ pc[c] = "check"
  /\ pc' = [pc EXCEPT ![c] = IF SameUserListed(key[c]) THEN "subscribe" ELSE "insert"]
  /\ UNCHANGED <<regVars, buffer, key, unclear, connVars, readVars, crashed>>

\* Go's append: in place when the array has room, else a copy into an array
\* of twice the length.
Grown(slice) ==
  LET size == IF slice.len = 0 THEN 1 ELSE 2 * slice.len
  IN  [i \in 1 .. size |-> IF i <= slice.len THEN Elem(slice, i) ELSE NoSub]

AppendTo(ch, s) ==
  LET slice == channelHandlers[ch]
      room == slice.arr # 0 /\ slice.len < Len(arrays[slice.arr])
      a == IF room THEN slice.arr ELSE Len(arrays) + 1
      base == IF room THEN arrays ELSE Append(arrays, Grown(slice))
  IN  /\ arrays' = [base EXCEPT ![a][slice.len + 1] = s]
      /\ channelHandlers' = [channelHandlers EXCEPT ![ch] = [arr |-> a, len |-> slice.len + 1]]

\* Under the write lock: a new Subscription replaces whatever the key had.
Insert(c) ==
  LET s == Len(created) + 1
      k == key[c]
  IN  /\ ~crashed
      /\ pc[c] = "insert"
      /\ s <= MaxSubs
      /\ created' = Append(created, k)
      /\ subscriptions' = [subscriptions EXCEPT ![k] = s]
      /\ AppendTo(ChannelOf[k], s)
      /\ pc' = [pc EXCEPT ![c] = "subscribe"]
      /\ UNCHANGED <<closed, buffer, key, unclear, connVars, readVars, crashed>>

\* The write to the server; on an error the registration stays.
WriteSubscribe(c) ==
  /\ ~crashed
  /\ pc[c] = "subscribe"
  /\ pc' = [pc EXCEPT ![c] = "idle"]
  /\ key' = [key EXCEPT ![c] = AnyKey]
  /\ feeds' = IF open THEN feeds \cup {key[c]} ELSE feeds
  /\ unclear' = IF open THEN unclear ELSE unclear \cup {key[c]}
  /\ UNCHANGED <<regVars, buffer, open, readVars, crashed>>

-----------------------------------------------------------------------------
(* Unsubscribe*: removeSubscription, then the write to the server.         *)

\* Mutation of RemoveFrom: the last handler goes, whichever was asked for.
RemoveFromLast(ch, s) ==
  LET slice == channelHandlers[ch]
  IN  /\ channelHandlers' = [channelHandlers EXCEPT ![ch].len = IF @ = 0 THEN 0 ELSE @ - 1]
      /\ UNCHANGED arrays

\* append(handlers[:i], handlers[i+1:]...): shifts the array in place, and
\* leaves the last element where it was.
RemoveFrom(ch, s) ==
  LET slice == channelHandlers[ch]
      at == {i \in 1 .. slice.len : Elem(slice, i) = s}
      first == CHOOSE i \in at : \A j \in at : i <= j
  IN  IF at = {} THEN UNCHANGED <<arrays, channelHandlers>>
      ELSE /\ arrays' = [arrays EXCEPT ![slice.arr] =
                [i \in DOMAIN @ |-> IF first <= i /\ i < slice.len THEN @[i + 1] ELSE @[i]]]
           /\ channelHandlers' = [channelHandlers EXCEPT ![ch].len = slice.len - 1]

\* Mutation of RemoveSubscription: the map keeps the entry.
RemoveSubscriptionKeeps(k) ==
  LET s == subscriptions[k]
  IN  IF s = NoSub
      THEN UNCHANGED <<regVars, crashed>>
      ELSE /\ closed' = closed \cup {s}
           /\ crashed' = (s \in closed)
           /\ RemoveFrom(ChanOf(s), s)
           /\ UNCHANGED <<created, subscriptions>>

RemoveSubscription(k) ==
  LET s == subscriptions[k]
  IN  IF s = NoSub
      THEN UNCHANGED <<regVars, crashed>>
      ELSE /\ closed' = closed \cup {s}
           /\ crashed' = (s \in closed)
           /\ subscriptions' = [subscriptions EXCEPT ![k] = NoSub]
           /\ RemoveFrom(ChanOf(s), s)
           /\ UNCHANGED created

Unsubscribe(c, k) ==
  /\ ~crashed
  /\ pc[c] = "idle"
  /\ RemoveSubscription(k)
  /\ pc' = [pc EXCEPT ![c] = "unsubscribe"]
  /\ key' = [key EXCEPT ![c] = k]
  /\ unclear' = Noting(c, k)
  /\ UNCHANGED <<buffer, connVars, readVars>>

\* Mutation of WriteUnsubscribe: the server is not told.
WriteUnsubscribeNot(c) ==
  /\ ~crashed
  /\ pc[c] = "unsubscribe"
  /\ pc' = [pc EXCEPT ![c] = "idle"]
  /\ key' = [key EXCEPT ![c] = AnyKey]
  /\ UNCHANGED <<regVars, buffer, unclear, connVars, readVars, crashed>>

WriteUnsubscribe(c) ==
  /\ ~crashed
  /\ pc[c] = "unsubscribe"
  /\ pc' = [pc EXCEPT ![c] = "idle"]
  /\ key' = [key EXCEPT ![c] = AnyKey]
  /\ feeds' = IF open THEN feeds \ {key[c]} ELSE feeds
  /\ UNCHANGED <<regVars, buffer, unclear, open, readVars, crashed>>

-----------------------------------------------------------------------------
(* The connection.                                                         *)

\* Disconnect, under the write lock: close every registered channel, forget
\* both maps, close the connection.
InCall == {key[c] : c \in {d \in Callers : pc[d] # "idle"}}
Registered == {subscriptions[k] : k \in Keys} \ {NoSub}

Disconnect(c) ==
  /\ ~crashed
  /\ pc[c] = "idle"
  /\ closed' = closed \cup Registered
  /\ crashed' = (Registered \cap closed # {})
  /\ subscriptions' = [k \in Keys |-> NoSub]
  /\ channelHandlers' = [ch \in Channels |-> NilSlice]
  /\ open' = FALSE
  /\ feeds' = {}
  /\ unclear' = unclear \cup InCall
  /\ UNCHANGED <<created, arrays, buffer, pc, key, readVars>>

\* External: the server or the network drops the connection.  What is still
\* registered has no feed on the next one.
ConnectionLost ==
  /\ ~crashed
  /\ open
  /\ open' = FALSE
  /\ feeds' = {}
  /\ unclear' = unclear \cup InCall \cup {k \in Keys : subscriptions[k] # NoSub}
  /\ UNCHANGED <<regVars, buffer, pc, key, readVars, crashed>>

\* Connect, seen from the registry: it leaves both maps alone.
Connect(c) ==
  /\ ~crashed
  /\ pc[c] = "idle"
  /\ ~open
  /\ open' = TRUE
  /\ UNCHANGED <<regVars, buffer, callVars, feeds, readVars, crashed>>

-----------------------------------------------------------------------------
(* readMessages / processSubscriptionMessage / matchesSubscription.        *)

Matches(s, m) == ChanOf(s) \in MatchAll \/ KeyOf(s) = m

\* A message about key m arrives (it may have left the server before an
\* unsubscribe) and the slice header of its channel is copied.
Receive(m) ==
  /\ ~crashed
  /\ open
  /\ reader.at = "read"
  /\ messages < MaxMessages
  /\ messages' = messages + 1
  /\ reader' = [reader EXCEPT !.at = "pick", !.msg = m, !.next = 1,
                              !.slice = channelHandlers[ChannelOf[m]]]
  /\ UNCHANGED <<regVars, buffer, callVars, connVars, crashed>>

\* The range loop reads the next element of the array as it is now.
Pick ==
  /\ ~crashed
  /\ reader.at = "pick"
  /\ reader.next <= reader.slice.len
  /\ LET s == Elem(reader.slice, reader.next)
     IN  reader' = IF Matches(s, reader.msg)
                   THEN [reader EXCEPT !.at = "send", !.picked = s]
                   ELSE [reader EXCEPT !.next = @ + 1]
  /\ UNCHANGED <<regVars, buffer, callVars, connVars, messages, crashed>>

\* The non-blocking send: a full buffer drops the message for this handler,
\* a closed channel panics.
Send ==
  LET s == reader.picked
  IN  /\ ~crashed
      /\ reader.at = "send"
      /\ crashed' = (s \in closed)
      /\ buffer' = IF s \in closed \/ Len(buffer[s]) = BufferSize THEN buffer
                   ELSE [buffer EXCEPT ![s] = Append(@, messages)]
      /\ reader' = [reader EXCEPT !.at = "pick", !.next = @ + 1]
      /\ UNCHANGED <<regVars, callVars, connVars, messages>>

EndDispatch ==
  /\ ~crashed
  /\ reader.at = "pick"
  /\ reader.next > reader.slice.len
  /\ reader' = [reader EXCEPT !.at = "read", !.msg = AnyKey, !.slice = NilSlice, !.next = 1, !.picked = NoSub]
  /\ UNCHANGED <<regVars, buffer, callVars, connVars, messages, crashed>>

\* The goroutine of subscription s: range over the channel, which also
\* drains what was buffered before the channel was closed.
Handle(s) ==
  /\ ~crashed
  /\ buffer[s] # <<>>
  /\ buffer' = [buffer EXCEPT ![s] = Tail(@)]
  /\ UNCHANGED <<regVars, callVars, connVars, readVars, crashed>>

-----------------------------------------------------------------------------
CallerStep(c) ==
  \/ \E k \in Keys : Subscribe(c, k) \/ Unsubscribe(c, k)
  \/ CheckExisting(c) \/ Insert(c) \/ WriteSubscribe(c) \/ WriteUnsubscribe(c)
  \/ Disconnect(c) \/ Connect(c)

ReaderStep == (\E m \in Keys : Receive(m)) \/ Pick \/ Send \/ EndDispatch

Next ==
  \/ \E c \in Callers : CallerStep(c)
  \/ ReaderStep
  \/ \E s \in Subs : Handle(s)
  \/ ConnectionLost

Spec == Init /\ [][Next]_vars

-----------------------------------------------------------------------------
\* The two views of the registry agree: every registered subscription is
\* listed exactly once, under its own channel name, although removals shift
\* the shared array and appends may write into it.
RegisteredListedOnce ==
  \A k \in Keys : subscriptions[k] # NoSub =>
    LET slice == channelHandlers[ChannelOf[k]]
        at == {i \in 1 .. slice.len : Elem(slice, i) = subscriptions[k]}
    IN  \E i \in at : at = {i}

\* A key that shares its user and channel with another is refused silently
\* (CheckExisting), so only the others can agree with the server.
Solo(k) == \A j \in Keys \ {k} :
             UserOf[k] = NoUser \/ UserOf[j] # UserOf[k] \/ ChannelOf[j] # ChannelOf[k]

\* The client and the server agree about a key whose calls did not overlap,
\* whose writes did not fail and whose connection was not lost: between
\* calls, it is registered exactly when the server streams it.
QuietAgreement ==
  \A k \in Keys \ unclear :
    Solo(k) /\ (\A c \in Callers : pc[c] # "idle" => key[c] # k)
      => (subscriptions[k] # NoSub <=> k \in feeds)

\* Slices of two channels share no array, also not after the many times that
\* they have grown into new ones.
ArraysInPlace ==
  \A ch, other \in Channels :
    ch # other /\ channelHandlers[ch].arr # 0 => channelHandlers[ch].arr # channelHandlers[other].arr

\* A channel lists subscriptions of its own, each at one place.
ListedInPlace ==
  \A ch \in Channels : LET slice == channelHandlers[ch] IN
    \A i \in 1 .. slice.len :
      /\ Elem(slice, i) \in Live /\ ChanOf(Elem(slice, i)) = ch
      /\ \A j \in 1 .. slice.len : Elem(slice, i) = Elem(slice, j) => i = j

\* A subscription found in the map was made for its key, is listed, and has an
\* open channel: neither removeSubscription nor Disconnect ever closes a
\* channel twice, however re-subscriptions, unsubscriptions and disconnects
\* interleave.
RegisteredInPlace ==
  \A k \in Keys : LET s == subscriptions[k] IN
    s # NoSub => s \in Live /\ KeyOf(s) = k /\ s \notin closed /\ s \in Listed(ChannelOf[k])

\* The reader walks an array that only its message's channel ever wrote to:
\* wherever removals shift it and appends write into it, the reader finds
\* subscriptions of that channel, and sends to those that match.
ReaderInPlace ==
  LET slice == reader.slice
      ch == ChannelOf[reader.msg]
  IN  /\ InBounds(slice)
      /\ \A other \in Channels : slice.arr # 0 /\ channelHandlers[other].arr = slice.arr => other = ch
      /\ \A i \in 1 .. slice.len : Elem(slice, i) \in Live /\ ChanOf(Elem(slice, i)) = ch
      /\ reader.next \in 1 .. slice.len + 1
      /\ reader.at = "send" => /\ reader.picked \in Live /\ ChanOf(reader.picked) = ch
                               /\ Matches(reader.picked, reader.msg)
                               /\ reader.next <= slice.len

\* Calls that overlap on a key are noted, and what a call in progress has
\* established for a clear key still holds.
CallsInPlace ==
  /\ \A c, d \in Callers :
       c # d /\ pc[c] # "idle" /\ pc[d] # "idle" /\ key[c] = key[d] => key[c] \in unclear
  /\ \A c \in Callers :
       /\ pc[c] = "check" => UserOf[key[c]] # NoUser
       /\ key[c] \notin unclear =>
            /\ pc[c] = "subscribe" /\ Solo(key[c]) => subscriptions[key[c]] # NoSub
            /\ pc[c] = "unsubscribe" => subscriptions[key[c]] = NoSub
            /\ pc[c] = "insert" /\ UserOf[key[c]] # NoUser =>
                 \A s \in Listed(ChannelOf[key[c]]) : KeyOf(s) # key[c]

\* Of a clear key with a user no replaced subscription stays listed: the
\* check for an existing one finds what is registered.
UsersInPlace ==
  \A k \in Keys \ unclear : UserOf[k] # NoUser =>
    \A s \in Listed(ChannelOf[k]) : KeyOf(s) = k => subscriptions[k] = s

\* The inductive invariant: the types, that nothing registered can be closed
\* twice (websocket.go:1069), and what the two properties above rest on.
RegistryInv ==
  /\ TypeOK
  /\ ArraysInPlace /\ ListedInPlace /\ RegisteredInPlace /\ ReaderInPlace
  /\ CallsInPlace /\ UsersInPlace
  /\ ~open => feeds = {}

-----------------------------------------------------------------------------
(* Statements of the comments and tests that the code does not keep.       *)

\* TestWebSocketConcurrentAccess subscribes and unsubscribes from ten
\* goroutines while messages arrive, and expects no panic.
NoPanic == ~crashed
=============================================================================
