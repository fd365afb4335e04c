---------------------------- MODULE WSConnection ----------------------------
(***************************************************************************)
(* The connection of websocket.go: Connect, Disconnect,                    *)
(* DisconnectForTesting, the reader (readMessages), the ping handler       *)
(* (pingHandler) and reconnect with its re-subscription.                   *)
(*                                                                         *)
(* Connect runs without ws.mu, so each group of its assignments is a step; *)
(* what the code does under ws.mu is one step.  Each successful Connect    *)
(* starts one reader and one ping handler, numbered like the connection it *)
(* made; a ping handler starts at most one reconnect, numbered like itself.*)
(* A reader looks ws.conn up again before every read and a ping handler    *)
(* looks ws.pingStopChan up again before every select: both may find the   *)
(* successor's, or nil.                                                    *)
(*                                                                         *)
(* The registry is reduced to the set of registered keys (WSRegistry.tla   *)
(* has the rest).  External: the network, which may break a connection at  *)
(* any time, and the server, which streams the keys it was asked for on    *)
(* that connection.                                                        *)
(***************************************************************************)
EXTENDS Naturals, FiniteSets

CONSTANTS Users,        \* goroutines that use the API
          UserOps,      \* the operations they use (a scenario)
          Keys,         \* subscription keys
          DialMayFail,  \* whether a dial can fail
          MaxConns,     \* bound: connections dialled
          MaxCalls      \* bound: operations of the users

AllOps == {"connect", "disconnect", "testing", "subscribe", "unsubscribe"}

ASSUME ConnectionAssumption ==
  /\ UserOps \subseteq AllOps
  /\ DialMayFail \in BOOLEAN
  /\ MaxConns \in Nat \ {0} /\ MaxCalls \in Nat
  /\ Users \cap (1 .. MaxConns) = {}

Conns == 1 .. MaxConns          \* also numbers readers, ping handlers, reconnects
Procs == Users \cup Conns       \* whoever may run Connect

VARIABLES
  conn,            \* ws.conn, 0 for nil
  status,          \* of each connection: "none", "up", "broken" or "closed"
  isConnected, manualDisconnect, reconnectCount,
  pingStopChan,    \* ws.pingStopChan: number of the connect that made it, or 0
  stopped,         \* stop channels that are closed
  pinged,          \* lastPingTime is not the zero time
  reader, readOn,  \* each reader: where it is, and the connection it reads
  pinger, waitOn,  \* each ping handler: where, and the stop channel it selects on
  pc,              \* each user and each reconnect goroutine
  fresh,           \* the connection that a Connect under way has dialled
  saved,           \* of each reconnect: activeSubs, the keys to restore,
  left,            \* those its loop has not come to yet,
  current,         \* and the one in hand (also of a user's call)
  subs,            \* keys registered
  feeds,           \* external: keys streamed on each connection
  calls,           \* operations begun by the users
  user,            \* history: "new", then "once" connected and left alone, or "other"
  crashed          \* a goroutine panicked

flags == <<isConnected, manualDisconnect, reconnectCount>>
pingVars == <<pingStopChan, stopped, pinged>>
netVars == <<conn, status, feeds>>
readerVars == <<reader, readOn>>
pingerVars == <<pinger, waitOn>>
procVars == <<pc, fresh, saved, left, current>>
vars == <<netVars, flags, pingVars, readerVars, pingerVars, procVars, subs, calls, user, crashed>>

NoKey == "none"
Dialled == Cardinality({c \in Conns : status[c] # "none"})

NetTypeOK ==
  /\ conn \in 0 .. MaxConns
  /\ status \in [Conns -> {"none", "up", "broken", "closed"}]
  /\ feeds \in [Conns -> SUBSET Keys]

FlagTypeOK == isConnected \in BOOLEAN /\ manualDisconnect \in BOOLEAN /\ reconnectCount \in Nat

PingTypeOK == pingStopChan \in 0 .. MaxConns /\ stopped \subseteq Conns /\ pinged \in BOOLEAN

ReaderTypeOK ==
  /\ reader \in [Conns -> {"none", "loop", "reading", "done"}]
  /\ readOn \in [Conns -> 0 .. MaxConns]

PingerTypeOK ==
  /\ pinger \in [Conns -> {"none", "loop", "waiting", "ping", "done"}]
  /\ waitOn \in [Conns -> 0 .. MaxConns]

ProcTypeOK ==
  /\ pc \in [Procs -> {"idle", "write", "unwrite", "start", "backoff", "teardown", "dial",
                       "stopOld", "install", "connected", "flags", "launch", "resub",
                       "resubWrite", "resubAdd", "done"}]
  /\ fresh \in [Procs -> 0 .. MaxConns]
  /\ saved \in [Conns -> SUBSET Keys] /\ left \in [Conns -> SUBSET Keys]
  /\ current \in [Procs -> Keys \cup {NoKey}]
  /\ \A p \in Procs : pc[p] \in {"write", "unwrite", "resubWrite", "resubAdd"} => current[p] \in Keys

TypeOK ==
  /\ NetTypeOK /\ FlagTypeOK /\ PingTypeOK /\ ReaderTypeOK /\ PingerTypeOK /\ ProcTypeOK
  /\ subs \subseteq Keys
  /\ calls \in 0 .. MaxCalls /\ user \in {"new", "once", "other"} /\ crashed \in BOOLEAN

Init ==
  /\ conn = 0
  /\ status = [c \in Conns |-> "none"]
  /\ isConnected = FALSE /\ manualDisconnect = FALSE /\ reconnectCount = 0
  /\ pingStopChan = 0 /\ stopped = {} /\ pinged = FALSE
  /\ reader = [c \in Conns |-> "none"] /\ readOn = [c \in Conns |-> 0]
  /\ pinger = [c \in Conns |-> "none"] /\ waitOn = [c \in Conns |-> 0]
  /\ pc = [p \in Procs |-> "idle"] /\ fresh = [p \in Procs |-> 0]
  /\ saved = [c \in Conns |-> {}] /\ left = [c \in Conns |-> {}] /\ current = [p \in Procs |-> NoKey]
  /\ subs = {} /\ feeds = [c \in Conns |-> {}]
  /\ calls = 0 /\ user = "new"
  /\ crashed = FALSE

Goto(p, l) == pc' = [pc EXCEPT ![p] = l]
At(p, l) == ~crashed /\ pc[p] = l

-----------------------------------------------------------------------------
(* Connect, called by a user or by reconnect.                              *)

UserBegins(u, op) ==
  /\ At(u, "idle")
  /\ op \in UserOps
  /\ calls < MaxCalls
  /\ calls' = calls + 1
  /\ user' = CASE op \in {"subscribe", "unsubscribe"} -> user
              [] op = "connect" /\ user = "new" -> "once"
              [] OTHER -> "other"

Connect(u) ==
  /\ UserBegins(u, "connect")
  /\ Goto(u, "dial")
  /\ UNCHANGED <<netVars, flags, pingVars, readerVars, pingerVars, fresh, saved, left, current, subs, crashed>>

DialSucceeds(p) ==
  /\ At(p, "dial")
  /\ Dialled < MaxConns
  /\ LET c == Dialled + 1
     IN  /\ status' = [status EXCEPT ![c] = "up"]
         /\ fresh' = [fresh EXCEPT ![p] = c]
  /\ Goto(p, "stopOld")
  /\ UNCHANGED <<conn, feeds, flags, pingVars, readerVars, pingerVars, saved, left, current, subs, calls, user, crashed>>

\* Connect returns the error; reconnect gives up, and nobody retries.
DialFails(p) ==
  /\ At(p, "dial")
  /\ DialMayFail
  /\ Goto(p, IF p \in Users THEN "idle" ELSE "done")
  /\ user' = "other"
  /\ UNCHANGED <<netVars, flags, pingVars, readerVars, pingerVars, fresh, saved, left, current, subs, calls, crashed>>

\* close(pingStopChan) if there is one; closing it twice panics.
StopOld(p) ==
  /\ At(p, "stopOld")
  /\ stopped' = stopped \cup ({pingStopChan} \ {0})
  /\ crashed' = (pingStopChan \in stopped)
  /\ Goto(p, "install")
  /\ UNCHANGED <<netVars, flags, pingStopChan, pinged, readerVars, pingerVars, fresh, saved, left, current, subs, calls, user>>

Install(p) ==
  /\ At(p, "install")
  /\ conn' = fresh[p]
  /\ Goto(p, "connected")
  /\ UNCHANGED <<status, feeds, flags, pingVars, readerVars, pingerVars, fresh, saved, left, current, subs, calls, user, crashed>>

\* Mutation of SetConnected: isConnected is set by a first Connect only.
SetConnectedFirst(p) ==
  /\ At(p, "connected")
  /\ isConnected' = (isConnected \/ p \in Users)
  /\ Goto(p, "flags")
  /\ UNCHANGED <<netVars, manualDisconnect, reconnectCount, pingVars, readerVars, pingerVars, fresh, saved, left, current, subs, calls, user, crashed>>

SetConnected(p) ==
  /\ At(p, "connected")
  /\ isConnected' = TRUE
  /\ Goto(p, "flags")
  /\ UNCHANGED <<netVars, manualDisconnect, reconnectCount, pingVars, readerVars, pingerVars, fresh, saved, left, current, subs, calls, user, crashed>>

ResetFlags(p) ==
  /\ At(p, "flags")
  /\ manualDisconnect' = FALSE
  /\ reconnectCount' = 0
  /\ Goto(p, "launch")
  /\ UNCHANGED <<netVars, isConnected, pingVars, readerVars, pingerVars, fresh, saved, left, current, subs, calls, user, crashed>>

\* A new stop channel, the zero ping time, and the two goroutines.
Launch(p) ==
  /\ At(p, "launch")
  /\ pingStopChan' = fresh[p]
  /\ pinged' = FALSE
  /\ reader' = [reader EXCEPT ![fresh[p]] = "loop"]
  /\ pinger' = [pinger EXCEPT ![fresh[p]] = "loop"]
  /\ fresh' = [fresh EXCEPT ![p] = IF p \in Users THEN 0 ELSE @]
  /\ Goto(p, IF p \in Users THEN "idle" ELSE "resub")
  /\ UNCHANGED <<netVars, flags, stopped, readOn, waitOn, saved, left, current, subs, calls, user, crashed>>

-----------------------------------------------------------------------------
(* Disconnect and DisconnectForTesting, under the write lock.              *)

CloseConn ==
  /\ status' = IF conn = 0 THEN status ELSE [status EXCEPT ![conn] = "closed"]
  /\ feeds' = IF conn = 0 THEN feeds ELSE [feeds EXCEPT ![conn] = {}]

StopPinger ==
  /\ stopped' = stopped \cup ({pingStopChan} \ {0})
  /\ crashed' = (pingStopChan \in stopped)
  /\ pingStopChan' = 0

Disconnect(u) ==
  /\ UserBegins(u, "disconnect")
  /\ isConnected' = FALSE
  /\ manualDisconnect' = TRUE
  /\ reconnectCount' = 0
  /\ StopPinger
  /\ subs' = {}
  /\ CloseConn
  /\ UNCHANGED <<conn, pinged, readerVars, pingerVars, procVars>>

DisconnectForTesting(u) ==
  /\ UserBegins(u, "testing")
  /\ isConnected' = FALSE
  /\ StopPinger
  /\ CloseConn
  /\ UNCHANGED <<conn, manualDisconnect, reconnectCount, pinged, readerVars, pingerVars, procVars, subs>>

-----------------------------------------------------------------------------
(* Subscribe* and Unsubscribe*: the registry, then the server.             *)

Subscribe(u, k) ==
  /\ UserBegins(u, "subscribe")
  /\ subs' = subs \cup {k}
  /\ current' = [current EXCEPT ![u] = k]
  /\ Goto(u, "write")
  /\ UNCHANGED <<netVars, flags, pingVars, readerVars, pingerVars, fresh, saved, left, crashed>>

Unsubscribe(u, k) ==
  /\ UserBegins(u, "unsubscribe")
  /\ subs' = subs \ {k}
  /\ current' = [current EXCEPT ![u] = k]
  /\ Goto(u, "unwrite")
  /\ UNCHANGED <<netVars, flags, pingVars, readerVars, pingerVars, fresh, saved, left, crashed>>

\* A write needs a connection that is up; ws.conn = nil panics.
Up == conn # 0 /\ status[conn] = "up"

WriteSubscribe(u) ==
  /\ At(u, "write")
  /\ crashed' = (conn = 0)
  /\ feeds' = IF Up THEN [feeds EXCEPT ![conn] = @ \cup {current[u]}] ELSE feeds
  /\ current' = [current EXCEPT ![u] = NoKey]
  /\ Goto(u, "idle")
  /\ UNCHANGED <<conn, status, flags, pingVars, readerVars, pingerVars, fresh, saved, left, subs, calls, user>>

WriteUnsubscribe(u) ==
  /\ At(u, "unwrite")
  /\ crashed' = (conn = 0)
  /\ feeds' = IF Up THEN [feeds EXCEPT ![conn] = @ \ {current[u]}] ELSE feeds
  /\ current' = [current EXCEPT ![u] = NoKey]
  /\ Goto(u, "idle")
  /\ UNCHANGED <<conn, status, flags, pingVars, readerVars, pingerVars, fresh, saved, left, subs, calls, user>>

-----------------------------------------------------------------------------
(* The reader goroutine r.                                                 *)

ReaderLoop(r) ==
  /\ ~crashed
  /\ reader[r] = "loop"
  /\ crashed' = (conn = 0)
  /\ reader' = [reader EXCEPT ![r] = "reading"]
  /\ readOn' = [readOn EXCEPT ![r] = conn]
  /\ UNCHANGED <<netVars, flags, pingVars, pingerVars, procVars, subs, calls, user>>

ReaderMessage(r) ==
  /\ ~crashed
  /\ reader[r] = "reading"
  /\ status[readOn[r]] = "up"
  /\ reader' = [reader EXCEPT ![r] = "loop"]
  /\ readOn' = [readOn EXCEPT ![r] = 0]
  /\ UNCHANGED <<netVars, flags, pingVars, pingerVars, procVars, subs, calls, user, crashed>>

\* Mutation of ReaderError: the deferred assignment is missing.
ReaderErrorSilent(r) ==
  /\ ~crashed
  /\ reader[r] = "reading"
  /\ status[readOn[r]] # "up"
  /\ reader' = [reader EXCEPT ![r] = "done"]
  /\ readOn' = [readOn EXCEPT ![r] = 0]
  /\ UNCHANGED <<netVars, flags, pingVars, pingerVars, procVars, subs, calls, user, crashed>>

ReaderError(r) ==
  /\ ~crashed
  /\ reader[r] = "reading"
  /\ status[readOn[r]] # "up"
  /\ isConnected' = FALSE
  /\ reader' = [reader EXCEPT ![r] = "done"]
  /\ readOn' = [readOn EXCEPT ![r] = 0]
  /\ UNCHANGED <<netVars, manualDisconnect, reconnectCount, pingVars, pingerVars, procVars, subs, calls, user, crashed>>

-----------------------------------------------------------------------------
(* The ping handler g.                                                     *)

PingSelect(g) ==
  /\ ~crashed
  /\ pinger[g] = "loop"
  /\ pinger' = [pinger EXCEPT ![g] = "waiting"]
  /\ waitOn' = [waitOn EXCEPT ![g] = pingStopChan]
  /\ UNCHANGED <<netVars, flags, pingVars, readerVars, procVars, subs, calls, user, crashed>>

PingStopped(g) ==
  /\ ~crashed
  /\ pinger[g] = "waiting"
  /\ waitOn[g] \in stopped
  /\ pinger' = [pinger EXCEPT ![g] = "done"]
  /\ waitOn' = [waitOn EXCEPT ![g] = 0]
  /\ UNCHANGED <<netVars, flags, pingVars, readerVars, procVars, subs, calls, user, crashed>>

\* The ticker: nothing to do unless connected.
PingTick(g) ==
  /\ ~crashed
  /\ pinger[g] = "waiting"
  /\ pinger' = [pinger EXCEPT ![g] = IF isConnected THEN "ping" ELSE "loop"]
  /\ waitOn' = [waitOn EXCEPT ![g] = 0]
  /\ UNCHANGED <<netVars, flags, pingVars, readerVars, procVars, subs, calls, user, crashed>>

\* Mutations of Trigger: no reconnect; the handler goes on after it.
TriggerNot(g) == pinger' = [pinger EXCEPT ![g] = "done"] /\ UNCHANGED pc

TriggerGoesOn(g) ==
  /\ pinger' = [pinger EXCEPT ![g] = "loop"]
  /\ IF manualDisconnect THEN UNCHANGED pc ELSE Goto(g, "start")

\* The handler ends; unless the user disconnected it starts a reconnect.
Trigger(g) ==
  /\ pinger' = [pinger EXCEPT ![g] = "done"]
  /\ IF manualDisconnect THEN UNCHANGED pc ELSE Goto(g, "start")

\* A tick so late that the last ping is more than 45 s old.
PongTimeout(g) ==
  /\ ~crashed
  /\ pinger[g] = "waiting"
  /\ isConnected /\ pinged
  /\ Trigger(g)
  /\ waitOn' = [waitOn EXCEPT ![g] = 0]
  /\ UNCHANGED <<netVars, flags, pingVars, readerVars, fresh, saved, left, current, subs, calls, user, crashed>>

\* A write on a broken connection may still succeed, on a closed one not.
PingWritten(g) ==
  /\ ~crashed
  /\ pinger[g] = "ping"
  /\ conn # 0 => status[conn] \in {"up", "broken"}
  /\ crashed' = (conn = 0)
  /\ pinged' = TRUE
  /\ pinger' = [pinger EXCEPT ![g] = "loop"]
  /\ UNCHANGED <<netVars, flags, pingStopChan, stopped, readerVars, waitOn, procVars, subs, calls, user>>

PingFails(g) ==
  /\ ~crashed
  /\ pinger[g] = "ping"
  /\ conn # 0
  /\ status[conn] \in {"broken", "closed"}
  /\ Trigger(g)
  /\ UNCHANGED <<netVars, flags, pingVars, readerVars, waitOn, fresh, saved, left, current, subs, calls, user, crashed>>

-----------------------------------------------------------------------------
(* reconnect.                                                              *)

ReconnectStart(p) ==
  /\ At(p, "start")
  /\ reconnectCount' = reconnectCount + 1
  /\ Goto(p, "backoff")
  /\ UNCHANGED <<netVars, isConnected, manualDisconnect, pingVars, readerVars, pingerVars, fresh, saved, left, current, subs, calls, user, crashed>>

\* After the backoff, under the read lock: copy the subscriptions.
SaveSubscriptions(p) ==
  /\ At(p, "backoff")
  /\ saved' = [saved EXCEPT ![p] = subs]
  /\ left' = [left EXCEPT ![p] = subs]
  /\ Goto(p, "teardown")
  /\ UNCHANGED <<netVars, flags, pingVars, readerVars, pingerVars, fresh, current, subs, calls, user, crashed>>

\* Under the write lock.
Teardown(p) ==
  /\ At(p, "teardown")
  /\ CloseConn
  /\ conn' = 0
  /\ isConnected' = FALSE
  /\ StopPinger
  /\ Goto(p, "dial")
  /\ UNCHANGED <<manualDisconnect, reconnectCount, pinged, readerVars, pingerVars, fresh, saved, left, current, subs, calls, user>>

\* Under the read lock: "Already subscribed, skipping", or go on to subscribe.
ResubCheck(p, k) ==
  /\ At(p, "resub")
  /\ k \in left[p]
  /\ left' = [left EXCEPT ![p] = @ \ {k}]
  /\ current' = [current EXCEPT ![p] = k]
  /\ Goto(p, IF k \in subs THEN "resub" ELSE "resubWrite")
  /\ UNCHANGED <<netVars, flags, pingVars, readerVars, pingerVars, fresh, saved, subs, calls, user, crashed>>

ResubWrite(p) ==
  /\ At(p, "resubWrite")
  /\ crashed' = (conn = 0)
  /\ feeds' = IF Up THEN [feeds EXCEPT ![conn] = @ \cup {current[p]}] ELSE feeds
  /\ Goto(p, IF Up THEN "resubAdd" ELSE "resub")
  /\ UNCHANGED <<conn, status, flags, pingVars, readerVars, pingerVars, fresh, saved, left, current, subs, calls, user>>

ResubAdd(p) ==
  /\ At(p, "resubAdd")
  /\ subs' = subs \cup {current[p]}
  /\ Goto(p, "resub")
  /\ UNCHANGED <<netVars, flags, pingVars, readerVars, pingerVars, fresh, saved, left, current, calls, user, crashed>>

ReconnectEnds(p) ==
  /\ At(p, "resub")
  /\ left[p] = {}
  /\ current' = [current EXCEPT ![p] = NoKey]
  /\ Goto(p, "done")
  /\ UNCHANGED <<netVars, flags, pingVars, readerVars, pingerVars, fresh, saved, left, subs, calls, user, crashed>>

\* External: the connection c breaks (but is not closed on this side).
Break(c) ==
  /\ ~crashed
  /\ status[c] = "up"
  /\ status' = [status EXCEPT ![c] = "broken"]
  /\ feeds' = [feeds EXCEPT ![c] = {}]
  /\ UNCHANGED <<conn, flags, pingVars, readerVars, pingerVars, procVars, subs, calls, user, crashed>>

-----------------------------------------------------------------------------
ConnectStep(p) ==
  DialSucceeds(p) \/ DialFails(p) \/ StopOld(p) \/ Install(p)
  \/ SetConnected(p) \/ ResetFlags(p) \/ Launch(p)

UserCall(u) ==
  \/ Connect(u) \/ Disconnect(u) \/ DisconnectForTesting(u)
  \/ \E k \in Keys : Subscribe(u, k) \/ Unsubscribe(u, k)

UserContinues(u) == ConnectStep(u) \/ WriteSubscribe(u) \/ WriteUnsubscribe(u)

ReaderStep(r) == ReaderLoop(r) \/ ReaderMessage(r) \/ ReaderError(r)

\* With the ticker and the stop channel both ready, Go's select takes either.
PingerStep(g) ==
  PingSelect(g) \/ PingStopped(g) \/ PingTick(g) \/ PongTimeout(g) \/ PingWritten(g) \/ PingFails(g)

ReconnectStep(p) ==
  \/ ReconnectStart(p) \/ SaveSubscriptions(p) \/ Teardown(p) \/ ConnectStep(p)
  \/ (\E k \in Keys : ResubCheck(p, k)) \/ ResubWrite(p) \/ ResubAdd(p) \/ ReconnectEnds(p)

Next ==
  \/ \E u \in Users : UserCall(u) \/ UserContinues(u)
  \/ \E c \in Conns : ReaderStep(c) \/ PingerStep(c) \/ ReconnectStep(c) \/ Break(c)

Spec == Init /\ [][Next]_vars

\* Goroutines run, tickers tick, sleeps, dials and writes end (a write that
\* never does keeps ws.mu: WSPost.tla); users start nothing
\* they do not want and connections break only if they do.  A ticker always
\* fires again, and a select with a closed channel ready ends (SF: ticks may
\* win some of the races).
FairSpec ==
  /\ Spec
  /\ \A u \in Users : WF_vars(UserContinues(u))
  /\ \A c \in Conns : /\ WF_vars(ReaderStep(c))
                      /\ WF_vars(PingerStep(c)) /\ SF_vars(PingStopped(c))
                      /\ WF_vars(ReconnectStep(c))

-----------------------------------------------------------------------------
InConnect(p) == pc[p] \in {"stopOld", "install", "connected", "flags", "launch"}

\* A reconnect on its way to the teardown of the old connection.
Replacing(p) == pc[p] \in {"start", "backoff", "teardown"}

\* Whoever is making a connection, from the decision to the new ping handler.
Connecting(p) == Replacing(p) \/ pc[p] = "dial" \/ InConnect(p)

\* No Connect is between its dial and its new ping handler.
Settled == \A p \in Procs : ~InConnect(p)

\* A ping handler that has not been told to stop.
Pinging(g) ==
  \/ pinger[g] \in {"loop", "ping"}
  \/ pinger[g] = "waiting" /\ waitOn[g] \notin stopped

\* A client that believes it is connected is being watched: a ping handler
\* runs or a reconnect will replace the connection, whatever connects,
\* disconnects and reconnects have raced before.  Otherwise a dead connection
\* would never be noticed by a write.
Watched ==
  isConnected /\ ~crashed /\ Settled =>
    \/ \E g \in Conns : Pinging(g)
    \/ \E p \in Conns : Replacing(p)

\* Connections are numbered as they are dialled, and what refers to one
\* refers to a dialled one.
ConnsInPlace ==
  /\ \E n \in 0 .. MaxConns : {c \in Conns : status[c] # "none"} = 1 .. n
  /\ conn # 0 => status[conn] # "none"
  /\ \A c \in Conns : pinger[c] # "none" => status[c] # "none"

\* A Connect under way has a connection of its own that has no ping handler
\* yet.
FreshInPlace ==
  \A p \in Procs : InConnect(p) =>
    /\ fresh[p] # 0 /\ status[fresh[p]] # "none" /\ pinger[fresh[p]] = "none"
    /\ \A q \in Procs \ {p} : InConnect(q) => fresh[q] # fresh[p]

\* A reconnect outlives the ping handler that started it; a stop channel
\* belongs to a ping handler that was started, and is open between Connects.
StopsInPlace ==
  /\ \A c \in Conns : pc[c] # "idle" => pinger[c] = "done"
  /\ \A c \in Conns : (c \in stopped \/ c = pingStopChan) => pinger[c] # "none"
  /\ Settled => pingStopChan \notin stopped

\* Only a Connect that is about to clear it leaves manualDisconnect set on a
\* connection that counts as connected: its loss would not be repaired.
IntentInPlace == isConnected /\ manualDisconnect => \E p \in Procs : pc[p] = "flags"

\* Of a client that was connected once and then left alone: one party at a
\* time makes the connection or watches it, and a ping handler listens to
\* the stop channel that the next reconnect will close.
Active(g) == pinger[g] \in {"loop", "waiting", "ping"}
Busy(p) == Connecting(p) \/ (p \in Conns /\ Active(p))

LeftAloneInPlace ==
  user # "other" =>
    /\ ~manualDisconnect
    /\ (user = "once") <=> (\E p \in Procs : Busy(p))
    /\ \A p, q \in Procs : Busy(p) /\ Busy(q) => p = q
    /\ \A g \in Conns : Active(g) => /\ pingStopChan = g
                                     /\ pinger[g] = "waiting" => waitOn[g] = g

\* The inductive invariant: a client that believes it is connected is watched
\* (websocket.go:238, 789), and what that and SingleWatch rest on.
ConnectionInv ==
  /\ TypeOK
  /\ ConnsInPlace /\ FreshInPlace /\ StopsInPlace
  /\ IntentInPlace /\ Watched /\ LeftAloneInPlace

\* A client that was connected once and then left alone (no second Connect,
\* no Disconnect, no failed dial) is at any time pinged by one handler, or
\* being connected by one goroutine: never by two of them and never by none,
\* through any number of drops and reconnects.
SingleWatch ==
  user = "once" =>
    Cardinality({g \in Conns : Pinging(g)}) + Cardinality({p \in Procs : Connecting(p)}) = 1

\* A connection that breaks is noticed: the reader clears isConnected (so
\* that Client.Request goes to HTTP), or another connection is in place.
DropNoticed ==
  \A c \in Conns :
    user = "once" /\ conn = c /\ status[c] = "broken"
      ~> (~isConnected \/ conn # c \/ user # "once" \/ crashed)

\* The connection p dialled is ws.conn and has its reader and its ping handler.
Replaced(p) ==
  fresh[p] # 0 /\ conn = fresh[p] /\ reader[conn] \in {"loop", "reading"} /\ Pinging(conn)

NobodyReads == \A r \in Conns : reader[r] \in {"none", "done"}

\* Once started, a reconnect puts a connection of its own in the place of the
\* old one, with a reader and a ping handler, unless its dial fails, the user
\* interferes or a goroutine panics.  It counts as connected when the old
\* reader was gone before the dial.  An old reader that ends later clears
\* isConnected after the new connection has set it (websocket.go:320, 330),
\* which is then neither used for posts nor pinged.
\* (The reconnect numbered MaxConns has no connection left to dial.)
ReconnectCompletes ==
  \A p \in Conns \ {MaxConns} :
    /\ user = "once" /\ pc[p] = "start" /\ Dialled < MaxConns
         ~> (Replaced(p) \/ user # "once" \/ crashed)
    /\ user = "once" /\ pc[p] = "dial" /\ Dialled < MaxConns /\ NobodyReads
         ~> ((Replaced(p) /\ isConnected) \/ user # "once" \/ crashed)

-----------------------------------------------------------------------------
(* Statements of the comments and tests that the code does not keep.       *)

\* readMessages, on a read error: "Let ping handler handle reconnection": a
\* connection that broke is replaced (Dialled = MaxConns: it was dialled).
ReadErrorRecovered ==
  conn # 0 /\ status[conn] = "broken" /\ Dialled < MaxConns
    ~> (Dialled = MaxConns \/ crashed)

\* reconnect: "Resubscribe to all active subscriptions with retry logic";
\* TestWebSocketReconnectionWithSubscriptions expects data afterwards.
Resubscribed ==
  \A p \in Conns :
    pc[p] = "done" /\ Up /\ fresh[p] = conn /\ (\A u \in Users : pc[u] = "idle")
      => saved[p] \cap subs \subseteq feeds[conn]
=============================================================================
