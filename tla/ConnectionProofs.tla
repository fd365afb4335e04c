-------------------------- MODULE ConnectionProofs --------------------------
(***************************************************************************)
(* Proofs about WSConnection.tla, for any users, any number of connections *)
(* and calls and any keys: the inductive invariant ConnectionInv and, from *)
(* it, SingleWatch.                                                        *)
(***************************************************************************)
EXTENDS WSConnection, FiniteSetTheorems, TLAPS

LEMMA UsersAreNoConns ==
  /\ Conns \subseteq Procs /\ Users \subseteq Procs
  /\ \A u \in Users : u \notin Conns
BY ConnectionAssumption DEF Procs, Conns

-----------------------------------------------------------------------------
(* Types.                                                                  *)

\* What a step leaves alone keeps its type.
LEMMA TypeFrames ==
  /\ NetTypeOK /\ UNCHANGED netVars => NetTypeOK'
  /\ FlagTypeOK /\ UNCHANGED flags => FlagTypeOK'
  /\ PingTypeOK /\ UNCHANGED pingVars => PingTypeOK'
  /\ ReaderTypeOK /\ UNCHANGED readerVars => ReaderTypeOK'
  /\ PingerTypeOK /\ UNCHANGED pingerVars => PingerTypeOK'
  /\ ProcTypeOK /\ UNCHANGED procVars => ProcTypeOK'
BY DEF NetTypeOK, FlagTypeOK, PingTypeOK, ReaderTypeOK, PingerTypeOK, ProcTypeOK,
       netVars, flags, pingVars, readerVars, pingerVars, procVars

LEMMA InitType == Init => TypeOK
<1> SUFFICES ASSUME Init PROVE TypeOK
  OBVIOUS
<1>0. 0 \in 0 .. MaxConns /\ 0 \in 0 .. MaxCalls
  BY ConnectionAssumption
<1> USE <1>0 DEF Init
<1>1. NetTypeOK
  BY DEF NetTypeOK
<1>2. FlagTypeOK
  BY DEF FlagTypeOK
<1>3. PingTypeOK
  BY DEF PingTypeOK
<1>4. ReaderTypeOK /\ PingerTypeOK
  BY DEF ReaderTypeOK, PingerTypeOK
<1>5. ProcTypeOK
  BY DEF ProcTypeOK
<1>6. crashed \in BOOLEAN
  OBVIOUS
<1> QED
  BY <1>1, <1>2, <1>3, <1>4, <1>5, <1>6 DEF TypeOK

\* Dialled connections are counted by their number.
LEMMA DialledCounts ==
  ASSUME ConnsInPlace
  PROVE  /\ Dialled \in 0 .. MaxConns
         /\ {c \in Conns : status[c] # "none"} = 1 .. Dialled
<1>1. PICK n \in 0 .. MaxConns : {c \in Conns : status[c] # "none"} = 1 .. n
  BY DEF ConnsInPlace
<1>2. Cardinality(1 .. n) = n
  BY <1>1, ConnectionAssumption, FS_Interval
<1> QED
  BY <1>1, <1>2 DEF Dialled

\* Closing the connection in use, and stopping its ping handler.
LEMMA CloseType == ASSUME NetTypeOK, CloseConn, conn' \in 0 .. MaxConns PROVE NetTypeOK'
BY DEF CloseConn, NetTypeOK

LEMMA StopType == ASSUME PingTypeOK, StopPinger, pinged' = pinged PROVE PingTypeOK' /\ crashed' \in BOOLEAN
<1>1. crashed' = (pingStopChan \in stopped)
  BY DEF StopPinger
<1>2. crashed' \in BOOLEAN
  BY <1>1
<1> QED
  BY <1>2, ConnectionAssumption DEF StopPinger, PingTypeOK, Conns

LEMMA UserTypes ==
  ASSUME TypeOK, NEW u \in Users, UserCall(u) \/ WriteSubscribe(u) \/ WriteUnsubscribe(u)
  PROVE  TypeOK'
<1> USE DEF TypeOK
<1> USE TypeFrames, UsersAreNoConns
<1>0. \A op : UserBegins(u, op) => calls' \in 0 .. MaxCalls /\ user' \in {"new", "once", "other"}
  <2> TAKE op
  <2> SUFFICES ASSUME UserBegins(u, op)
               PROVE  calls' \in 0 .. MaxCalls /\ user' \in {"new", "once", "other"}
    OBVIOUS
  <2>1. calls' \in 0 .. MaxCalls
    BY ConnectionAssumption DEF UserBegins
  <2>2. user' \in {user, "once", "other"}
    BY DEF UserBegins
  <2> QED
    BY <2>1, <2>2
<1>1. CASE Connect(u)
  <2>1. ProcTypeOK'
    BY <1>1 DEF Connect, Goto, ProcTypeOK
  <2> QED
    BY <1>0, <1>1, <2>1 DEF Connect
<1>2. CASE Disconnect(u)
  <2>1. FlagTypeOK'
    BY <1>2 DEF Disconnect, FlagTypeOK
  <2>2. NetTypeOK'
    BY <1>2, CloseType DEF Disconnect, NetTypeOK
  <2> QED
    BY <1>0, <1>2, <2>1, <2>2, StopType DEF Disconnect
<1>3. CASE DisconnectForTesting(u)
  <2>1. FlagTypeOK'
    BY <1>3 DEF DisconnectForTesting, FlagTypeOK
  <2>2. NetTypeOK'
    BY <1>3, CloseType DEF DisconnectForTesting, NetTypeOK
  <2> QED
    BY <1>0, <1>3, <2>1, <2>2, StopType DEF DisconnectForTesting
<1>4. ASSUME NEW k \in Keys, Subscribe(u, k) \/ Unsubscribe(u, k) PROVE TypeOK'
  <2>1. ProcTypeOK'
    BY <1>4 DEF Subscribe, Unsubscribe, Goto, ProcTypeOK
  <2> QED
    BY <1>0, <1>4, <2>1 DEF Subscribe, Unsubscribe
<1>5. CASE WriteSubscribe(u) \/ WriteUnsubscribe(u)
  <2>1. ProcTypeOK'
    BY <1>5 DEF WriteSubscribe, WriteUnsubscribe, Goto, ProcTypeOK
  <2>2. current[u] \in Keys
    BY <1>5 DEF WriteSubscribe, WriteUnsubscribe, At, ProcTypeOK
  <2>3. NetTypeOK'
    BY <1>5, <2>2 DEF WriteSubscribe, WriteUnsubscribe, NetTypeOK
  <2> QED
    BY <1>5, <2>1, <2>3 DEF WriteSubscribe, WriteUnsubscribe
<1> QED
  BY <1>1, <1>2, <1>3, <1>4, <1>5 DEF UserCall

LEMMA ConnectTypes ==
  ASSUME TypeOK, ConnsInPlace, NEW p \in Procs, ConnectStep(p)
  PROVE  TypeOK'
<1> USE DEF TypeOK
<1> USE TypeFrames
<1>1. CASE DialSucceeds(p)
  <2>1. Dialled + 1 \in 0 .. MaxConns
    BY <1>1, DialledCounts, ConnectionAssumption DEF DialSucceeds
  <2>2. NetTypeOK'
    BY <1>1, <2>1 DEF DialSucceeds, NetTypeOK
  <2>3. ProcTypeOK'
    BY <1>1, <2>1 DEF DialSucceeds, Goto, ProcTypeOK
  <2> QED
    BY <1>1, <2>2, <2>3 DEF DialSucceeds
<1>2. CASE DialFails(p)
  <2>1. ProcTypeOK'
    BY <1>2 DEF DialFails, Goto, ProcTypeOK
  <2> QED
    BY <1>2, <2>1 DEF DialFails
<1>3. CASE StopOld(p)
  <2>1. ProcTypeOK'
    BY <1>3 DEF StopOld, Goto, ProcTypeOK
  <2>2. PingTypeOK'
    BY <1>3 DEF StopOld, PingTypeOK, Conns
  <2> QED
    BY <1>3, <2>1, <2>2 DEF StopOld
<1>4. CASE Install(p)
  <2>1. ProcTypeOK'
    BY <1>4 DEF Install, Goto, ProcTypeOK
  <2>2. NetTypeOK'
    BY <1>4 DEF Install, NetTypeOK, ProcTypeOK
  <2> QED
    BY <1>4, <2>1, <2>2 DEF Install
<1>5. CASE SetConnected(p) \/ ResetFlags(p)
  <2>1. ProcTypeOK'
    BY <1>5 DEF SetConnected, ResetFlags, Goto, ProcTypeOK
  <2>2. FlagTypeOK'
    <3>1. CASE SetConnected(p)
      BY <3>1 DEF SetConnected, FlagTypeOK
    <3>2. CASE ResetFlags(p)
      BY <3>2 DEF ResetFlags, FlagTypeOK
    <3> QED
      BY <1>5, <3>1, <3>2
  <2> QED
    BY <1>5, <2>1, <2>2 DEF SetConnected, ResetFlags
<1>6. CASE Launch(p)
  <2>1. ProcTypeOK'
    <3>1. fresh' \in [Procs -> 0 .. MaxConns]
      BY <1>6, ConnectionAssumption DEF Launch, ProcTypeOK
    <3> QED
      BY <1>6, <3>1 DEF Launch, Goto, ProcTypeOK
  <2>2. PingTypeOK' /\ ReaderTypeOK' /\ PingerTypeOK'
    BY <1>6 DEF Launch, PingTypeOK, ReaderTypeOK, PingerTypeOK, ProcTypeOK
  <2> QED
    BY <1>6, <2>1, <2>2 DEF Launch
<1> QED
  BY <1>1, <1>2, <1>3, <1>4, <1>5, <1>6 DEF ConnectStep

LEMMA WatcherTypes ==
  ASSUME TypeOK, NEW c \in Conns, ReaderStep(c) \/ PingerStep(c) \/ Break(c)
  PROVE  TypeOK'
<1> USE DEF TypeOK
<1> USE TypeFrames
<1>1. CASE ReaderStep(c)
  <2>1. ReaderTypeOK'
    <3>1. CASE ReaderLoop(c)
      BY <3>1 DEF ReaderLoop, ReaderTypeOK, NetTypeOK
    <3>2. CASE ReaderMessage(c) \/ ReaderError(c)
      BY <3>2, ConnectionAssumption DEF ReaderMessage, ReaderError, ReaderTypeOK
    <3> QED
      BY <1>1, <3>1, <3>2 DEF ReaderStep
  <2>2. FlagTypeOK'
    <3>1. CASE ReaderError(c)
      BY <3>1 DEF ReaderError, FlagTypeOK
    <3>2. CASE ReaderLoop(c) \/ ReaderMessage(c)
      BY <3>2 DEF ReaderLoop, ReaderMessage
    <3> QED
      BY <1>1, <3>1, <3>2 DEF ReaderStep
  <2>3. crashed' \in BOOLEAN
    BY <1>1 DEF ReaderStep, ReaderLoop, ReaderMessage, ReaderError
  <2> QED
    BY <1>1, <2>1, <2>2, <2>3 DEF ReaderStep, ReaderLoop, ReaderMessage, ReaderError
<1>2. CASE PingSelect(c) \/ PingStopped(c) \/ PingTick(c)
  <2>1. PingerTypeOK'
    <3>1. CASE PingSelect(c)
      BY <3>1 DEF PingSelect, PingerTypeOK, PingTypeOK
    <3>2. CASE PingStopped(c) \/ PingTick(c)
      BY <3>2, ConnectionAssumption DEF PingStopped, PingTick, PingerTypeOK
    <3> QED
      BY <1>2, <3>1, <3>2
  <2> QED
    BY <1>2, <2>1 DEF PingSelect, PingStopped, PingTick
<1>3. CASE PongTimeout(c) \/ PingFails(c)
  <2>1. PingerTypeOK'
    BY <1>3, ConnectionAssumption DEF PongTimeout, PingFails, Trigger, PingerTypeOK
  <2>2. ProcTypeOK'
    BY <1>3 DEF PongTimeout, PingFails, Trigger, Goto, ProcTypeOK
  <2> QED
    BY <1>3, <2>1, <2>2 DEF PongTimeout, PingFails
<1>4. CASE PingWritten(c)
  <2>1. PingerTypeOK' /\ PingTypeOK'
    BY <1>4 DEF PingWritten, PingerTypeOK, PingTypeOK
  <2> QED
    BY <1>4, <2>1 DEF PingWritten
<1>5. CASE Break(c)
  <2>1. NetTypeOK'
    BY <1>5 DEF Break, NetTypeOK
  <2> QED
    BY <1>5, <2>1 DEF Break
<1> QED
  BY <1>1, <1>2, <1>3, <1>4, <1>5 DEF PingerStep

LEMMA ReconnectTypes ==
  ASSUME TypeOK, ConnsInPlace, NEW c \in Conns, ReconnectStep(c)
  PROVE  TypeOK'
<1> USE DEF TypeOK
<1> USE TypeFrames, UsersAreNoConns
<1>1. CASE ReconnectStart(c)
  <2>1. ProcTypeOK' /\ FlagTypeOK'
    BY <1>1 DEF ReconnectStart, Goto, ProcTypeOK, FlagTypeOK
  <2> QED
    BY <1>1, <2>1 DEF ReconnectStart
<1>2. CASE SaveSubscriptions(c)
  <2>1. ProcTypeOK'
    BY <1>2 DEF SaveSubscriptions, Goto, ProcTypeOK
  <2> QED
    BY <1>2, <2>1 DEF SaveSubscriptions
<1>3. CASE Teardown(c)
  <2>1. ProcTypeOK' /\ FlagTypeOK'
    BY <1>3 DEF Teardown, Goto, ProcTypeOK, FlagTypeOK
  <2>2. conn' \in 0 .. MaxConns
    BY <1>3, ConnectionAssumption DEF Teardown
  <2> QED
    BY <1>3, <2>1, <2>2, CloseType, StopType DEF Teardown
<1>4. CASE ConnectStep(c)
  BY <1>4, ConnectTypes
<1>5. CASE \E k \in Keys : ResubCheck(c, k)
  <2>1. ProcTypeOK'
    BY <1>5 DEF ResubCheck, Goto, ProcTypeOK
  <2> QED
    BY <1>5, <2>1 DEF ResubCheck
<1>6. CASE ResubWrite(c)
  <2>1. ProcTypeOK'
    BY <1>6 DEF ResubWrite, At, Goto, ProcTypeOK
  <2>2. current[c] \in Keys
    BY <1>6 DEF ResubWrite, At, ProcTypeOK
  <2>3. NetTypeOK'
    BY <1>6, <2>2 DEF ResubWrite, NetTypeOK
  <2> QED
    BY <1>6, <2>1, <2>3 DEF ResubWrite
<1>7. CASE ResubAdd(c)
  <2>1. ProcTypeOK'
    BY <1>7 DEF ResubAdd, At, Goto, ProcTypeOK
  <2>2. current[c] \in Keys
    BY <1>7 DEF ResubAdd, At, ProcTypeOK
  <2> QED
    BY <1>7, <2>1, <2>2 DEF ResubAdd
<1>8. CASE ReconnectEnds(c)
  <2>1. ProcTypeOK'
    BY <1>8 DEF ReconnectEnds, Goto, ProcTypeOK
  <2> QED
    BY <1>8, <2>1 DEF ReconnectEnds
<1> QED
  BY <1>1, <1>2, <1>3, <1>4, <1>5, <1>6, <1>7, <1>8 DEF ReconnectStep

LEMMA NextType ==
  ASSUME TypeOK, ConnsInPlace, [Next]_vars
  PROVE  TypeOK'
<1>1. CASE \E u \in Users : UserCall(u) \/ UserContinues(u)
  BY <1>1, UserTypes, ConnectTypes, UsersAreNoConns DEF UserContinues
<1>2. CASE \E c \in Conns : ReaderStep(c) \/ PingerStep(c) \/ ReconnectStep(c) \/ Break(c)
  BY <1>2, WatcherTypes, ReconnectTypes
<1>3. CASE UNCHANGED vars
  BY <1>3, TypeFrames DEF vars, TypeOK
<1> QED
  BY <1>1, <1>2, <1>3 DEF Next

-----------------------------------------------------------------------------
(* Steps that are no business of the watch: what users do with             *)
(* subscriptions, what readers and re-subscriptions do, a reconnect on its *)
(* way to the teardown, and a break.                                       *)

Away == {"idle", "write", "unwrite", "resub", "resubWrite", "resubAdd", "done"}

Moves(p) ==
  \/ pc'[p] = pc[p]
  \/ pc[p] \in Away /\ pc'[p] \in Away /\ (p \in Conns => pc[p] # "idle")
  \/ Replacing(p) /\ Replacing(p)'

CalmStep ==
  /\ UNCHANGED <<conn, manualDisconnect, pingStopChan, stopped, pingerVars, fresh, user>>
  /\ isConnected' => isConnected
  /\ crashed => crashed'
  /\ \A c \in Conns : (status'[c] = "none") <=> (status[c] = "none")
  /\ \A p \in Procs : Moves(p)

LEMMA CalmCases ==
  ASSUME TypeOK, ConnsInPlace, [Next]_vars
  PROVE  \/ CalmStep
         \/ \E u \in Users : Connect(u) \/ Disconnect(u) \/ DisconnectForTesting(u)
         \/ \E p \in Procs : ConnectStep(p)
         \/ \E c \in Conns : PingerStep(c) \/ Teardown(c)
<1> USE UsersAreNoConns DEF TypeOK, Moves, Away
<1>1. ASSUME NEW u \in Users, NEW k \in Keys, Subscribe(u, k) \/ Unsubscribe(u, k)
      PROVE  CalmStep
  <2>1. user' = user
    BY <1>1 DEF Subscribe, Unsubscribe, UserBegins
  <2>2. \A p \in Procs : Moves(p)
    BY <1>1 DEF Subscribe, Unsubscribe, UserBegins, At, Goto, ProcTypeOK
  <2> QED
    BY <1>1, <2>1, <2>2 DEF Subscribe, Unsubscribe, UserBegins, CalmStep, netVars, flags, pingVars, pingerVars
<1>2. ASSUME NEW u \in Users, WriteSubscribe(u) \/ WriteUnsubscribe(u)
      PROVE  CalmStep
  <2>1. \A p \in Procs : Moves(p)
    BY <1>2 DEF WriteSubscribe, WriteUnsubscribe, At, Goto, ProcTypeOK
  <2> QED
    BY <1>2, <2>1 DEF WriteSubscribe, WriteUnsubscribe, At, CalmStep, flags, pingVars, pingerVars
<1>3. ASSUME NEW c \in Conns, ReaderStep(c)
      PROVE  CalmStep
  <2>1. UNCHANGED <<netVars, manualDisconnect, pingVars, pingerVars, procVars, user>>
    BY <1>3 DEF ReaderStep, ReaderLoop, ReaderMessage, ReaderError, flags
  <2>2. ~crashed /\ (isConnected' => isConnected)
    BY <1>3 DEF ReaderStep, ReaderLoop, ReaderMessage, ReaderError, flags
  <2> QED
    BY <2>1, <2>2 DEF CalmStep, netVars, pingVars, procVars
<1>4. ASSUME NEW c \in Conns, Break(c)
      PROVE  CalmStep
  BY <1>4 DEF Break, CalmStep, flags, pingVars, procVars, NetTypeOK
<1>5. ASSUME NEW c \in Conns, ReconnectStart(c) \/ SaveSubscriptions(c)
      PROVE  CalmStep
  <2>1. \A p \in Procs : Moves(p)
    BY <1>5 DEF ReconnectStart, SaveSubscriptions, At, Goto, ProcTypeOK, Replacing
  <2> QED
    BY <1>5, <2>1 DEF ReconnectStart, SaveSubscriptions, CalmStep, netVars, flags, pingVars, pingerVars
<1>6. ASSUME NEW c \in Conns,
             (\E k \in Keys : ResubCheck(c, k)) \/ ResubWrite(c) \/ ResubAdd(c) \/ ReconnectEnds(c)
      PROVE  CalmStep
  <2>1. \A p \in Procs : Moves(p)
    BY <1>6 DEF ResubCheck, ResubWrite, ResubAdd, ReconnectEnds, At, Goto, ProcTypeOK
  <2>2. UNCHANGED <<conn, status, flags, pingVars, pingerVars, fresh, user>> /\ ~crashed
    BY <1>6 DEF ResubCheck, ResubWrite, ResubAdd, ReconnectEnds, At, netVars
  <2> QED
    BY <2>1, <2>2 DEF CalmStep, flags, pingVars, pingerVars
<1>7. CASE UNCHANGED vars
  BY <1>7 DEF vars, CalmStep, netVars, flags, pingVars, pingerVars, procVars
<1>8. CASE \E u \in Users : UserCall(u) \/ UserContinues(u)
  BY <1>1, <1>2, <1>8 DEF UserCall, UserContinues
<1>9. CASE \E c \in Conns : ReaderStep(c) \/ PingerStep(c) \/ ReconnectStep(c) \/ Break(c)
  BY <1>3, <1>4, <1>5, <1>6, <1>9 DEF ReconnectStep
<1> QED
  BY <1>7, <1>8, <1>9 DEF Next

\* They take nobody into or out of a Connect, a reconnect or a ping handler.
LEMMA CalmKeeps ==
  ASSUME CalmStep
  PROVE  /\ \A p \in Procs : /\ InConnect(p)' <=> InConnect(p)
                             /\ Replacing(p)' <=> Replacing(p)
                             /\ Connecting(p)' <=> Connecting(p)
                             /\ (pc'[p] = "flags") <=> (pc[p] = "flags")
                             /\ Busy(p)' <=> Busy(p)
         /\ Settled' <=> Settled
         /\ \A g \in Conns : /\ Pinging(g)' <=> Pinging(g)
                             /\ Active(g)' <=> Active(g)
                             /\ pc'[g] # "idle" => pc[g] # "idle"
<1>1. \A p \in Procs : /\ InConnect(p)' <=> InConnect(p)
                       /\ Replacing(p)' <=> Replacing(p)
                       /\ Connecting(p)' <=> Connecting(p)
                       /\ (pc'[p] = "flags") <=> (pc[p] = "flags")
  BY DEF CalmStep, Moves, Away, InConnect, Replacing, Connecting
<1>2. \A g \in Conns : (Pinging(g)' <=> Pinging(g)) /\ (Active(g)' <=> Active(g))
  BY DEF CalmStep, Pinging, Active, pingerVars
<1>3. \A g \in Conns : pc'[g] # "idle" => pc[g] # "idle"
  BY UsersAreNoConns DEF CalmStep, Moves, Away, Replacing
<1> QED
  BY <1>1, <1>2, <1>3 DEF Settled, Busy

\* A connection that is closed had been dialled.
LEMMA CloseKeeps ==
  ASSUME NetTypeOK, ConnsInPlace, CloseConn
  PROVE  \A c \in Conns : (status'[c] = "none") <=> (status[c] = "none")
BY DEF NetTypeOK, ConnsInPlace, CloseConn

\* A user's Connect, Disconnect and DisconnectForTesting, as far as the
\* watch goes.
LEMMA UserEffects ==
  ASSUME TypeOK, ConnsInPlace, NEW u \in Users, Connect(u) \/ Disconnect(u) \/ DisconnectForTesting(u)
  PROVE  /\ UNCHANGED <<conn, pinger, waitOn, fresh>>
         /\ \A c \in Conns : (status'[c] = "none") <=> (status[c] = "none")
         /\ ~crashed /\ pc[u] = "idle"
         /\ \/ /\ Connect(u)
               /\ pc' = [pc EXCEPT ![u] = "dial"]
               /\ UNCHANGED <<isConnected, manualDisconnect, pingStopChan, stopped>>
               /\ user' = IF user = "new" THEN "once" ELSE "other"
            \/ /\ UNCHANGED pc
               /\ ~isConnected'
               /\ pingStopChan' = 0 /\ stopped' = stopped \cup ({pingStopChan} \ {0})
               /\ user' = "other"
<1>1. CASE Connect(u)
  BY <1>1 DEF Connect, UserBegins, At, Goto, netVars, flags, pingVars, pingerVars
<1>2. CASE Disconnect(u)
  BY <1>2, CloseKeeps DEF Disconnect, UserBegins, At, StopPinger, TypeOK, pingerVars, procVars
<1>3. CASE DisconnectForTesting(u)
  BY <1>3, CloseKeeps DEF DisconnectForTesting, UserBegins, At, StopPinger, TypeOK, pingerVars, procVars
<1> QED
  BY <1>1, <1>2, <1>3

LEMMA NextConns ==
  ASSUME TypeOK, ConnsInPlace, FreshInPlace, [Next]_vars
  PROVE  ConnsInPlace'
<1> DEFINE Kept == \A c \in Conns : (status'[c] = "none") <=> (status[c] = "none")
<1>1. ASSUME Kept, conn' \in {conn, 0}, UNCHANGED pinger
      PROVE  ConnsInPlace'
  <2>1. {c \in Conns : status'[c] # "none"} = {c \in Conns : status[c] # "none"}
    BY <1>1
  <2> QED
    BY <1>1, <2>1 DEF ConnsInPlace, TypeOK, NetTypeOK, Conns
<1>2. CASE CalmStep
  BY <1>1, <1>2 DEF CalmStep, pingerVars
<1>3. CASE \E u \in Users : Connect(u) \/ Disconnect(u) \/ DisconnectForTesting(u)
  BY <1>1, <1>3, UserEffects
<1>4. ASSUME NEW p \in Procs, ConnectStep(p)
      PROVE  ConnsInPlace'
  <2>1. CASE DialSucceeds(p)
    <3>1. Dialled \in 0 .. MaxConns - 1 /\ {c \in Conns : status[c] # "none"} = 1 .. Dialled
      BY <2>1, DialledCounts, ConnectionAssumption DEF DialSucceeds
    <3>2. PICK n : n = Dialled
      OBVIOUS
    <3>3. status' = [status EXCEPT ![n + 1] = "up"] /\ UNCHANGED <<conn, pinger>>
      BY <2>1, <3>2 DEF DialSucceeds, pingerVars
    <3>4. {c \in Conns : status'[c] # "none"} = 1 .. n + 1
      BY <3>1, <3>2, <3>3, ConnectionAssumption DEF TypeOK, NetTypeOK, Conns
    <3>5. n + 1 \in 0 .. MaxConns
      BY <3>1, <3>2, ConnectionAssumption
    <3> QED
      BY <3>3, <3>4, <3>5 DEF ConnsInPlace, TypeOK, NetTypeOK, Conns
  <2>2. CASE Install(p)
    <3>1. conn' = fresh[p] /\ UNCHANGED <<status, pinger>> /\ InConnect(p)
      BY <2>2 DEF Install, At, InConnect, pingerVars
    <3>2. status[fresh[p]] # "none"
      BY <3>1 DEF FreshInPlace
    <3> QED
      BY <3>1, <3>2 DEF ConnsInPlace
  <2>3. CASE Launch(p)
    <3>1. UNCHANGED <<status, conn>> /\ pinger' = [pinger EXCEPT ![fresh[p]] = "loop"] /\ InConnect(p)
      BY <2>3 DEF Launch, At, InConnect, netVars
    <3>2. status[fresh[p]] # "none"
      BY <3>1 DEF FreshInPlace
    <3> QED
      BY <3>1, <3>2 DEF ConnsInPlace, TypeOK, PingerTypeOK
  <2>4. CASE DialFails(p) \/ StopOld(p) \/ SetConnected(p) \/ ResetFlags(p)
    BY <1>1, <2>4 DEF DialFails, StopOld, SetConnected, ResetFlags, netVars, pingerVars
  <2> QED
    BY <1>4, <2>1, <2>2, <2>3, <2>4 DEF ConnectStep
<1>5. ASSUME NEW c \in Conns, PingerStep(c)
      PROVE  ConnsInPlace'
  <2>1. UNCHANGED <<status, conn>>
    BY <1>5 DEF PingerStep, PingSelect, PingStopped, PingTick, PongTimeout, PingWritten, PingFails, netVars
  <2>2. pinger[c] # "none" /\ \A d \in Conns \ {c} : pinger'[d] = pinger[d]
    BY <1>5 DEF PingerStep, PingSelect, PingStopped, PingTick, PongTimeout, PingWritten, PingFails,
                Trigger, TypeOK, PingerTypeOK
  <2> QED
    BY <2>1, <2>2 DEF ConnsInPlace
<1>6. ASSUME NEW c \in Conns, Teardown(c)
      PROVE  ConnsInPlace'
  BY <1>1, <1>6, CloseKeeps DEF Teardown, TypeOK, pingerVars
<1> QED
  BY <1>2, <1>3, <1>4, <1>5, <1>6, CalmCases

\* A step of a Connect moves its goroutine alone: DialSucceeds into it,
\* Launch out of it, DialFails not even into it.
LEMMA ConnectMoves ==
  ASSUME TypeOK, NEW p \in Procs, ConnectStep(p)
  PROVE  /\ \A q \in Procs \ {p} : pc'[q] = pc[q] /\ fresh'[q] = fresh[q]
         /\ pc[p] \in {"dial", "stopOld", "install", "connected", "flags", "launch"} /\ ~crashed
         /\ DialSucceeds(p) => pc[p] = "dial" /\ InConnect(p)'
         /\ DialFails(p) => pc[p] = "dial" /\ pc'[p] \in {"idle", "done"}
         /\ Launch(p) => InConnect(p) /\ pc'[p] \in {"idle", "resub"}
         /\ DialSucceeds(p) \/ DialFails(p) \/ Launch(p)
              \/ (InConnect(p) /\ InConnect(p)' /\ UNCHANGED <<status, pinger, waitOn, fresh>>)
<1> USE DEF TypeOK, ProcTypeOK, At, Goto
<1>1. CASE DialSucceeds(p) \/ DialFails(p)
  BY <1>1 DEF DialSucceeds, DialFails, InConnect, StopOld, Install, SetConnected, ResetFlags, Launch
<1>2. CASE StopOld(p) \/ Install(p) \/ SetConnected(p) \/ ResetFlags(p)
  BY <1>2 DEF StopOld, Install, SetConnected, ResetFlags, DialSucceeds, DialFails, Launch, InConnect, netVars, pingerVars
<1>3. CASE Launch(p)
  BY <1>3 DEF Launch, DialSucceeds, DialFails, InConnect
<1> QED
  BY <1>1, <1>2, <1>3 DEF ConnectStep

\* A step of a ping handler moves it alone; at its end it may start the
\* reconnect of its number.
LEMMA PingerMoves ==
  ASSUME TypeOK, StopsInPlace, NEW c \in Conns, PingerStep(c)
  PROVE  /\ UNCHANGED <<conn, status, isConnected, manualDisconnect, pingStopChan, stopped, fresh, user>>
         /\ \A d \in Conns \ {c} : pinger'[d] = pinger[d] /\ waitOn'[d] = waitOn[d]
         /\ \A q \in Procs \ {c} : pc'[q] = pc[q]
         /\ Active(c) /\ pc[c] = "idle" /\ ~crashed
         /\ \/ pc'[c] = "idle" /\ pinger'[c] \in {"loop", "ping"}
            \/ pc'[c] = "idle" /\ pinger'[c] = "waiting" /\ waitOn'[c] = pingStopChan
            \/ PingStopped(c) /\ pc'[c] = "idle" /\ pinger'[c] = "done"
            \/ pinger'[c] = "done" /\ pc'[c] = IF manualDisconnect THEN "idle" ELSE "start"
<1> USE UsersAreNoConns DEF TypeOK, ProcTypeOK, PingerTypeOK, Active
<1>1. Active(c) /\ pc[c] = "idle" /\ ~crashed
  BY DEF PingerStep, PingSelect, PingStopped, PingTick, PongTimeout, PingWritten, PingFails, StopsInPlace
<1>2. CASE PingSelect(c) \/ PingStopped(c) \/ PingTick(c)
  BY <1>1, <1>2 DEF PingSelect, PingStopped, PingTick, netVars, flags, pingVars, procVars
<1>3. CASE PongTimeout(c) \/ PingFails(c)
  <2>1. /\ UNCHANGED <<conn, status, isConnected, manualDisconnect, pingStopChan, stopped, fresh, user>>
        /\ \A d \in Conns \ {c} : waitOn'[d] = waitOn[d]
    BY <1>3 DEF PongTimeout, PingFails, netVars, flags, pingVars
  <2>2. Trigger(c)
    BY <1>3 DEF PongTimeout, PingFails
  <2>3. /\ pinger'[c] = "done" /\ \A d \in Conns \ {c} : pinger'[d] = pinger[d]
        /\ pc'[c] = IF manualDisconnect THEN "idle" ELSE "start"
        /\ \A q \in Procs \ {c} : pc'[q] = pc[q]
    BY <1>1, <2>2 DEF Trigger, Goto
  <2> QED
    BY <1>1, <2>1, <2>3
<1>4. CASE PingWritten(c)
  BY <1>1, <1>4 DEF PingWritten, netVars, flags, procVars
<1> QED
  BY <1>2, <1>3, <1>4 DEF PingerStep

\* The teardown closes the stop channel and forgets the connection.
LEMMA TeardownMoves ==
  ASSUME TypeOK, ConnsInPlace, NEW c \in Conns, Teardown(c)
  PROVE  /\ UNCHANGED <<pinger, waitOn, fresh, manualDisconnect, user>>
         /\ \A d \in Conns : (status'[d] = "none") <=> (status[d] = "none")
         /\ pc[c] = "teardown" /\ pc' = [pc EXCEPT ![c] = "dial"]
         /\ ~isConnected' /\ ~crashed
         /\ pingStopChan' = 0 /\ stopped' = stopped \cup ({pingStopChan} \ {0})
BY CloseKeeps DEF Teardown, At, Goto, StopPinger, pingerVars, TypeOK

LEMMA NextFresh ==
  ASSUME TypeOK, ConnsInPlace, FreshInPlace, StopsInPlace, [Next]_vars
  PROVE  FreshInPlace'
<1> USE UsersAreNoConns DEF TypeOK, ProcTypeOK
<1>0. ASSUME \A c \in Conns : (status'[c] = "none") <=> (status[c] = "none"),
             \A p \in Procs : InConnect(p)' => InConnect(p) /\ fresh'[p] = fresh[p]
                                               /\ (pinger'[fresh[p]] = "none" \/ fresh[p] = 0)
      PROVE  FreshInPlace'
  BY <1>0 DEF FreshInPlace, Conns
<1>1. CASE CalmStep
  BY <1>0, <1>1, CalmKeeps DEF FreshInPlace, CalmStep, pingerVars
<1>2. ASSUME NEW u \in Users, Connect(u) \/ Disconnect(u) \/ DisconnectForTesting(u)
      PROVE  FreshInPlace'
  BY <1>0, <1>2, UserEffects DEF FreshInPlace, InConnect
<1>3. ASSUME NEW p \in Procs, ConnectStep(p)
      PROVE  FreshInPlace'
  <2>1. CASE DialSucceeds(p)
    <3>1. PICK n : n = Dialled
      OBVIOUS
    <3>2. n \in 0 .. MaxConns - 1 /\ {c \in Conns : status[c] # "none"} = 1 .. n
      BY <2>1, <3>1, DialledCounts, ConnectionAssumption DEF DialSucceeds
    <3>3. /\ status' = [status EXCEPT ![n + 1] = "up"] /\ fresh' = [fresh EXCEPT ![p] = n + 1]
          /\ UNCHANGED pinger
      BY <2>1, <3>1 DEF DialSucceeds, pingerVars
    <3>a. n + 1 \in Conns /\ n + 1 \notin 1 .. n /\ n + 1 # 0
      BY <3>2, ConnectionAssumption DEF Conns
    <3>4. n + 1 \in Conns /\ status[n + 1] = "none" /\ n + 1 # 0
      BY <3>2, <3>a
    <3>5. pinger[n + 1] = "none"
      BY <3>4 DEF ConnsInPlace
    <3>6. fresh'[p] = n + 1 /\ status'[n + 1] = "up"
      BY <3>3, <3>4 DEF NetTypeOK
    <3>7. \A q \in Procs \ {p} : InConnect(q)' => InConnect(q) /\ fresh'[q] = fresh[q] /\ fresh[q] # n + 1
      BY <1>3, <3>4, ConnectMoves DEF InConnect, FreshInPlace
    <3>8. \A c \in Conns : status[c] # "none" => status'[c] # "none"
      BY <3>3, <3>4 DEF NetTypeOK
    <3> QED
      BY <3>3, <3>4, <3>5, <3>6, <3>7, <3>8 DEF FreshInPlace, Conns
  <2>2. CASE Launch(p)
    <3>1. InConnect(p) /\ ~InConnect(p)' /\ \A q \in Procs \ {p} : pc'[q] = pc[q] /\ fresh'[q] = fresh[q]
      BY <1>3, <2>2, ConnectMoves DEF InConnect
    <3>2. pinger' = [pinger EXCEPT ![fresh[p]] = "loop"] /\ UNCHANGED status
      BY <2>2 DEF Launch, netVars
    <3>3. \A q \in Procs \ {p} : InConnect(q)' => InConnect(q) /\ fresh[q] # fresh[p]
      BY <3>1 DEF InConnect, FreshInPlace
    <3>4. \A q \in Procs \ {p} : InConnect(q) => fresh[q] \in Conns /\ pinger[fresh[q]] = "none"
      BY DEF FreshInPlace, Conns
    <3> QED
      BY <1>0, <3>1, <3>2, <3>3, <3>4 DEF PingerTypeOK
  <2>3. CASE DialFails(p)
    <3>1. ~InConnect(p)' /\ \A q \in Procs \ {p} : pc'[q] = pc[q] /\ fresh'[q] = fresh[q]
      BY <1>3, <2>3, ConnectMoves DEF InConnect
    <3> QED
      BY <1>0, <2>3, <3>1 DEF DialFails, InConnect, FreshInPlace, netVars, pingerVars
  <2>4. CASE InConnect(p) /\ InConnect(p)' /\ UNCHANGED <<status, pinger, waitOn, fresh>>
    BY <1>0, <1>3, <2>4, ConnectMoves DEF InConnect, FreshInPlace
  <2> QED
    BY <1>3, <2>1, <2>2, <2>3, <2>4, ConnectMoves
<1>4. ASSUME NEW c \in Conns, PingerStep(c)
      PROVE  FreshInPlace'
  <2>1. \A p \in Procs : InConnect(p)' => InConnect(p)
    BY <1>4, PingerMoves DEF InConnect
  <2>2. \A p \in Procs : InConnect(p) => fresh[p] # c /\ fresh[p] \in Conns
    BY <1>4, PingerMoves DEF FreshInPlace, Active, Conns
  <2> QED
    BY <1>0, <1>4, <2>1, <2>2, PingerMoves DEF FreshInPlace
<1>5. ASSUME NEW c \in Conns, Teardown(c)
      PROVE  FreshInPlace'
  BY <1>0, <1>5, TeardownMoves DEF FreshInPlace, InConnect
<1> QED
  BY <1>1, <1>2, <1>3, <1>4, <1>5, CalmCases

LEMMA NextStops ==
  ASSUME TypeOK, ConnsInPlace, FreshInPlace, StopsInPlace, [Next]_vars
  PROVE  StopsInPlace'
<1> USE UsersAreNoConns DEF TypeOK
<1>0. 0 \notin Conns /\ pingStopChan \in {0} \cup Conns /\ stopped \subseteq Conns
  BY DEF PingTypeOK, Conns
<1>1. CASE CalmStep
  <2>1. UNCHANGED <<pinger, pingStopChan, stopped>>
    BY <1>1 DEF CalmStep, pingerVars
  <2> QED
    BY <1>1, <2>1, CalmKeeps DEF StopsInPlace
<1>2. ASSUME NEW u \in Users, Connect(u) \/ Disconnect(u) \/ DisconnectForTesting(u)
      PROVE  StopsInPlace'
  <2>1. UNCHANGED pinger /\ \A c \in Conns : pc'[c] = pc[c]
    BY <1>2, UserEffects DEF ProcTypeOK
  <2>2. CASE pingStopChan' = 0 /\ stopped' = stopped \cup ({pingStopChan} \ {0})
    BY <1>0, <2>1, <2>2 DEF StopsInPlace
  <2>3. CASE UNCHANGED <<pingStopChan, stopped>> /\ pc' = [pc EXCEPT ![u] = "dial"]
    <3>1. Settled' => Settled
      BY <1>2, <2>3, UserEffects DEF Settled, InConnect, ProcTypeOK
    <3> QED
      BY <2>1, <2>3, <3>1 DEF StopsInPlace
  <2> QED
    BY <1>2, <2>2, <2>3, UserEffects
<1>3. ASSUME NEW p \in Procs, ConnectStep(p)
      PROVE  StopsInPlace'
  <2>0. \A c \in Conns : pc'[c] # "idle" => pc[c] # "idle"
    BY <1>3, ConnectMoves
  <2>1. CASE Launch(p)
    <3>1. fresh[p] \in Conns /\ pinger[fresh[p]] = "none"
      BY <1>3, <2>1, ConnectMoves DEF FreshInPlace, ProcTypeOK, Conns
    <3>2. /\ pinger' = [pinger EXCEPT ![fresh[p]] = "loop"] /\ pingStopChan' = fresh[p]
          /\ UNCHANGED stopped
      BY <2>1 DEF Launch
    <3>3. fresh[p] \notin stopped /\ pc[fresh[p]] = "idle"
      BY <3>1 DEF StopsInPlace
    <3> QED
      BY <2>0, <3>1, <3>2, <3>3 DEF StopsInPlace, PingerTypeOK
  <2>2. CASE DialFails(p)
    <3>1. UNCHANGED <<pinger, pingStopChan, stopped>>
      BY <2>2 DEF DialFails, pingVars, pingerVars
    <3>2. Settled' => Settled
      BY <1>3, <2>2, ConnectMoves DEF Settled, InConnect
    <3> QED
      BY <2>0, <3>1, <3>2 DEF StopsInPlace
  <2>3. CASE DialSucceeds(p) \/ StopOld(p) \/ Install(p) \/ SetConnected(p) \/ ResetFlags(p)
    <3>1. pingStopChan' = pingStopChan /\ stopped' \subseteq stopped \cup ({pingStopChan} \ {0})
      BY <2>3 DEF DialSucceeds, StopOld, Install, SetConnected, ResetFlags, pingVars
    <3>2. UNCHANGED pinger
      BY <2>3 DEF DialSucceeds, StopOld, Install, SetConnected, ResetFlags, pingerVars
    <3>3. InConnect(p)'
      BY <2>3 DEF DialSucceeds, StopOld, Install, SetConnected, ResetFlags, Goto, InConnect, ProcTypeOK
    <3> QED
      BY <2>0, <3>1, <3>2, <3>3 DEF StopsInPlace, Settled
  <2> QED
    BY <1>3, <2>1, <2>2, <2>3 DEF ConnectStep
<1>4. ASSUME NEW c \in Conns, PingerStep(c)
      PROVE  StopsInPlace'
  <2>1. Settled' => Settled
    BY <1>4, PingerMoves DEF Settled, InConnect
  <2>2. \A d \in Conns : pc'[d] # "idle" => pinger'[d] = "done"
    BY <1>4, PingerMoves DEF StopsInPlace
  <2>3. \A d \in Conns : pinger[d] # "none" => pinger'[d] # "none"
    BY <1>4, PingerMoves
  <2> QED
    BY <1>4, <2>1, <2>2, <2>3, PingerMoves DEF StopsInPlace
<1>5. ASSUME NEW c \in Conns, Teardown(c)
      PROVE  StopsInPlace'
  BY <1>0, <1>5, TeardownMoves DEF StopsInPlace, ProcTypeOK
<1> QED
  BY <1>1, <1>2, <1>3, <1>4, <1>5, CalmCases

\* A flag is cleared after the other is set, by the same goroutine.
LEMMA NextIntent ==
  ASSUME TypeOK, ConnsInPlace, StopsInPlace, IntentInPlace, [Next]_vars
  PROVE  IntentInPlace'
<1> USE UsersAreNoConns DEF TypeOK, ProcTypeOK
<1>1. CASE CalmStep
  BY <1>1, CalmKeeps DEF CalmStep, IntentInPlace
<1>2. ASSUME NEW u \in Users, Connect(u) \/ Disconnect(u) \/ DisconnectForTesting(u)
      PROVE  IntentInPlace'
  BY <1>2, UserEffects DEF IntentInPlace
<1>3. ASSUME NEW p \in Procs, ConnectStep(p)
      PROVE  IntentInPlace'
  <2>1. CASE SetConnected(p)
    <3>1. pc'[p] = "flags"
      BY <2>1 DEF SetConnected, Goto
    <3> QED
      BY <3>1 DEF IntentInPlace
  <2>2. CASE ResetFlags(p)
    BY <2>2 DEF ResetFlags, IntentInPlace
  <2>3. CASE DialSucceeds(p) \/ DialFails(p) \/ StopOld(p) \/ Install(p) \/ Launch(p)
    <3>1. UNCHANGED <<isConnected, manualDisconnect>>
      BY <2>3 DEF DialSucceeds, DialFails, StopOld, Install, Launch, flags
    <3>2. pc[p] # "flags"
      BY <2>3 DEF DialSucceeds, DialFails, StopOld, Install, Launch, At
    <3> QED
      BY <1>3, <3>1, <3>2, ConnectMoves DEF IntentInPlace
  <2> QED
    BY <1>3, <2>1, <2>2, <2>3 DEF ConnectStep
<1>4. ASSUME NEW c \in Conns, PingerStep(c)
      PROVE  IntentInPlace'
  BY <1>4, PingerMoves DEF IntentInPlace
<1>5. ASSUME NEW c \in Conns, Teardown(c)
      PROVE  IntentInPlace'
  BY <1>5, TeardownMoves DEF IntentInPlace
<1> QED
  BY <1>1, <1>2, <1>3, <1>4, <1>5, CalmCases

\* The last Connect to end leaves a ping handler with an open stop channel;
\* whoever closes that channel clears isConnected or is in a Connect.
LEMMA NextWatched ==
  ASSUME TypeOK, ConnsInPlace, FreshInPlace, StopsInPlace, IntentInPlace, Watched, [Next]_vars
  PROVE  Watched'
<1> USE UsersAreNoConns DEF TypeOK, ProcTypeOK
<1>1. CASE CalmStep
  BY <1>1, CalmKeeps DEF CalmStep, Watched
<1>2. ASSUME NEW u \in Users, Connect(u) \/ Disconnect(u) \/ DisconnectForTesting(u)
      PROVE  Watched'
  <2>1. CASE ~isConnected'
    BY <2>1 DEF Watched
  <2>2. CASE UNCHANGED <<isConnected, stopped>> /\ pc' = [pc EXCEPT ![u] = "dial"]
    <3>1. Settled' => Settled
      BY <1>2, <2>2, UserEffects DEF Settled, InConnect
    <3>2. \A g \in Conns : (Pinging(g)' <=> Pinging(g)) /\ (Replacing(g)' <=> Replacing(g))
      BY <1>2, <2>2, UserEffects DEF Pinging, Replacing
    <3> QED
      BY <1>2, <2>2, <3>1, <3>2, UserEffects DEF Watched
  <2> QED
    BY <1>2, <2>1, <2>2, UserEffects
<1>3. ASSUME NEW p \in Procs, ConnectStep(p)
      PROVE  Watched'
  <2>1. CASE InConnect(p)'
    BY <2>1 DEF Watched, Settled
  <2>2. CASE Launch(p)
    <3>1. fresh[p] \in Conns
      BY <1>3, <2>2, ConnectMoves DEF FreshInPlace, Conns
    <3>2. pinger'[fresh[p]] = "loop"
      BY <2>2, <3>1 DEF Launch, PingerTypeOK
    <3> QED
      BY <3>1, <3>2 DEF Watched, Pinging
  <2>3. CASE DialFails(p)
    <3>1. Settled' => Settled
      BY <1>3, <2>3, ConnectMoves DEF Settled, InConnect
    <3>2. UNCHANGED <<isConnected, stopped, pinger, waitOn, crashed>>
      BY <2>3 DEF DialFails, flags, pingVars, pingerVars
    <3>3. \A g \in Conns : (Pinging(g)' <=> Pinging(g)) /\ (Replacing(g)' <=> Replacing(g))
      BY <1>3, <2>3, <3>2, ConnectMoves DEF Pinging, Replacing
    <3> QED
      BY <3>1, <3>2, <3>3 DEF Watched
  <2> QED
    BY <1>3, <2>1, <2>2, <2>3, ConnectMoves
<1>4. ASSUME NEW c \in Conns, PingerStep(c)
      PROVE  Watched'
  <2> SUFFICES ASSUME isConnected', ~crashed', Settled'
               PROVE  (\E g \in Conns : Pinging(g)') \/ (\E q \in Conns : Replacing(q)')
    BY DEF Watched
  <2>1. isConnected /\ ~crashed /\ Settled
    BY <1>4, PingerMoves DEF Settled, InConnect
  <2>2. ~manualDisconnect
    BY <2>1 DEF IntentInPlace, Settled, InConnect
  <2>3. CASE PingStopped(c) /\ pinger'[c] = "done"
    <3>1. ~Pinging(c) /\ ~Replacing(c)
      BY <1>4, <2>3, PingerMoves DEF PingStopped, Pinging, Replacing
    <3>2. \A g \in Conns \ {c} : /\ pc'[g] = pc[g] /\ pinger'[g] = pinger[g] /\ waitOn'[g] = waitOn[g]
                                 /\ stopped' = stopped
      BY <1>4, PingerMoves
    <3>3. \A g \in Conns \ {c} : (Pinging(g)' <=> Pinging(g)) /\ (Replacing(g)' <=> Replacing(g))
      BY <3>2 DEF Pinging, Replacing
    <3> QED
      BY <2>1, <3>1, <3>3 DEF Watched
  <2>4. CASE pinger'[c] = "done" /\ pc'[c] = "start"
    BY <2>4 DEF Replacing
  <2>5. CASE pinger'[c] \in {"loop", "ping"}
    BY <2>5 DEF Pinging
  <2>6. CASE pinger'[c] = "waiting" /\ waitOn'[c] = pingStopChan
    BY <1>4, <2>1, <2>6, PingerMoves DEF Pinging, StopsInPlace
  <2> QED
    BY <1>4, <2>2, <2>3, <2>4, <2>5, <2>6, PingerMoves
<1>5. ASSUME NEW c \in Conns, Teardown(c)
      PROVE  Watched'
  BY <1>5, TeardownMoves DEF Watched
<1> QED
  BY <1>1, <1>2, <1>3, <1>4, <1>5, CalmCases

\* Of a client that was connected once and then left alone: whoever ends
\* its part of the watch hands it to exactly one other.
LEMMA NextLeftAlone ==
  ASSUME TypeOK, ConnsInPlace, FreshInPlace, StopsInPlace, LeftAloneInPlace, [Next]_vars
  PROVE  LeftAloneInPlace'
<1> USE UsersAreNoConns DEF TypeOK, ProcTypeOK
<1>0. ASSUME user # "other", NEW p \in Procs, Connecting(p)
      PROVE  \A g \in Conns : ~Active(g)
  BY <1>0 DEF LeftAloneInPlace, Busy, Connecting, Replacing, InConnect, StopsInPlace, Active
<1>1. CASE CalmStep
  <2>1. UNCHANGED <<user, manualDisconnect, pingStopChan, pinger, waitOn>>
    BY <1>1 DEF CalmStep, pingerVars
  <2> QED
    BY <1>1, <2>1, CalmKeeps DEF LeftAloneInPlace, Active
<1>2. ASSUME NEW u \in Users, Connect(u) \/ Disconnect(u) \/ DisconnectForTesting(u)
      PROVE  LeftAloneInPlace'
  <2>1. CASE user' = "other"
    BY <2>1 DEF LeftAloneInPlace
  <2>2. CASE user = "new" /\ user' = "once" /\ pc' = [pc EXCEPT ![u] = "dial"]
                /\ UNCHANGED <<manualDisconnect, pingStopChan>>
    <3>1. \A q \in Procs : ~Busy(q)
      BY <2>2 DEF LeftAloneInPlace
    <3>2. Busy(u)' /\ \A q \in Procs \ {u} : ~Busy(q)'
      BY <1>2, <2>2, <3>1, UserEffects DEF Busy, Connecting, Replacing, InConnect, Active
    <3>3. \A g \in Conns : ~Active(g)'
      BY <1>2, <3>1, UserEffects DEF Busy, Active
    <3> QED
      BY <2>2, <3>2, <3>3 DEF LeftAloneInPlace
  <2> QED
    BY <1>2, <2>1, <2>2, UserEffects
<1>3. ASSUME NEW p \in Procs, ConnectStep(p)
      PROVE  LeftAloneInPlace'
  <2>1. CASE DialFails(p)
    BY <2>1 DEF DialFails, LeftAloneInPlace
  <2> SUFFICES ASSUME ~DialFails(p), user # "other"
               PROVE  LeftAloneInPlace'
    BY <1>3, <2>1 DEF ConnectStep, DialSucceeds, StopOld, Install, SetConnected, ResetFlags, Launch, LeftAloneInPlace
  <2>2. Connecting(p) /\ Busy(p)
    BY <1>3, ConnectMoves DEF Connecting, InConnect, Busy
  <2>3. /\ ~manualDisconnect /\ user = "once"
        /\ \A q \in Procs \ {p} : ~Busy(q)
        /\ \A g \in Conns : ~Active(g)
    BY <1>0, <2>2 DEF LeftAloneInPlace
  <2>4. user' = user /\ ~manualDisconnect'
    BY <1>3, <2>3 DEF ConnectStep, DialSucceeds, StopOld, Install, SetConnected, ResetFlags, Launch, flags
  <2>5. CASE Launch(p)
    <3>1. fresh[p] \in Conns /\ ~Connecting(p)'
      BY <1>3, <2>5, ConnectMoves DEF FreshInPlace, Conns, Connecting, Replacing, InConnect
    <3>2. /\ pinger' = [pinger EXCEPT ![fresh[p]] = "loop"]
          /\ pingStopChan' = fresh[p]
      BY <2>5 DEF Launch
    <3>3. \A g \in Conns : Active(g)' <=> g = fresh[p]
      BY <2>3, <3>1, <3>2 DEF Active, PingerTypeOK
    <3>4. \A q \in Procs : ~Connecting(q)'
      BY <1>3, <2>3, <3>1, ConnectMoves DEF Busy, Connecting, Replacing, InConnect
    <3>5. \A q \in Procs : Busy(q)' <=> q = fresh[p]
      BY <3>1, <3>3, <3>4 DEF Busy
    <3>6. \A g \in Conns : Active(g)' => pingStopChan' = g /\ pinger'[g] # "waiting"
      BY <3>1, <3>2, <3>3 DEF PingerTypeOK
    <3> QED
      BY <2>3, <2>4, <3>1, <3>5, <3>6 DEF LeftAloneInPlace
  <2>6. CASE ~Launch(p)
    <3>1. InConnect(p)' /\ UNCHANGED pinger
      BY <1>3, <2>6, ConnectMoves DEF DialSucceeds, pingerVars
    <3>2. \A q \in Procs \ {p} : ~Busy(q)'
      BY <1>3, <2>3, <3>1, ConnectMoves DEF Busy, Connecting, Replacing, InConnect, Active
    <3>3. Busy(p)' /\ \A g \in Conns : ~Active(g)'
      BY <2>3, <3>1 DEF Busy, Connecting, Active
    <3> QED
      BY <2>3, <2>4, <3>2, <3>3 DEF LeftAloneInPlace
  <2> QED
    BY <2>5, <2>6
<1>4. ASSUME NEW c \in Conns, PingerStep(c)
      PROVE  LeftAloneInPlace'
  <2> SUFFICES ASSUME user # "other"
               PROVE  LeftAloneInPlace'
    BY <1>4, PingerMoves DEF LeftAloneInPlace
  <2>1. Busy(c) /\ Active(c)
    BY <1>4, PingerMoves DEF Busy
  <2>2. /\ ~manualDisconnect /\ user = "once" /\ pingStopChan = c
        /\ pinger[c] = "waiting" => waitOn[c] = c
        /\ \A q \in Procs \ {c} : ~Busy(q)
    BY <2>1 DEF LeftAloneInPlace
  <2>3. \A q \in Procs \ {c} : ~Busy(q)'
    BY <1>4, <2>2, PingerMoves DEF Busy, Connecting, Replacing, InConnect, Active
  <2>4. ~PingStopped(c)
    <3>1. Settled
      BY <1>4, <2>2, PingerMoves DEF Settled, Busy, Connecting, InConnect
    <3> QED
      BY <2>2, <3>1 DEF PingStopped, StopsInPlace
  <2>5. CASE pinger'[c] = "done" /\ pc'[c] = "start"
    BY <1>4, <2>2, <2>3, <2>5, PingerMoves DEF LeftAloneInPlace, Busy, Connecting, Replacing, Active
  <2>6. CASE pinger'[c] \in {"loop", "ping"}
    BY <1>4, <2>2, <2>3, <2>6, PingerMoves DEF LeftAloneInPlace, Busy, Active
  <2>7. CASE pinger'[c] = "waiting" /\ waitOn'[c] = pingStopChan
    BY <1>4, <2>2, <2>3, <2>7, PingerMoves DEF LeftAloneInPlace, Busy, Active
  <2> QED
    BY <1>4, <2>2, <2>4, <2>5, <2>6, <2>7, PingerMoves
<1>5. ASSUME NEW c \in Conns, Teardown(c)
      PROVE  LeftAloneInPlace'
  <2> SUFFICES ASSUME user # "other"
               PROVE  LeftAloneInPlace'
    BY <1>5, TeardownMoves DEF LeftAloneInPlace
  <2>1. Connecting(c)
    BY <1>5, TeardownMoves DEF Connecting, Replacing
  <2>2. /\ ~manualDisconnect /\ user = "once"
        /\ \A q \in Procs \ {c} : ~Busy(q)
        /\ \A g \in Conns : ~Active(g)
    BY <1>0, <2>1 DEF LeftAloneInPlace, Busy
  <2>3. Busy(c)' /\ \A q \in Procs \ {c} : ~Busy(q)'
    BY <1>5, <2>2, TeardownMoves DEF Busy, Connecting, Replacing, InConnect, Active
  <2>4. \A g \in Conns : ~Active(g)'
    BY <1>5, <2>2, TeardownMoves DEF Active
  <2> QED
    BY <1>5, <2>2, <2>3, <2>4, TeardownMoves DEF LeftAloneInPlace
<1> QED
  BY <1>1, <1>2, <1>3, <1>4, <1>5, CalmCases

LEMMA ConnectionInit == Init => ConnectionInv
<1> SUFFICES ASSUME Init PROVE ConnectionInv
  OBVIOUS
<1>1. TypeOK
  BY InitType
<1>2. ConnsInPlace
  <2>1. {c \in Conns : status[c] # "none"} = 1 .. 0 /\ 0 \in 0 .. MaxConns
    BY ConnectionAssumption DEF Init
  <2> QED
    BY <2>1 DEF Init, ConnsInPlace
<1>3. \A p \in Procs : ~Busy(p) /\ ~InConnect(p)
  BY DEF Init, Busy, Connecting, Replacing, InConnect, Active
<1>4. FreshInPlace /\ IntentInPlace /\ Watched
  BY <1>3 DEF Init, FreshInPlace, IntentInPlace, Watched
<1>5. StopsInPlace
  BY UsersAreNoConns DEF Init, StopsInPlace, Conns
<1>6. LeftAloneInPlace
  BY <1>3 DEF Init, LeftAloneInPlace, Active
<1> QED
  BY <1>1, <1>2, <1>4, <1>5, <1>6 DEF ConnectionInv

\* Whatever users, ping handlers and reconnects do at the same time: the
\* types, and that a client that believes it is connected is watched
\* (ConnectionInv with its parts, of which Watched is one).
THEOREM ConnectionInvariant == Spec => []ConnectionInv
<1>1. ConnectionInv /\ [Next]_vars => ConnectionInv'
  BY NextType, NextConns, NextFresh, NextStops, NextIntent, NextWatched, NextLeftAlone DEF ConnectionInv
<1> QED
  BY <1>1, ConnectionInit, PTL DEF Spec

\* A client that was connected once and then left alone is watched by one
\* party, through any number of drops and reconnects (pingHandler, reconnect).
THEOREM ConnectionSingleWatch == Spec => []SingleWatch
<1>1. ConnectionInv => SingleWatch
  <2> SUFFICES ASSUME ConnectionInv, user = "once"
               PROVE  Cardinality({g \in Conns : Pinging(g)})
                        + Cardinality({p \in Procs : Connecting(p)}) = 1
    BY DEF SingleWatch
  <2> USE DEF ConnectionInv
  <2>1. PICK w \in Procs : Busy(w) /\ \A q \in Procs : Busy(q) => q = w
    BY DEF LeftAloneInPlace
  <2>2. \A g \in Conns : Pinging(g) => Active(g) /\ Busy(g)
    BY DEF Pinging, Active, Busy
  <2>3. \A p \in Procs : Connecting(p) => Busy(p)
    BY DEF Busy
  <2>4. Cardinality({w}) = 1 /\ Cardinality({}) = 0
    BY FS_EmptySet, FS_Singleton
  <2>5. CASE Connecting(w)
    <3>0. pc[w] # "idle"
      BY <2>5 DEF Connecting, Replacing, InConnect
    <3>1. \A g \in Conns : ~Pinging(g)
      <4> SUFFICES ASSUME NEW g \in Conns, Pinging(g) PROVE FALSE
        OBVIOUS
      <4>1. g = w /\ Active(g)
        BY <2>1, <2>2, UsersAreNoConns
      <4> QED
        BY <3>0, <4>1 DEF StopsInPlace, Active
    <3>2. {g \in Conns : Pinging(g)} = {} /\ {p \in Procs : Connecting(p)} = {w}
      BY <2>1, <2>3, <2>5, <3>1
    <3> QED
      BY <2>4, <3>2
  <2>6. CASE ~Connecting(w)
    <3>1. w \in Conns /\ Active(w)
      BY <2>1, <2>6 DEF Busy
    <3>2. \A p \in Procs : ~Connecting(p)
      BY <2>1, <2>3, <2>6
    <3>3. pingStopChan = w /\ w \notin stopped /\ (pinger[w] = "waiting" => waitOn[w] = w)
      BY <3>1, <3>2 DEF LeftAloneInPlace, StopsInPlace, Settled, Connecting
    <3>4. Pinging(w)
      BY <3>1, <3>3 DEF Pinging, Active
    <3>5. {g \in Conns : Pinging(g)} = {w} /\ {p \in Procs : Connecting(p)} = {}
      BY <2>1, <2>2, <3>1, <3>2, <3>4, UsersAreNoConns
    <3> QED
      BY <2>4, <3>5
  <2> QED
    BY <2>5, <2>6
<1> QED
  BY <1>1, ConnectionInvariant, PTL
=============================================================================
