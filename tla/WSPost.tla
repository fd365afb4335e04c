------------------------------- MODULE WSPost -------------------------------
(***************************************************************************)
(* Request and response over the WebSocket (websocket.go: PostRequest,     *)
(* handlePostResponse, the post part of Disconnect).                       *)
(*                                                                         *)
(* A call takes an id from the atomic nextPostID, registers a one-slot Go  *)
(* channel under it in postResponses, writes the request and waits for the *)
(* channel or 30 s.  The reader goroutine looks an arriving response up by *)
(* id and sends without blocking.  Disconnect closes every registered      *)
(* channel.  Each region under ws.mu is one step.                          *)
(*                                                                         *)
(* ws.mu can be lost: the request is written with ws.mu held and without a *)
(* deadline, so a write that never ends keeps it; and on a nil ws.conn the *)
(* write panics, the deferred function locks ws.mu again, and the call     *)
(* hangs with ws.mu held.  From then on no step that locks ws.mu is taken. *)
(*                                                                         *)
(* External: the server, which answers a request it received any number of *)
(* times, at any time or never, while the connection it came on is open.   *)
(***************************************************************************)
EXTENDS Naturals

CONSTANTS Callers,   \* goroutines that call PostRequest
          Limit      \* bound: calls made in one behaviour

ASSUME PostAssumption == Limit \in Nat

VARIABLES
  nextPostID,   \* the atomic counter
  registered,   \* ids in the postResponses map
  closed,       \* ids whose Go channel Disconnect closed
  slot,         \* responses in the Go channels, each of which holds one
  pc,           \* where each caller is in PostRequest
  id,           \* its postID
  outcome,      \* how its call ended
  got,          \* the request its response answers (0: none)
  conn,         \* ws.conn: nil, an open connection, or one that is closed
  muHeld,       \* ws.mu is held for good
  asked,        \* external: requests the server holds
  answers,      \* external: responses on their way to the client
  reading,      \* the response handlePostResponse is about to look up
  made,         \* history: calls made, which numbers the requests
  request,      \* history: the request of each caller's call
  answered      \* history: the requests the server has answered

clientVars == <<nextPostID, registered, closed, slot, pc, id, outcome, got>>
serverVars == <<conn, asked, answers, reading, answered>>
vars == <<clientVars, serverVars, muHeld, made, request>>

Message == [id : Nat, req : Nat]
Locations == {"idle", "register", "write", "wait", "cleanup", "hung"}
Connections == {"nil", "open", "closed"}
Outcomes == {"none", "answer", "empty", "timeout", "failed"}

TypeOK ==
  /\ nextPostID \in Nat
  /\ registered \subseteq Nat /\ closed \subseteq Nat
  /\ slot \subseteq Message /\ asked \subseteq Message
  /\ answers \subseteq Message /\ reading \subseteq Message
  /\ pc \in [Callers -> Locations]
  /\ id \in [Callers -> Nat]
  /\ outcome \in [Callers -> Outcomes]
  /\ got \in [Callers -> Nat]
  /\ conn \in Connections
  /\ muHeld \in BOOLEAN
  /\ made \in Nat
  /\ request \in [Callers -> Nat]
  /\ answered \subseteq Nat

Init ==
  /\ nextPostID = 1
  /\ registered = {} /\ closed = {}
  /\ slot = {} /\ asked = {} /\ answers = {} /\ reading = {}
  /\ pc = [c \in Callers |-> "idle"]
  /\ id = [c \in Callers |-> 0]
  /\ outcome = [c \in Callers |-> "none"]
  /\ got = [c \in Callers |-> 0]
  /\ conn = "nil"
  /\ muHeld = FALSE
  /\ made = 0
  /\ request = [c \in Callers |-> 0]
  /\ answered = {}

-----------------------------------------------------------------------------
(* PostRequest.                                                            *)

\* nextPostID.Add(1).
NewID == nextPostID + 1

TakeID(c) ==
  /\ pc[c] = "idle"
  /\ made < Limit
  /\ nextPostID' = NewID
  /\ id' = [id EXCEPT ![c] = NewID]
  /\ outcome' = [outcome EXCEPT ![c] = "none"]
  /\ got' = [got EXCEPT ![c] = 0]
  /\ pc' = [pc EXCEPT ![c] = "register"]
  /\ made' = made + 1
  /\ request' = [request EXCEPT ![c] = made + 1]
  /\ UNCHANGED <<registered, closed, slot, serverVars, muHeld>>

Register(c) ==
  /\ pc[c] = "register"
  /\ ~muHeld
  /\ registered' = registered \cup {id[c]}
  /\ pc' = [pc EXCEPT ![c] = "write"]
  /\ UNCHANGED <<nextPostID, closed, slot, id, outcome, got, serverVars, muHeld, made, request>>

Write(c) ==
  /\ pc[c] = "write"
  /\ ~muHeld
  /\ conn = "open"
  /\ asked' = asked \cup {[id |-> id[c], req |-> request[c]]}
  /\ pc' = [pc EXCEPT ![c] = "wait"]
  /\ UNCHANGED <<nextPostID, registered, closed, slot, id, outcome, got, conn,
                 muHeld, answers, reading, answered, made, request>>

\* The write never ends, or panics on a nil ws.conn and the deferred function
\* waits for the lock its own goroutine holds.
WriteHangs(c) ==
  /\ pc[c] = "write"
  /\ ~muHeld
  /\ conn # "closed"
  /\ pc' = [pc EXCEPT ![c] = "hung"]
  /\ muHeld' = TRUE
  /\ UNCHANGED <<nextPostID, registered, closed, slot, id, outcome, got,
                 serverVars, made, request>>

\* A call ends and its deferred delete is due.
Ends(c, o, r) ==
  /\ outcome' = [outcome EXCEPT ![c] = o]
  /\ got' = [got EXCEPT ![c] = r]
  /\ pc' = [pc EXCEPT ![c] = "cleanup"]

WriteFails(c) ==
  /\ pc[c] = "write"
  /\ ~muHeld
  /\ conn = "closed"
  /\ Ends(c, "failed", 0)
  /\ UNCHANGED <<nextPostID, registered, closed, slot, id, serverVars, muHeld, made, request>>

Full(i) == \E m \in slot : m.id = i

\* select: the response; a closed channel still yields what it buffered.
TakeResponse(c) ==
  /\ pc[c] = "wait"
  /\ \E m \in slot :
       /\ m.id = id[c]
       /\ slot' = slot \ {m}
       /\ Ends(c, "answer", m.req)
  /\ UNCHANGED <<nextPostID, registered, closed, id, serverVars, muHeld, made, request>>

\* Mutation of TakeZero: the zero value passes for an answer.
TakeZeroAsAnswer(c) ==
  /\ pc[c] = "wait"
  /\ id[c] \in closed
  /\ ~Full(id[c])
  /\ Ends(c, "answer", 0)
  /\ UNCHANGED <<nextPostID, registered, closed, slot, id, serverVars, muHeld, made, request>>

\* select: a closed and empty channel yields the zero response, which the
\* code returns with a nil error.
TakeZero(c) ==
  /\ pc[c] = "wait"
  /\ id[c] \in closed
  /\ ~Full(id[c])
  /\ Ends(c, "empty", 0)
  /\ UNCHANGED <<nextPostID, registered, closed, slot, id, serverVars, muHeld, made, request>>

\* Mutation of TimeOut: the select has no timer.
TimeOutNever(c) == FALSE

\* select: time.After(30s), also when a response is ready (select picks any).
TimeOut(c) ==
  /\ pc[c] = "wait"
  /\ Ends(c, "timeout", 0)
  /\ UNCHANGED <<nextPostID, registered, closed, slot, id, serverVars, muHeld, made, request>>

\* Mutation of Cleanup: no deferred delete.
CleanupKeeps(c) ==
  /\ pc[c] = "cleanup"
  /\ pc' = [pc EXCEPT ![c] = "idle"]
  /\ UNCHANGED <<nextPostID, registered, closed, slot, id, outcome, got, serverVars,
                 muHeld, made, request>>

\* The deferred delete, then the return.
Cleanup(c) ==
  /\ pc[c] = "cleanup"
  /\ ~muHeld
  /\ registered' = registered \ {id[c]}
  /\ pc' = [pc EXCEPT ![c] = "idle"]
  /\ UNCHANGED <<nextPostID, closed, slot, id, outcome, got, serverVars, muHeld, made, request>>

-----------------------------------------------------------------------------
(* The server and the reader goroutine.                                    *)

Answer(m) ==
  /\ conn = "open"
  /\ m \in asked
  /\ answers' = answers \cup {m}
  /\ answered' = answered \cup {m.req}
  /\ UNCHANGED <<clientVars, conn, muHeld, asked, reading, made, request>>

ReadAnswer(m) ==
  /\ conn = "open"
  /\ reading = {}
  /\ m \in answers
  /\ reading' = {m}
  /\ answers' = answers \ {m}
  /\ UNCHANGED <<clientVars, conn, muHeld, asked, answered, made, request>>

\* Mutation of HandleResponse: a response goes to any call that waits.
HandleResponseAny(m) ==
  /\ m \in reading
  /\ \E i \in registered \cup {m.id} : slot' = slot \cup {[id |-> i, req |-> m.req]}
  /\ reading' = {}
  /\ UNCHANGED <<nextPostID, registered, closed, pc, id, outcome, got,
                 conn, muHeld, asked, answers, answered, made, request>>

\* Under the read lock: look the id up, send unless the channel is full.
HandleResponse(m) ==
  /\ m \in reading
  /\ ~muHeld
  /\ slot' = IF m.id \in registered /\ ~Full(m.id) THEN slot \cup {m} ELSE slot
  /\ reading' = {}
  /\ UNCHANGED <<nextPostID, registered, closed, pc, id, outcome, got,
                 conn, muHeld, asked, answers, answered, made, request>>

-----------------------------------------------------------------------------
(* The connection.                                                         *)

\* What is on its way on a connection is lost with it.
LosesConn(next) ==
  /\ conn' = next
  /\ asked' = {}
  /\ answers' = {}

\* Mutation of Disconnect: the map is emptied and the channels stay open.
DisconnectForgets ==
  /\ registered' = {}
  /\ LosesConn(IF conn = "nil" THEN "nil" ELSE "closed")
  /\ UNCHANGED <<nextPostID, closed, slot, pc, id, outcome, got, reading, answered,
                 muHeld, made, request>>

\* Disconnect, under the write lock: close and forget every channel.
Disconnect ==
  /\ ~muHeld
  /\ closed' = closed \cup registered
  /\ registered' = {}
  /\ LosesConn(IF conn = "nil" THEN "nil" ELSE "closed")
  /\ UNCHANGED <<nextPostID, slot, pc, id, outcome, got, reading, answered,
                 muHeld, made, request>>

\* The connection breaks: nobody closes the channels.
ConnectionLost ==
  /\ conn = "open"
  /\ LosesConn("closed")
  /\ UNCHANGED <<clientVars, reading, answered, muHeld, made, request>>

\* A reconnect tears the connection down before it dials.
Teardown ==
  /\ ~muHeld
  /\ conn # "nil"
  /\ LosesConn("nil")
  /\ UNCHANGED <<clientVars, reading, answered, muHeld, made, request>>

\* Connect, which does not lock ws.mu.
Connect ==
  /\ conn # "open"
  /\ conn' = "open"
  /\ UNCHANGED <<clientVars, asked, answers, reading, answered, muHeld, made, request>>

\* The write of a ping or of a subscription never ends.
OtherWriteHangs ==
  /\ ~muHeld
  /\ conn = "open"
  /\ muHeld' = TRUE
  /\ UNCHANGED <<clientVars, serverVars, made, request>>

CallerStep(c) ==
  \/ Register(c) \/ Write(c) \/ WriteFails(c) \/ WriteHangs(c) \/ TakeResponse(c)
  \/ TakeZero(c) \/ TimeOut(c) \/ Cleanup(c)

Next ==
  \/ \E c \in Callers : TakeID(c) \/ CallerStep(c)
  \/ \E m \in asked : Answer(m)
  \/ \E m \in answers : ReadAnswer(m)
  \/ \E m \in reading : HandleResponse(m)
  \/ Disconnect \/ ConnectionLost \/ Teardown \/ Connect \/ OtherWriteHangs

Spec == Init /\ [][Next]_vars

\* A call in progress keeps running, and its timer fires; the server, the
\* network and the user owe nothing.  A write may never end (WriteHangs).
FairSpec == Spec /\ \A c \in Callers : WF_vars(CallerStep(c))

-----------------------------------------------------------------------------
InCall(c) == pc[c] # "idle"
Holding(c) == pc[c] \in {"write", "wait", "cleanup", "hung"}
Messages == slot \cup asked \cup answers \cup reading

\* A call that returns a response returns the server's answer to the request
\* it sent itself: answers may be late, repeated or out of order, callers may
\* time out and call again, connections may come and go.
OwnAnswer == \A c \in Callers : outcome[c] = "answer" => got[c] = request[c]

\* A channel in the map is open: handlePostResponse never sends on a channel
\* Disconnect has closed, and no channel is closed twice.
RegisteredAreOpen == registered \cap closed = {}

\* The map holds the channels of calls in progress only: on every path out
\* of PostRequest the registration is gone.  A call that hangs is in progress.
RegisteredInUse == \A i \in registered : \E c \in Callers : Holding(c) /\ id[c] = i

\* A waiting call waits on a channel that somebody can still fill or that is
\* closed; Disconnect and the clean-up of other calls leave none stranded.
WaiterReachable ==
  \A c \in Callers : pc[c] \in {"write", "wait"} => id[c] \in registered \cup closed

-----------------------------------------------------------------------------
(* What makes them inductive.                                              *)

\* Calls in progress have different ids.
UniqueIds == \A c, d \in Callers : c # d /\ InCall(c) /\ InCall(d) => id[c] # id[d]

\* Nothing mentions an id that has not been taken.
IdsTaken ==
  /\ \A c \in Callers : id[c] <= nextPostID
  /\ \A i \in registered \cup closed : i <= nextPostID
  /\ \A m \in Messages : m.id <= nextPostID

\* A call that has yet to register owns an id nobody has used.
FreshBeforeRegister ==
  \A c \in Callers : pc[c] = "register" => id[c] \notin registered \cup closed

\* A message under a call's id is about that call's request.
MessagesMatch ==
  \A c \in Callers : InCall(c) =>
    \A m \in Messages : m.id = id[c] => m.req = request[c]

\* Requests are numbered by made, and an answer is about an answered one.
RequestsMade ==
  /\ \A m \in Messages : m.req \in 1 .. made
  /\ \A c \in Callers : InCall(c) => request[c] \in 1 .. made
  /\ \A m \in slot \cup answers \cup reading : m.req \in answered

\* All of it: what every step preserves.
PostInv ==
  /\ OwnAnswer
  /\ RegisteredAreOpen
  /\ RegisteredInUse
  /\ UniqueIds
  /\ WaiterReachable
  /\ IdsTaken
  /\ FreshBeforeRegister
  /\ MessagesMatch
  /\ RequestsMade

-----------------------------------------------------------------------------
\* A call that waits for its answer stops waiting, whatever server and network
\* do, even while ws.mu is held for good; and every call of PostRequest returns
\* unless ws.mu is held for good: by a write that never ends, or by a call that
\* found ws.conn nil.
EveryPostReturns ==
  \A c \in Callers :
    /\ pc[c] = "wait" ~> pc[c] = "cleanup"
    /\ InCall(c) ~> ~InCall(c) \/ muHeld

\* The client and the server together implement RequestReply.
Abstract == INSTANCE RequestReply WITH
  phase <- [c \in Callers |-> CASE pc[c] = "idle" -> "idle"
                               [] pc[c] = "cleanup" -> "done"
                               [] OTHER -> "pending"]

\* A call ends once, with its own answer or without one.
RequestReplySpec == Abstract!Spec
=============================================================================
