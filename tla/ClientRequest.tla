--------------------------- MODULE ClientRequest ---------------------------
(***************************************************************************)
(* Requests of the API services (client.go Request, requestViaWebSocket,   *)
(* requestViaHTTP; api.go MakeUniversalRequest).  A call signs its action  *)
(* with a fresh nonce (AtomicNonce.tla), goes to the WebSocket if          *)
(* isConnected says so, and an exchange call whose post fails goes to HTTP *)
(* with the same nonce and signature.  The post itself is RequestReply.tla:*)
(* it ends with the answer, empty-handed after a Disconnect, or with an    *)
(* error, and an error does not tell whether the request arrived.          *)
(*                                                                         *)
(* External: the network, which may deliver a request late or never, and   *)
(* the exchange, which executes an action unless its nonce was used.       *)
(***************************************************************************)
EXTENDS Naturals

CONSTANTS Callers,
          MayDisconnect,  \* whether the user may call Disconnect meanwhile
          MaxCalls        \* bound: calls made

ASSUME RequestAssumption == MayDisconnect \in BOOLEAN /\ MaxCalls \in Nat

Calls == 1 .. MaxCalls

VARIABLES
  isConnected,
  counter,      \* the last nonce taken
  made,         \* calls made, which numbers them
  pc, call,     \* each caller: where it is, the call it makes
  kind, nonce,  \* of each call: "info", "exchange" or "withdraw", and its nonce
  cut,          \* calls whose response channel Disconnect closed
  result,       \* of each call
  wire,         \* external: requests on their way [call, nonce, via]
  used,         \* external: nonces the exchange has accepted
  executed,     \* external: how often each call's action was executed
  replies       \* external: replies on their way [call, via, status]

callVars == <<counter, made, call, kind>>
serverVars == <<used, executed, replies>>
vars == <<isConnected, callVars, pc, nonce, cut, result, wire, serverVars>>

TypeOK ==
  /\ isConnected \in BOOLEAN
  /\ counter \in Nat /\ made \in 0 .. MaxCalls
  /\ pc \in [Callers -> {"idle", "route", "post", "wait", "http", "read"}]
  /\ call \in [Callers -> 0 .. MaxCalls]
  /\ kind \in [Calls -> {"none", "info", "exchange", "withdraw"}]
  /\ nonce \in [Calls -> Nat]
  /\ cut \subseteq Calls
  /\ result \in [Calls -> {"none", "ok", "rejected", "error", "empty"}]
  /\ wire \subseteq [call : Calls, nonce : Nat, via : {"ws", "http"}]
  /\ used \subseteq Nat
  /\ executed \in [Calls -> Nat]
  /\ replies \subseteq [call : Calls, via : {"ws", "http"}, status : {"ok", "rejected"}]

Init ==
  /\ isConnected \in BOOLEAN
  /\ counter = 0 /\ made = 0
  /\ pc = [c \in Callers |-> "idle"] /\ call = [c \in Callers |-> 0]
  /\ kind = [n \in Calls |-> "none"] /\ nonce = [n \in Calls |-> 0]
  /\ cut = {}
  /\ result = [n \in Calls |-> "none"]
  /\ wire = {} /\ used = {} /\ replies = {}
  /\ executed = [n \in Calls |-> 0]

-----------------------------------------------------------------------------
\* Mutation of NewNonce: the counter is not advanced.
NewNonceSame == counter

\* GetNonce, with a clock that stands still.
NewNonce == counter + 1

Begin(c, k, n, next) ==
  /\ pc[c] = "idle"
  /\ made < MaxCalls
  /\ made' = made + 1
  /\ call' = [call EXCEPT ![c] = made + 1]
  /\ kind' = [kind EXCEPT ![made + 1] = k]
  /\ nonce' = [nonce EXCEPT ![made + 1] = n]
  /\ pc' = [pc EXCEPT ![c] = next]
  /\ UNCHANGED <<isConnected, cut, wire, serverVars>>

\* A method of the info service asks without a signature.
BeginInfo(c) == Begin(c, "info", 0, "route") /\ UNCHANGED <<counter, result>>

\* A method of the exchange service takes a nonce and signs its action.
BeginExchange(c) ==
  /\ \E k \in {"exchange", "withdraw"} : Begin(c, k, NewNonce, "route")
  /\ counter' = NewNonce
  /\ UNCHANGED result

\* The signature fails: the nonce is spent, nothing is sent.
SignFails(c) ==
  /\ Begin(c, "exchange", NewNonce, "idle")
  /\ counter' = NewNonce
  /\ result' = [result EXCEPT ![made + 1] = "error"]

\* Request: WebSocket if connected, HTTP otherwise.  Withdraw passes a pointer
\* to its request, which requestViaWebSocket does not know: it goes to HTTP.
Route(c) ==
  /\ pc[c] = "route"
  /\ pc' = [pc EXCEPT ![c] = IF isConnected /\ kind[call[c]] # "withdraw" THEN "post" ELSE "http"]
  /\ UNCHANGED <<isConnected, callVars, nonce, cut, result, wire, serverVars>>

Message(c, via) == [call |-> call[c], nonce |-> nonce[call[c]], via |-> via]

\* PostRequest writes; isConnected may be out of date, so the write may fail.
Post(c) ==
  /\ pc[c] = "post"
  /\ wire' = wire \cup {Message(c, "ws")}
  /\ pc' = [pc EXCEPT ![c] = "wait"]
  /\ UNCHANGED <<isConnected, callVars, nonce, cut, result, serverVars>>

Return(c, r) ==
  /\ result' = [result EXCEPT ![call[c]] = r]
  /\ pc' = [pc EXCEPT ![c] = "idle"]

\* The reply, whose payload the code unwraps.
PostAnswered(c) ==
  /\ pc[c] = "wait"
  /\ \E r \in replies : r.call = call[c] /\ r.via = "ws" /\ Return(c, r.status)
  /\ UNCHANGED <<isConnected, callVars, nonce, cut, wire, serverVars>>

\* Disconnect closed the channel: the zero response has a nil payload, which
\* is marshalled as null and unmarshalled as a zero result without an error.
PostEmpty(c) ==
  /\ pc[c] = "wait"
  /\ call[c] \in cut
  /\ Return(c, "empty")
  /\ UNCHANGED <<isConnected, callVars, nonce, cut, wire, serverVars>>

\* Mutation of PostFails: the error of the post is ignored.
PostFailsIgnored(c) ==
  /\ pc[c] \in {"post", "wait"}
  /\ Return(c, "ok")
  /\ UNCHANGED <<isConnected, callVars, nonce, cut, wire, serverVars>>

\* The write failed or 30 s have passed: an exchange call falls back to HTTP,
\* an info call returns the error.
PostFails(c) ==
  /\ pc[c] \in {"post", "wait"}
  /\ IF kind[call[c]] = "exchange"
     THEN pc' = [pc EXCEPT ![c] = "http"] /\ UNCHANGED result
     ELSE Return(c, "error")
  /\ UNCHANGED <<isConnected, callVars, nonce, cut, wire, serverVars>>

\* Mutation of SendHTTP: the fallback signs the action again.
SendHTTPFresh(c) ==
  /\ pc[c] = "http"
  /\ counter' = counter + 1
  /\ nonce' = [nonce EXCEPT ![call[c]] = counter + 1]
  /\ wire' = wire \cup {[call |-> call[c], nonce |-> counter + 1, via |-> "http"]}
  /\ pc' = [pc EXCEPT ![c] = "read"]
  /\ UNCHANGED <<isConnected, made, call, kind, cut, result, serverVars>>

\* requestViaHTTP sends the payload it was given.
SendHTTP(c) ==
  /\ pc[c] = "http"
  /\ wire' = wire \cup {Message(c, "http")}
  /\ pc' = [pc EXCEPT ![c] = "read"]
  /\ UNCHANGED <<isConnected, callVars, nonce, cut, result, serverVars>>

\* A refusal is an error, except that a withdrawal's tells in its Status only.
AnsweredHTTP(c) ==
  /\ pc[c] = "read"
  /\ \E r \in replies : r.call = call[c] /\ r.via = "http" /\ Return(c, r.status)
  /\ UNCHANGED <<isConnected, callVars, nonce, cut, wire, serverVars>>

FailsHTTP(c) ==
  /\ pc[c] = "read"
  /\ Return(c, "error")
  /\ UNCHANGED <<isConnected, callVars, nonce, cut, wire, serverVars>>

-----------------------------------------------------------------------------
(* The connection and the exchange.                                        *)

ConnectionChanges ==
  /\ isConnected' = ~isConnected
  /\ UNCHANGED <<callVars, pc, nonce, cut, result, wire, serverVars>>

\* Disconnect closes the channels in postResponses: those of the calls that
\* wait, and of those about to write that have registered theirs.
Disconnect ==
  /\ MayDisconnect
  /\ isConnected' = FALSE
  /\ \E registered \in SUBSET {c \in Callers : pc[c] = "post"} :
       cut' = cut \cup {call[c] : c \in registered \cup {d \in Callers : pc[d] = "wait"}}
  /\ UNCHANGED <<callVars, pc, nonce, result, wire, serverVars>>

\* External: a request arrives, in any order and however late.
Serve(m) ==
  LET exchange == kind[m.call] # "info"
      fresh == m.nonce \notin used
  IN  /\ m \in wire
      /\ wire' = wire \ {m}
      /\ used' = IF exchange THEN used \cup {m.nonce} ELSE used
      /\ executed' = IF exchange /\ fresh THEN [executed EXCEPT ![m.call] = @ + 1] ELSE executed
      /\ replies' = replies \cup {[call |-> m.call, via |-> m.via,
                      status |-> IF exchange /\ ~fresh THEN "rejected" ELSE "ok"]}
      /\ UNCHANGED <<isConnected, callVars, pc, nonce, cut, result>>

Next ==
  \/ \E c \in Callers :
       \/ BeginInfo(c) \/ BeginExchange(c) \/ SignFails(c)
       \/ Route(c) \/ Post(c) \/ PostAnswered(c) \/ PostEmpty(c) \/ PostFails(c)
       \/ SendHTTP(c) \/ AnsweredHTTP(c) \/ FailsHTTP(c)
  \/ \E m \in wire : Serve(m)
  \/ ConnectionChanges \/ Disconnect

Spec == Init /\ [][Next]_vars

-----------------------------------------------------------------------------
\* An action is executed at most once, although a call whose post timed out
\* sends it again and both copies may arrive.
ExecutedOnce == \A n \in Calls : executed[n] <= 1

\* An exchange call that succeeds had its action executed.
OkIsExecuted ==
  \A n \in Calls : kind[n] # "info" /\ result[n] = "ok" => executed[n] = 1

\* A call is refused for a used nonce only because its own first copy was
\* executed, never because of another goroutine's call.
RejectedIsOwnCopy == \A n \in Calls : result[n] = "rejected" => executed[n] = 1

\* The calls that sign an action, seen from above: the copies of an action that
\* was executed are no longer on their way, and all that is not success is an
\* error, the empty result after a Disconnect included.
Underway == {n \in Calls : kind[n] # "info" /\ executed[n] = 0 /\ \E m \in wire : m.call = n}

Told(n) ==
  IF kind[n] = "info" \/ result[n] = "none" THEN "none"
  ELSE IF result[n] = "ok" THEN "ok" ELSE "error"

Actions == INSTANCE ActionCalls
             WITH wire <- Underway, result <- [n \in Calls |-> Told(n)]

\* Routing, fallback and retries do for a signed call what ActionCalls promises.
CallsSpec == Actions!ActionSpec

-----------------------------------------------------------------------------
(* What makes these inductive.                                             *)

\* Calls are numbered as they are made, and only those made have a kind, a
\* result or requests and replies on their way.
CallsInPlace ==
  /\ \A c \in Callers : pc[c] # "idle" => call[c] \in 1 .. made /\ result[call[c]] = "none"
  /\ \A c, d \in Callers : pc[c] # "idle" /\ pc[d] # "idle" /\ call[c] = call[d] => c = d
  /\ \A n \in Calls : n > made => kind[n] = "none" /\ result[n] = "none" /\ executed[n] = 0
  /\ \A m \in wire : m.call <= made /\ m.nonce = nonce[m.call]
  /\ \A r \in replies : r.call <= made

\* A nonce identifies its call.
NoncesInPlace ==
  /\ \A n \in Calls : nonce[n] <= counter
  /\ \A x \in used : x <= counter
  /\ \A m, n \in 1 .. made : kind[m] # "info" /\ kind[n] # "info" /\ nonce[m] = nonce[n] => m = n

\* What the exchange has executed is what it has accepted the nonce of, and
\* whatever it says of an action it says of one that is executed.
ExecutedInPlace ==
  /\ \A n \in 1 .. made :
       executed[n] = IF kind[n] # "info" /\ nonce[n] \in used THEN 1 ELSE 0
  /\ \A r \in replies :
       kind[r.call] # "info" \/ r.status = "rejected" => executed[r.call] = 1

\* The types, that the fallback (client.go:201) executes nothing twice, and
\* that a nonce, its call and what the exchange did with it belong together.
ClientInv ==
  /\ TypeOK
  /\ CallsInPlace /\ NoncesInPlace /\ ExecutedInPlace
  /\ ExecutedOnce
  /\ OkIsExecuted
  /\ RejectedIsOwnCopy
=============================================================================
