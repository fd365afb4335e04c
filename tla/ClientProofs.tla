---------------------------- MODULE ClientProofs ----------------------------
(***************************************************************************)
(* Proofs about ClientRequest, for any number of callers and calls: an     *)
(* action is executed at most once, and what a caller is told of it is     *)
(* true.  Each action of a caller preserves the invariant because it       *)
(* leaves the nonces of the calls made alone; a new call takes a nonce     *)
(* above all others; and the exchange executes what it has not accepted.   *)
(***************************************************************************)
EXTENDS ClientRequest, TLAPS

LEMMA ClientInit == Init => ClientInv
BY RequestAssumption DEF Init, ClientInv, TypeOK, CallsInPlace, NoncesInPlace, ExecutedInPlace,
   ExecutedOnce, OkIsExecuted, RejectedIsOwnCopy, Calls

\* The calls made are calls.
LEMMA InCalls == TypeOK => 1 .. made \subseteq Calls
BY RequestAssumption DEF TypeOK, Calls

-----------------------------------------------------------------------------
(* Steps of a caller.                                                      *)

\* A call begins, with a nonce above all others unless it is an info call.
LEMMA BeginStep ==
  ASSUME ClientInv, NEW c \in Callers,
         NEW k \in {"info", "exchange", "withdraw"}, NEW n \in Nat, NEW l \in {"route", "idle"},
         Begin(c, k, n, l),
         \/ k = "info" /\ n = 0 /\ UNCHANGED counter
         \/ n = counter + 1 /\ counter' = counter + 1,
         \/ UNCHANGED result
         \/ l = "idle" /\ result' = [result EXCEPT ![made + 1] = "error"]
  PROVE  ClientInv'
<1> USE DEF ClientInv
<1>1. /\ made' = made + 1 /\ made \in Nat /\ made + 1 \in Calls
      /\ kind' = [kind EXCEPT ![made + 1] = k]
      /\ nonce' = [nonce EXCEPT ![made + 1] = n]
      /\ pc' = [pc EXCEPT ![c] = l]
      /\ call' = [call EXCEPT ![c] = made + 1]
      /\ UNCHANGED <<isConnected, cut, wire, used, executed, replies>>
      /\ counter \in Nat /\ counter' \in Nat /\ counter <= counter' /\ n <= counter'
  BY RequestAssumption DEF Begin, TypeOK, Calls, serverVars
<1>2. TypeOK'
  <2>1. /\ made' \in 0 .. MaxCalls
        /\ call' \in [Callers -> 0 .. MaxCalls]
    BY <1>1, RequestAssumption DEF TypeOK, Calls
  <2>2. /\ pc' \in [Callers -> {"idle", "route", "post", "wait", "http", "read"}]
        /\ kind' \in [Calls -> {"none", "info", "exchange", "withdraw"}]
        /\ nonce' \in [Calls -> Nat]
    BY <1>1 DEF TypeOK
  <2>3. result' \in [Calls -> {"none", "ok", "rejected", "error", "empty"}]
    BY <1>1 DEF TypeOK
  <2> QED
    BY <1>1, <2>1, <2>2, <2>3 DEF TypeOK
<1>3. CallsInPlace'
  <2>1. \A d \in Callers : pc'[d] # "idle" =>
          \/ d = c /\ l # "idle" /\ call'[d] = made + 1
          \/ d # c /\ pc[d] # "idle" /\ call'[d] = call[d] /\ call[d] \in 1 .. made
    BY <1>1 DEF CallsInPlace, TypeOK
  <2>2. \A n1 \in Calls : n1 > made => kind[n1] = "none" /\ result[n1] = "none" /\ executed[n1] = 0
    BY DEF CallsInPlace
  <2>3. \A n1 \in Calls : result'[n1] = result[n1] \/ (n1 = made + 1 /\ l = "idle")
    BY <1>1 DEF TypeOK
  <2>4. \A n1 \in Calls : n1 > made' => n1 > made /\ n1 # made + 1
    BY <1>1 DEF Calls
  <2>5. \A n1 \in Calls : n1 > made' => kind'[n1] = "none" /\ result'[n1] = "none" /\ executed'[n1] = 0
    BY <1>1, <2>2, <2>3, <2>4 DEF TypeOK
  <2>6. \A d \in Callers : pc'[d] # "idle" => call'[d] \in 1 .. made' /\ result'[call'[d]] = "none"
    BY <1>1, <2>1, <2>2, <2>3, RequestAssumption DEF CallsInPlace, Calls
  <2>7. \A d, e \in Callers : pc'[d] # "idle" /\ pc'[e] # "idle" /\ call'[d] = call'[e] => d = e
    BY <1>1, <2>1 DEF CallsInPlace
  <2>8. \A m \in wire : m.call # made + 1 /\ m.call \in Calls
    BY <1>1 DEF CallsInPlace, TypeOK
  <2>9. \A m \in wire' : m.call <= made' /\ m.nonce = nonce'[m.call]
    BY <1>1, <2>8 DEF CallsInPlace, TypeOK, Calls
  <2>10. \A r \in replies' : r.call <= made'
    BY <1>1 DEF CallsInPlace, TypeOK, Calls
  <2> QED
    BY <2>5, <2>6, <2>7, <2>9, <2>10 DEF CallsInPlace
<1>4. NoncesInPlace'
  <2>1. ASSUME NEW i \in Calls PROVE nonce'[i] <= counter'
    <3>1. nonce[i] \in Nat /\ nonce[i] <= counter
      BY DEF NoncesInPlace, TypeOK
    <3>2. nonce'[i] = IF i = made + 1 THEN n ELSE nonce[i]
      BY <1>1 DEF TypeOK
    <3> QED
      BY <1>1, <3>1, <3>2
  <2>2. \A x \in used' : x <= counter'
    BY <1>1 DEF NoncesInPlace, TypeOK
  <2>3. ASSUME NEW i \in 1 .. made', NEW j \in 1 .. made',
               kind'[i] # "info", kind'[j] # "info", nonce'[i] = nonce'[j]
        PROVE  i = j
    <3>1. k # "info" => n = counter + 1
      OBVIOUS
    <3>2. i \in Calls /\ j \in Calls
      BY <1>1, RequestAssumption DEF Calls
    <3>3. nonce[i] <= counter /\ nonce[j] <= counter
      BY <3>2 DEF NoncesInPlace
    <3>4. /\ i # made + 1 => i \in 1 .. made /\ nonce'[i] = nonce[i] /\ kind'[i] = kind[i]
          /\ j # made + 1 => j \in 1 .. made /\ nonce'[j] = nonce[j] /\ kind'[j] = kind[j]
      BY <1>1, <3>2 DEF TypeOK
    <3>5. kind'[made + 1] = k /\ nonce'[made + 1] = n
      BY <1>1 DEF TypeOK
    <3> QED
      BY <1>1, <2>3, <3>1, <3>3, <3>4, <3>5 DEF NoncesInPlace
  <2> QED
    BY <2>1, <2>2, <2>3 DEF NoncesInPlace
<1>5. ExecutedInPlace'
  <2>1. ASSUME k # "info" PROVE n \notin used
    BY <2>1 DEF NoncesInPlace, TypeOK
  <2>2. executed[made + 1] = 0
    BY <1>1 DEF CallsInPlace, TypeOK
  <2>3. \A i \in 1 .. made' : i # made + 1 => i \in 1 .. made /\ i \in Calls
    BY <1>1, InCalls
  <2>4. \A i \in 1 .. made' :
          executed'[i] = IF kind'[i] # "info" /\ nonce'[i] \in used' THEN 1 ELSE 0
    BY <1>1, <2>1, <2>2, <2>3 DEF ExecutedInPlace, TypeOK
  <2>5. \A r \in replies : r.call \in Calls /\ r.call # made + 1
    BY <1>1 DEF CallsInPlace, TypeOK, Calls
  <2> QED
    BY <1>1, <2>4, <2>5 DEF ExecutedInPlace, TypeOK
<1>6. ExecutedOnce'
  BY <1>1 DEF ExecutedOnce
<1>7. OkIsExecuted' /\ RejectedIsOwnCopy'
  <2>1. \A i \in Calls : result'[i] = result[i] \/ (i = made + 1 /\ result'[i] = "error")
    BY <1>1 DEF TypeOK
  <2>2. result[made + 1] = "none"
    BY <1>1 DEF CallsInPlace, TypeOK
  <2> QED
    BY <1>1, <2>1, <2>2 DEF OkIsExecuted, RejectedIsOwnCopy, TypeOK
<1> QED
  BY <1>2, <1>3, <1>4, <1>5, <1>6, <1>7

\* A caller that moves on, and may send a request of its call.
LEMMA MoveStep ==
  ASSUME ClientInv, NEW c \in Callers, pc[c] # "idle",
         NEW l \in {"idle", "route", "post", "wait", "http", "read"},
         pc' = [pc EXCEPT ![c] = l],
         NEW v \in {"ws", "http"},
         wire' = wire \/ wire' = wire \cup {Message(c, v)},
         UNCHANGED <<isConnected, callVars, nonce, cut, result, serverVars>>
  PROVE  ClientInv'
<1> USE DEF ClientInv
<1>1. call[c] \in 1 .. made /\ call[c] \in Calls /\ nonce[call[c]] \in Nat
  BY RequestAssumption DEF CallsInPlace, TypeOK, Calls
<1>2. TypeOK'
  BY <1>1 DEF TypeOK, Message, callVars, serverVars
<1>3. CallsInPlace'
  BY <1>1 DEF CallsInPlace, TypeOK, Message, callVars, serverVars
<1>4. NoncesInPlace' /\ ExecutedInPlace' /\ ExecutedOnce' /\ OkIsExecuted' /\ RejectedIsOwnCopy'
  BY DEF NoncesInPlace, ExecutedInPlace, ExecutedOnce, OkIsExecuted, RejectedIsOwnCopy,
         callVars, serverVars
<1> QED
  BY <1>2, <1>3, <1>4

\* A call returns: with what a reply says, or with no word of its action.
LEMMA ReturnStep ==
  ASSUME ClientInv, NEW c \in Callers, pc[c] # "idle",
         NEW s \in {"ok", "rejected", "error", "empty"},
         Return(c, s),
         \/ s \in {"error", "empty"}
         \/ \E r \in replies : r.call = call[c] /\ r.status = s,
         UNCHANGED <<isConnected, callVars, nonce, cut, wire, serverVars>>
  PROVE  ClientInv'
<1> USE DEF ClientInv
<1>1. call[c] \in 1 .. made /\ call[c] \in Calls
  BY RequestAssumption DEF CallsInPlace, TypeOK, Calls
<1>2. TypeOK'
  BY <1>1 DEF TypeOK, Return, callVars, serverVars
<1>3. CallsInPlace'
  BY <1>1 DEF CallsInPlace, TypeOK, Return, callVars, serverVars, Calls
<1>4. NoncesInPlace' /\ ExecutedInPlace' /\ ExecutedOnce'
  BY DEF NoncesInPlace, ExecutedInPlace, ExecutedOnce, callVars, serverVars
<1>5. s = "rejected" \/ (s = "ok" /\ kind[call[c]] # "info") => executed[call[c]] = 1
  BY DEF ExecutedInPlace
<1>6. \A n \in Calls : result'[n] = result[n] \/ (n = call[c] /\ result'[n] = s)
  BY <1>1 DEF Return, TypeOK
<1>7. OkIsExecuted' /\ RejectedIsOwnCopy'
  BY <1>5, <1>6 DEF OkIsExecuted, RejectedIsOwnCopy, callVars, serverVars
<1> QED
  BY <1>2, <1>3, <1>4, <1>7

-----------------------------------------------------------------------------
(* Steps of the exchange and of the connection.                            *)

LEMMA ServeStep ==
  ASSUME ClientInv, NEW m \in wire, Serve(m)
  PROVE  ClientInv'
<1> USE DEF ClientInv
<1> DEFINE exchange == kind[m.call] # "info"
           fresh == m.nonce \notin used
           reply == [call |-> m.call, via |-> m.via,
                     status |-> IF exchange /\ ~fresh THEN "rejected" ELSE "ok"]
<1>1. /\ m.call \in Calls /\ m.call \in 1 .. made
      /\ m.nonce \in Nat /\ m.nonce = nonce[m.call] /\ m.nonce <= counter
      /\ m.via \in {"ws", "http"}
  BY DEF CallsInPlace, NoncesInPlace, TypeOK, Calls
<1>2. /\ wire' = wire \ {m}
      /\ used' = IF exchange THEN used \cup {m.nonce} ELSE used
      /\ executed' = IF exchange /\ fresh THEN [executed EXCEPT ![m.call] = @ + 1] ELSE executed
      /\ replies' = replies \cup {reply}
      /\ UNCHANGED <<isConnected, counter, made, call, kind, pc, nonce, cut, result>>
  BY DEF Serve, callVars
<1>3. exchange /\ fresh => executed[m.call] = 0
  BY <1>1 DEF ExecutedInPlace
<1>4. exchange /\ ~fresh => executed[m.call] = 1
  BY <1>1 DEF ExecutedInPlace
<1>5. \A n \in Calls :
        executed'[n] = IF exchange /\ fresh /\ n = m.call THEN 1 ELSE executed[n]
  BY <1>1, <1>2, <1>3 DEF TypeOK
<1>6. \A n \in Calls : executed[n] = 1 => executed'[n] = 1
  BY <1>5
<1>7. TypeOK'
  <2>1. reply \in [call : Calls, via : {"ws", "http"}, status : {"ok", "rejected"}]
    BY <1>1
  <2>2. executed' \in [Calls -> Nat]
    BY <1>1, <1>2 DEF TypeOK
  <2> QED
    BY <1>1, <1>2, <2>1, <2>2 DEF TypeOK
<1>8. CallsInPlace'
  <2>1. \A n \in Calls : n > made => executed'[n] = executed[n]
    BY <1>1, <1>5 DEF TypeOK, Calls
  <2> QED
    BY <1>1, <1>2, <2>1 DEF CallsInPlace
<1>9. NoncesInPlace'
  BY <1>1, <1>2 DEF NoncesInPlace
<1>10. ExecutedInPlace'
  <2>1. ASSUME NEW n \in 1 .. made'
        PROVE  executed'[n] = IF kind'[n] # "info" /\ nonce'[n] \in used' THEN 1 ELSE 0
    <3>1. n \in 1 .. made /\ n \in Calls
      BY <1>2, InCalls
    <3>2. executed[n] = IF kind[n] # "info" /\ nonce[n] \in used THEN 1 ELSE 0
      BY <3>1 DEF ExecutedInPlace
    <3>3. CASE n = m.call
      BY <1>1, <1>2, <1>5, <3>1, <3>2, <3>3
    <3>4. CASE n # m.call
      <4>1. exchange /\ kind[n] # "info" => nonce[n] # m.nonce
        BY <1>1, <3>1, <3>4 DEF NoncesInPlace
      <4> QED
        BY <1>2, <1>5, <3>1, <3>2, <3>4, <4>1
    <3> QED
      BY <3>3, <3>4
  <2>2. ASSUME NEW r \in replies', kind'[r.call] # "info" \/ r.status = "rejected"
        PROVE  executed'[r.call] = 1
    <3>1. CASE r \in replies
      BY <1>2, <1>6, <2>2, <3>1 DEF ExecutedInPlace, TypeOK
    <3>2. CASE r = reply
      <4>1. r.call = m.call /\ exchange
        BY <1>2, <2>2, <3>2
      <4> QED
        BY <1>1, <1>4, <1>5, <4>1
    <3> QED
      BY <1>2, <3>1, <3>2
  <2> QED
    BY <2>1, <2>2 DEF ExecutedInPlace
<1>11. ExecutedOnce' /\ OkIsExecuted' /\ RejectedIsOwnCopy'
  BY <1>2, <1>5, <1>6 DEF ExecutedOnce, OkIsExecuted, RejectedIsOwnCopy
<1> QED
  BY <1>7, <1>8, <1>9, <1>10, <1>11

-----------------------------------------------------------------------------
LEMMA ClientStep == ClientInv /\ [Next]_vars => ClientInv'
<1> SUFFICES ASSUME ClientInv, [Next]_vars PROVE ClientInv'
  OBVIOUS
<1>t. counter \in Nat
  BY DEF ClientInv, TypeOK
<1>1. CASE UNCHANGED vars
  BY <1>1 DEF vars, callVars, serverVars, ClientInv, TypeOK, CallsInPlace, NoncesInPlace,
     ExecutedInPlace, ExecutedOnce, OkIsExecuted, RejectedIsOwnCopy
<1>2. ASSUME NEW c \in Callers, BeginInfo(c) PROVE ClientInv'
  BY <1>2, BeginStep DEF BeginInfo
<1>3. ASSUME NEW c \in Callers, BeginExchange(c) PROVE ClientInv'
  <2>1. PICK k \in {"exchange", "withdraw"} : Begin(c, k, counter + 1, "route")
    BY <1>3 DEF BeginExchange, NewNonce
  <2> QED
    BY <1>t, <1>3, <2>1, BeginStep DEF BeginExchange, NewNonce
<1>4. ASSUME NEW c \in Callers, SignFails(c) PROVE ClientInv'
  BY <1>t, <1>4, BeginStep DEF SignFails, NewNonce
<1>5. ASSUME NEW c \in Callers, Route(c) PROVE ClientInv'
  BY <1>5, MoveStep DEF Route
<1>6. ASSUME NEW c \in Callers, Post(c) PROVE ClientInv'
  BY <1>6, MoveStep DEF Post
<1>7. ASSUME NEW c \in Callers, SendHTTP(c) PROVE ClientInv'
  BY <1>7, MoveStep DEF SendHTTP
<1>8. ASSUME NEW c \in Callers, PostAnswered(c) \/ AnsweredHTTP(c) PROVE ClientInv'
  <2>1. PICK r \in replies : r.call = call[c] /\ Return(c, r.status)
    BY <1>8 DEF PostAnswered, AnsweredHTTP
  <2>2. r.status \in {"ok", "rejected"}
    BY DEF ClientInv, TypeOK
  <2> QED
    BY <1>8, <2>1, <2>2, ReturnStep DEF PostAnswered, AnsweredHTTP
<1>9. ASSUME NEW c \in Callers, PostEmpty(c) PROVE ClientInv'
  BY <1>9, ReturnStep DEF PostEmpty
<1>10. ASSUME NEW c \in Callers, FailsHTTP(c) PROVE ClientInv'
  BY <1>10, ReturnStep DEF FailsHTTP
<1>11. ASSUME NEW c \in Callers, PostFails(c) PROVE ClientInv'
  <2>1. CASE kind[call[c]] = "exchange"
    BY <1>11, <2>1, MoveStep DEF PostFails
  <2>2. CASE kind[call[c]] # "exchange"
    BY <1>11, <2>2, ReturnStep DEF PostFails
  <2> QED
    BY <2>1, <2>2
<1>12. ASSUME NEW m \in wire, Serve(m) PROVE ClientInv'
  BY <1>12, ServeStep
<1>13. CASE ConnectionChanges \/ Disconnect
  <2>1. /\ isConnected' \in BOOLEAN
        /\ UNCHANGED <<counter, made, call, kind, pc, nonce, result, wire, used, executed, replies>>
    BY <1>13 DEF ConnectionChanges, Disconnect, callVars, serverVars, ClientInv, TypeOK
  <2>2. cut' \subseteq Calls
    <3>1. \A d \in Callers : pc[d] # "idle" => call[d] \in Calls
      BY RequestAssumption DEF ClientInv, CallsInPlace, TypeOK, Calls
    <3> QED
      BY <1>13, <3>1 DEF ConnectionChanges, Disconnect, ClientInv, TypeOK
  <2> QED
    BY <2>1, <2>2 DEF ClientInv, TypeOK, CallsInPlace, NoncesInPlace, ExecutedInPlace,
       ExecutedOnce, OkIsExecuted, RejectedIsOwnCopy
<1> QED
  BY <1>1, <1>2, <1>3, <1>4, <1>5, <1>6, <1>7, <1>8, <1>9, <1>10, <1>11, <1>12, <1>13 DEF Next

\* Calls, nonces and what the exchange did with them belong together, and no
\* action is executed twice, whatever is posted, sent again, delayed or lost
\* (client.go:150-236).
THEOREM ClientInvariant == Spec => []ClientInv
BY ClientInit, ClientStep, PTL DEF Spec

\* An exchange call that reports success had its action executed.
THEOREM ClientOkIsExecuted == Spec => []OkIsExecuted
<1>1. ClientInv => OkIsExecuted
  BY DEF ClientInv
<1> QED
  BY <1>1, ClientInvariant, PTL

\* A call is refused for a used nonce only when its own other copy was executed.
THEOREM ClientRejectedIsOwnCopy == Spec => []RejectedIsOwnCopy
<1>1. ClientInv => RejectedIsOwnCopy
  BY DEF ClientInv
<1> QED
  BY <1>1, ClientInvariant, PTL

-----------------------------------------------------------------------------
(* What a signed call does, seen from above: ActionCalls.                  *)

\* A call begins, or begins and fails, and nothing else can be seen of it.
LEMMA BeginActs ==
  ASSUME ClientInv, NEW c \in Callers,
         NEW k \in {"info", "exchange", "withdraw"}, NEW n, NEW l,
         Begin(c, k, n, l),
         \/ UNCHANGED result
         \/ k # "info" /\ result' = [result EXCEPT ![made + 1] = "error"]
  PROVE  Actions!Make \/ Actions!Fail
<1> USE DEF ClientInv
<1>1. /\ made' = made + 1 /\ made < MaxCalls /\ made \in Nat /\ made + 1 \in Calls
      /\ kind' = [kind EXCEPT ![made + 1] = k]
      /\ UNCHANGED <<wire, executed>>
  BY RequestAssumption DEF Begin, TypeOK, Calls, serverVars
<1>2. kind[made + 1] = "none" /\ result[made + 1] = "none"
  BY <1>1 DEF CallsInPlace, TypeOK
<1>3. \A m \in wire : m.call \in Calls /\ m.call # made + 1
  BY <1>1 DEF CallsInPlace, TypeOK
<1>4. \A i \in Calls : i # made + 1 => kind'[i] = kind[i] /\ result'[i] = result[i]
  BY <1>1 DEF TypeOK
<1>5. Underway' = Underway
  BY <1>1, <1>3, <1>4 DEF Underway
<1>6. CASE UNCHANGED result
  <2>1. \A i \in Calls : Told(i)' = Told(i)
    BY <1>2, <1>4, <1>6 DEF Told
  <2> QED
    BY <1>1, <1>5, <2>1 DEF Actions!Make
<1>7. CASE k # "info" /\ result' = [result EXCEPT ![made + 1] = "error"]
  <2>1. kind'[made + 1] = k /\ result'[made + 1] = "error"
    BY <1>1, <1>7 DEF TypeOK
  <2>2. \A i \in Calls : Told(i)' = IF i = made + 1 THEN "error" ELSE Told(i)
    BY <1>4, <1>7, <2>1 DEF Told
  <2>3. [i \in Calls |-> Told(i)]' = [[i \in Calls |-> Told(i)] EXCEPT ![made + 1] = "error"]
    BY <1>1, <2>2
  <2> QED
    BY <1>1, <1>5, <2>3 DEF Actions!Fail
<1> QED
  BY <1>6, <1>7

\* A copy is sent: the first of a signed call is its action's emission, and of
\* another nothing can be seen.
LEMMA SendActs ==
  ASSUME ClientInv, NEW c \in Callers, pc[c] # "idle", NEW v \in {"ws", "http"},
         wire' = wire \cup {Message(c, v)},
         UNCHANGED <<made, kind, result, executed>>
  PROVE  Actions!Emit(call[c]) \/ UNCHANGED Actions!actionVars
<1> USE DEF ClientInv
<1> DEFINE n == call[c]
<1>1. n \in Calls /\ n \in 1 .. made /\ result[n] = "none"
  BY RequestAssumption DEF CallsInPlace, TypeOK, Calls
<1>2. \A i \in Calls : Told(i)' = Told(i)
  BY DEF Told
<1>3. \A i \in Calls : (\E m \in wire' : m.call = i) <=> i = n \/ \E m \in wire : m.call = i
  <2>1. Message(c, v) \in wire' /\ Message(c, v).call = n
    BY DEF Message
  <2>2. wire \subseteq wire' /\ \A m \in wire' : m \in wire \/ m = Message(c, v)
    OBVIOUS
  <2> HIDE DEF n
  <2> QED
    BY <2>1, <2>2, Zenon
<1>4. CASE kind[n] # "info" /\ executed[n] = 0
  <2>1. Underway' = Underway \cup {n}
    BY <1>1, <1>3, <1>4 DEF Underway
  <2>2. Told(n) = "none"
    BY <1>1 DEF Told
  <2> QED
    BY <1>1, <1>2, <1>4, <2>1, <2>2 DEF Actions!Emit
<1>5. CASE ~(kind[n] # "info" /\ executed[n] = 0)
  <2>1. Underway' = Underway
    BY <1>3, <1>5 DEF Underway
  <2> QED
    BY <1>2, <2>1 DEF Actions!actionVars
<1> QED
  BY <1>4, <1>5

\* A call returns: a signed one ends, and of an info call nothing can be seen.
LEMMA ReturnActs ==
  ASSUME ClientInv, NEW c \in Callers, pc[c] # "idle",
         NEW s \in {"ok", "rejected", "error", "empty"},
         Return(c, s),
         \/ s \in {"error", "empty"}
         \/ \E r \in replies : r.call = call[c] /\ r.status = s,
         UNCHANGED <<made, kind, wire, executed>>
  PROVE  (\E r \in {"ok", "error"} : Actions!End(call[c], r)) \/ UNCHANGED Actions!actionVars
<1> USE DEF ClientInv
<1> DEFINE n == call[c]
<1>1. n \in Calls /\ n \in 1 .. made /\ result[n] = "none"
  BY RequestAssumption DEF CallsInPlace, TypeOK, Calls
<1>2. result'[n] = s /\ \A i \in Calls : i # n => result'[i] = result[i]
  BY <1>1 DEF Return, TypeOK
<1>3. Underway' = Underway
  BY DEF Underway
<1>4. CASE kind[n] = "info"
  <2>1. \A i \in Calls : Told(i)' = Told(i)
    BY <1>2, <1>4 DEF Told
  <2> QED
    BY <1>3, <2>1 DEF Actions!actionVars
<1>5. CASE kind[n] # "info"
  <2> DEFINE r == IF s = "ok" THEN "ok" ELSE "error"
  <2>1. \A i \in Calls : Told(i)' = IF i = n THEN r ELSE Told(i)
    BY <1>2, <1>5 DEF Told
  <2>2. [i \in Calls |-> Told(i)]' = [[i \in Calls |-> Told(i)] EXCEPT ![n] = r]
    BY <1>1, <2>1
  <2>3. Told(n) = "none"
    BY <1>1 DEF Told
  <2>4. r = "ok" => executed[n] = 1
    BY <1>5 DEF ExecutedInPlace
  <2>5. r \in {"ok", "error"}
    OBVIOUS
  <2> HIDE DEF r
  <2>6. Actions!End(n, r)
    BY <1>1, <1>3, <2>2, <2>3, <2>4 DEF Actions!End
  <2> QED
    BY <2>5, <2>6
<1> QED
  BY <1>4, <1>5

\* A request arrives: the first copy of an action executes it.
LEMMA ServeActs ==
  ASSUME ClientInv, NEW m \in wire, Serve(m)
  PROVE  Actions!Execute(m.call) \/ UNCHANGED Actions!actionVars
<1> USE DEF ClientInv
<1> DEFINE n == m.call
<1>1. n \in Calls /\ n \in 1 .. made /\ m.nonce = nonce[n]
  BY DEF CallsInPlace, TypeOK, Calls
<1>2. wire' = wire \ {m} /\ UNCHANGED <<made, kind, result>>
  BY DEF Serve, callVars
<1>3. \A i \in Calls : Told(i)' = Told(i)
  BY <1>2 DEF Told
<1>4. executed[n] = IF kind[n] # "info" /\ nonce[n] \in used THEN 1 ELSE 0
  BY <1>1 DEF ExecutedInPlace
<1>5. \A i \in Calls : i # n => ((\E w \in wire' : w.call = i) <=> \E w \in wire : w.call = i)
  BY <1>2
<1>6. CASE kind[n] # "info" /\ nonce[n] \notin used
  <2>1. executed' = [executed EXCEPT ![n] = @ + 1]
    BY <1>1, <1>6 DEF Serve
  <2>2. executed'[n] = 1 /\ \A i \in Calls : i # n => executed'[i] = executed[i]
    BY <1>1, <1>4, <1>6, <2>1 DEF TypeOK
  <2>3. n \in Underway
    BY <1>1, <1>4, <1>6 DEF Underway
  <2>4. Underway' = Underway \ {n}
    BY <1>2, <1>5, <2>2 DEF Underway
  <2> QED
    BY <1>2, <1>3, <2>1, <2>3, <2>4 DEF Actions!Execute
<1>7. CASE ~(kind[n] # "info" /\ nonce[n] \notin used)
  <2>1. executed' = executed
    BY <1>1, <1>7 DEF Serve
  <2>2. n \notin Underway /\ n \notin Underway'
    BY <1>2, <1>4, <1>7, <2>1 DEF Underway
  <2>3. Underway' = Underway
    BY <1>2, <1>5, <2>1, <2>2 DEF Underway
  <2> QED
    BY <1>2, <1>3, <2>1, <2>3 DEF Actions!actionVars
<1> QED
  BY <1>6, <1>7

LEMMA ActionsInit == Init => Actions!ActionInit
BY DEF Init, Actions!ActionInit, Actions!Calls, Calls, Underway, Told

\* Steps of which nothing can be seen.
LEMMA SilentActs ==
  ASSUME UNCHANGED <<made, kind, result, wire, executed>>
  PROVE  UNCHANGED Actions!actionVars
BY DEF Actions!actionVars, Underway, Told

LEMMA ActionsStep == ClientInv /\ [Next]_vars => [Actions!ActionNext]_Actions!actionVars
<1> SUFFICES ASSUME ClientInv, [Next]_vars
             PROVE  Actions!ActionNext \/ UNCHANGED Actions!actionVars
  OBVIOUS
<1>0. \A c \in Callers : pc[c] # "idle" => call[c] \in Actions!Calls
  BY RequestAssumption DEF ClientInv, CallsInPlace, TypeOK, Actions!Calls
<1>1. CASE UNCHANGED vars
  BY <1>1, SilentActs DEF vars, callVars, serverVars
<1>2. ASSUME NEW c \in Callers, BeginInfo(c) \/ BeginExchange(c) \/ SignFails(c)
      PROVE  Actions!ActionNext
  BY <1>2, BeginActs DEF BeginInfo, BeginExchange, SignFails, Actions!ActionNext
<1>3. ASSUME NEW c \in Callers, Route(c) PROVE UNCHANGED Actions!actionVars
  BY <1>3, SilentActs DEF Route, callVars, serverVars
<1>4. ASSUME NEW c \in Callers, Post(c) \/ SendHTTP(c)
      PROVE  Actions!ActionNext \/ UNCHANGED Actions!actionVars
  <2>1. /\ pc[c] # "idle" /\ UNCHANGED <<made, kind, result, executed>>
        /\ \E v \in {"ws", "http"} : wire' = wire \cup {Message(c, v)}
    BY <1>4 DEF Post, SendHTTP, callVars, serverVars
  <2>2. Actions!Emit(call[c]) \/ UNCHANGED Actions!actionVars
    BY <2>1, SendActs
  <2> QED
    BY <1>0, <2>1, <2>2 DEF Actions!ActionNext
<1>5. ASSUME NEW c \in Callers,
             PostAnswered(c) \/ AnsweredHTTP(c) \/ PostEmpty(c) \/ FailsHTTP(c) \/ PostFails(c)
      PROVE  Actions!ActionNext \/ UNCHANGED Actions!actionVars
  <2>1. pc[c] # "idle" /\ UNCHANGED <<made, kind, wire, executed>>
    BY <1>5 DEF PostAnswered, AnsweredHTTP, PostEmpty, FailsHTTP, PostFails, callVars, serverVars
  <2>2. \/ UNCHANGED result
        \/ \E s \in {"error", "empty"} : Return(c, s)
        \/ \E r \in replies : r.call = call[c] /\ Return(c, r.status)
    BY <1>5 DEF PostAnswered, AnsweredHTTP, PostEmpty, FailsHTTP, PostFails
  <2>3. CASE UNCHANGED result
    BY <2>1, <2>3, SilentActs
  <2>4. CASE \E s \in {"error", "empty"} : Return(c, s)
    <3>1. (\E r \in {"ok", "error"} : Actions!End(call[c], r)) \/ UNCHANGED Actions!actionVars
      BY <2>1, <2>4, ReturnActs
    <3> QED
      BY <1>0, <2>1, <3>1 DEF Actions!ActionNext
  <2>5. CASE \E r \in replies : r.call = call[c] /\ Return(c, r.status)
    <3>1. PICK r \in replies : r.call = call[c] /\ Return(c, r.status)
      BY <2>5
    <3>2. r.status \in {"ok", "rejected"}
      BY DEF ClientInv, TypeOK
    <3>3. (\E t \in {"ok", "error"} : Actions!End(call[c], t)) \/ UNCHANGED Actions!actionVars
      BY <2>1, <3>1, <3>2, ReturnActs
    <3> QED
      BY <1>0, <2>1, <3>3 DEF Actions!ActionNext
  <2> QED
    BY <2>2, <2>3, <2>4, <2>5
<1>6. ASSUME NEW m \in wire, Serve(m) PROVE Actions!ActionNext \/ UNCHANGED Actions!actionVars
  <2>1. m.call \in Actions!Calls
    BY DEF ClientInv, TypeOK, Calls, Actions!Calls
  <2> QED
    BY <1>6, <2>1, ServeActs DEF Actions!ActionNext
<1>7. CASE ConnectionChanges \/ Disconnect
  BY <1>7, SilentActs DEF ConnectionChanges, Disconnect, callVars, serverVars
<1> QED
  BY <1>1, <1>2, <1>3, <1>4, <1>5, <1>6, <1>7 DEF Next

\* Over posts, fallbacks, copies and disconnects a signed call does what
\* ActionCalls promises: its action is executed at most once, only if it was
\* sent before the call ended, and before the call reports success.
THEOREM ClientKeepsPromise == Spec => CallsSpec
BY ActionsInit, ActionsStep, ClientInvariant, PTL DEF Spec, CallsSpec, Actions!ActionSpec
=============================================================================
