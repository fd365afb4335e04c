--------------------------- MODULE PromiseProofs ---------------------------
(***************************************************************************)
(* Proofs about the two protocols that ClientRequest.tla rests on, each    *)
(* with the abstract specification it is used by.                          *)
(*                                                                         *)
(* GetNonce (Nonce.tla), for any set of goroutines, any clock and any      *)
(* number of calls: the type invariant, the inductive invariant NonceInv   *)
(* with its three consequences, the action property RetryMeansProgress and *)
(* the refinement of AtomicNonce.                                          *)
(*                                                                         *)
(* PostRequest (WSPost.tla), for any set of callers and any number of      *)
(* calls: the type invariant, the inductive invariant PostInv with the     *)
(* safety properties it contains, and the refinement of RequestReply.      *)
(***************************************************************************)
EXTENDS Nonce, WSPost, TLAPS

-----------------------------------------------------------------------------
(* GetNonce.                                                               *)

\* Every variable of GetNonce keeps its type.
THEOREM NonceTyping == NonceSpec => []NonceTypeOK
<1> USE NonceAssumption
<1>1. NonceInit => NonceTypeOK
  BY DEF NonceInit, NonceTypeOK, NonceLocations
<1>2. NonceTypeOK /\ [NonceNext]_nonceVars => NonceTypeOK'
  <2> SUFFICES ASSUME NonceTypeOK, [NonceNext]_nonceVars PROVE NonceTypeOK'
    OBVIOUS
  <2> USE DEF NonceTypeOK, NonceLocations
  <2>1. ASSUME NEW t \in Threads, Call(t) PROVE NonceTypeOK'
    BY <2>1 DEF Call
  <2>2. ASSUME NEW t \in Threads, Load(t) PROVE NonceTypeOK'
    BY <2>2 DEF Load
  <2>3. ASSUME NEW t \in Threads, CasSucceeds(t) PROVE NonceTypeOK'
    BY <2>3 DEF CasSucceeds, NewNonce
  <2>4. ASSUME NEW t \in Threads, CasFails(t) PROVE NonceTypeOK'
    BY <2>4 DEF CasFails
  <2>5. ASSUME NEW t \in Threads, Return(t) PROVE NonceTypeOK'
    BY <2>5 DEF Return
  <2>6. CASE UNCHANGED nonceVars
    BY <2>6 DEF nonceVars
  <2> QED
    BY <2>1, <2>2, <2>3, <2>4, <2>5, <2>6 DEF NonceNext
<1> QED
  BY <1>1, <1>2, PTL DEF NonceSpec

\* A successful compare-and-swap stores more than the counter held, and at
\* least the clock value the call read.
LEMMA NewNonceGrows ==
  ASSUME NonceTypeOK, NEW t \in Threads, CasSucceeds(t)
  PROVE  /\ nonceCounter < nonceCounter'
         /\ now[t] <= nonceCounter'
         /\ result'[t] = nonceCounter'
  BY DEF NonceTypeOK, CasSucceeds, CasOk, NewNonce

\* The type invariant as facts about single elements, which is how the
\* steps below use it.
LEMMA ElementTypes ==
  ASSUME NonceTypeOK
  PROVE  /\ nonceCounter \in Nat
         /\ \A t \in Threads : /\ now[t] \in Nat
                              /\ current[t] \in Nat
                              /\ result[t] \in Nat
                              /\ seen[t] \in Nat
         /\ Len(issued) \in Nat
         /\ DOMAIN issued = 1 .. Len(issued)
         /\ \A i \in DOMAIN issued : /\ issued[i].nonce \in Nat
                                   /\ issued[i].now \in Nat
                                   /\ issued[i].seen \in Nat
<1> DEFINE Record == [nonce : Nat, now : Nat, seen : Nat]
<1>1. issued \in Seq(Record)
  BY DEF NonceTypeOK
<1>2. \A r \in Record : r.nonce \in Nat /\ r.now \in Nat /\ r.seen \in Nat
  OBVIOUS
<1> HIDE DEF Record
<1>3. /\ Len(issued) \in Nat
      /\ DOMAIN issued = 1 .. Len(issued)
      /\ \A i \in DOMAIN issued : issued[i] \in Record
  BY <1>1
<1> QED
  BY <1>2, <1>3 DEF NonceTypeOK

\* No step moves the counter back.
LEMMA CounterMonotone ==
  ASSUME NonceTypeOK, [NonceNext]_nonceVars
  PROVE  nonceCounter <= nonceCounter'
<1>1. ASSUME NEW t \in Threads, CasSucceeds(t)
      PROVE  nonceCounter <= nonceCounter'
  <2>1. nonceCounter < nonceCounter'
    BY <1>1, NewNonceGrows
  <2>2. nonceCounter \in Nat /\ nonceCounter' \in Nat
    BY <1>1 DEF NonceTypeOK, CasSucceeds, NewNonce
  <2> QED
    BY <2>1, <2>2
<1>2. CASE UNCHANGED nonceCounter
  BY <1>2 DEF NonceTypeOK
<1> QED
  BY <1>1, <1>2 DEF NonceNext, nonceVars, Call, Load, CasFails, Return

\* NonceInv is inductive.
LEMMA NonceInvStep ==
  ASSUME NonceTypeOK, NonceTypeOK', NonceInv, [NonceNext]_nonceVars
  PROVE  NonceInv'
<1> USE ElementTypes
<1>1. ASSUME NEW t \in Threads, Call(t) PROVE NonceInv'
  <2>1. /\ UNCHANGED <<nonceCounter, current, result, issued>>
        /\ at'[t] = "load"
        /\ seen'[t] = Len(issued)
        /\ \A u \in Threads : u # t => /\ at'[u] = at[u]
                                     /\ now'[u] = now[u]
                                     /\ seen'[u] = seen[u]
    BY <1>1 DEF Call, NonceTypeOK
  <2>2. CounterCoversAll'
    BY <2>1 DEF NonceInv, CounterCoversAll
  <2>3. PendingIsFresh'
    BY <2>1 DEF NonceInv, PendingIsFresh
  <2>4. SeenIsPast'
    BY <2>1 DEF NonceInv, SeenIsPast
  <2>5. UniqueNonces' /\ NonceCoversTime' /\ RealTimeOrder'
    BY <2>1 DEF NonceInv, UniqueNonces, NonceCoversTime, RealTimeOrder
  <2> QED
    BY <2>2, <2>3, <2>4, <2>5 DEF NonceInv
<1>2. ASSUME NEW t \in Threads, Load(t) PROVE NonceInv'
  <2>1. /\ UNCHANGED <<nonceCounter, now, result, seen, issued>>
        /\ at'[t] = "cas"
        /\ current'[t] = nonceCounter
        /\ \A u \in Threads : u # t => at'[u] = at[u] /\ current'[u] = current[u]
    BY <1>2 DEF Load, NonceTypeOK
  <2>2. CounterCoversAll'
    BY <2>1 DEF NonceInv, CounterCoversAll
  <2>3. PendingIsFresh'
    BY <2>1 DEF NonceInv, PendingIsFresh
  <2>4. SeenIsPast'
    BY <2>1 DEF NonceInv, SeenIsPast
  <2>5. UniqueNonces' /\ NonceCoversTime' /\ RealTimeOrder'
    BY <2>1 DEF NonceInv, UniqueNonces, NonceCoversTime, RealTimeOrder
  <2> QED
    BY <2>2, <2>3, <2>4, <2>5 DEF NonceInv
<1>3. ASSUME NEW t \in Threads, CasSucceeds(t) PROVE NonceInv'
  <2>1. /\ nonceCounter < nonceCounter'
        /\ nonceCounter' \in Nat
        /\ now[t] <= nonceCounter'
        /\ result'[t] = nonceCounter'
    BY <1>3, NewNonceGrows DEF NonceTypeOK
  <2>2. /\ UNCHANGED <<now, current, seen, issued>>
        /\ at'[t] = "return"
        /\ \A u \in Threads : u # t => at'[u] = at[u] /\ result'[u] = result[u]
    BY <1>3 DEF CasSucceeds, NonceTypeOK
  <2>3. CounterCoversAll'
    <3>1. \A i \in DOMAIN issued' : issued'[i].nonce <= nonceCounter'
      BY <2>1, <2>2 DEF NonceInv, CounterCoversAll
    <3>2. \A u \in Threads : at'[u] = "return" => result'[u] <= nonceCounter'
      BY <2>1, <2>2 DEF NonceInv, CounterCoversAll
    <3>3. \A u \in Threads : at'[u] = "cas" => current'[u] <= nonceCounter'
      BY <2>1, <2>2 DEF NonceInv, CounterCoversAll
    <3> QED
      BY <3>1, <3>2, <3>3 DEF CounterCoversAll
  <2>4. PendingIsFresh'
    <3>1. \A i \in DOMAIN issued : issued[i].nonce < nonceCounter'
      BY <2>1 DEF NonceInv, CounterCoversAll
    <3>2. \A u \in Threads : u # t /\ at[u] = "return" => result[u] < nonceCounter'
      BY <2>1 DEF NonceInv, CounterCoversAll
    <3>3. \A u \in Threads : at'[u] = "return" => now'[u] <= result'[u]
      BY <2>1, <2>2 DEF NonceInv, PendingIsFresh
    <3>4. \A u \in Threads : at'[u] = "return" =>
            \A i \in DOMAIN issued : issued[i].nonce # result'[u]
      BY <2>1, <2>2, <3>1 DEF NonceInv, PendingIsFresh
    <3>5. \A u, v \in Threads :
            u # v /\ at'[u] = "return" /\ at'[v] = "return" => result'[u] # result'[v]
      BY <2>1, <2>2, <3>2 DEF NonceInv, PendingIsFresh
    <3> QED
      BY <2>2, <3>3, <3>4, <3>5 DEF PendingIsFresh
  <2>5. SeenIsPast'
    <3>1. \A k \in 1 .. seen[t] : issued[k].nonce < nonceCounter'
      BY <2>1 DEF NonceInv, CounterCoversAll, SeenIsPast
    <3> QED
      BY <2>1, <2>2, <3>1 DEF NonceInv, SeenIsPast
  <2>6. UniqueNonces' /\ NonceCoversTime' /\ RealTimeOrder'
    BY <2>2 DEF NonceInv, UniqueNonces, NonceCoversTime, RealTimeOrder
  <2> QED
    BY <2>3, <2>4, <2>5, <2>6 DEF NonceInv
<1>4. ASSUME NEW t \in Threads, CasFails(t) PROVE NonceInv'
  <2>1. /\ UNCHANGED <<nonceCounter, now, current, result, seen, issued>>
        /\ at'[t] = "load"
        /\ \A u \in Threads : u # t => at'[u] = at[u]
    BY <1>4 DEF CasFails, NonceTypeOK
  <2>2. CounterCoversAll' /\ PendingIsFresh'
    BY <2>1 DEF NonceInv, CounterCoversAll, PendingIsFresh
  <2>3. SeenIsPast'
    BY <2>1 DEF NonceInv, SeenIsPast
  <2>4. UniqueNonces' /\ NonceCoversTime' /\ RealTimeOrder'
    BY <2>1 DEF NonceInv, UniqueNonces, NonceCoversTime, RealTimeOrder
  <2> QED
    BY <2>2, <2>3, <2>4 DEF NonceInv
<1>5. ASSUME NEW t \in Threads, Return(t) PROVE NonceInv'
  <2> DEFINE n == Len(issued)
             new == [nonce |-> result[t], now |-> now[t], seen |-> seen[t]]
  <2>1. /\ issued' = Append(issued, new)
        /\ at[t] = "return"
        /\ UNCHANGED <<nonceCounter, now, current, result, seen>>
        /\ at'[t] = "idle"
        /\ \A u \in Threads : u # t => at'[u] = at[u]
    BY <1>5 DEF Return, NonceTypeOK
  <2>2. /\ Len(issued') = n + 1
        /\ issued'[n + 1] = new
        /\ \A i \in 1 .. n : issued'[i] = issued[i]
        /\ DOMAIN issued = 1 .. n
        /\ DOMAIN issued' = 1 .. n + 1
        /\ n \in Nat
    BY <2>1 DEF NonceTypeOK
  <2>3. /\ new.nonce = result[t]
        /\ new.now = now[t]
        /\ new.seen = seen[t]
    OBVIOUS
  <2> HIDE DEF n, new
  <2>4. CounterCoversAll'
    <3>1. \A i \in 1 .. n + 1 : issued'[i].nonce <= nonceCounter
      BY <2>1, <2>2, <2>3 DEF NonceInv, CounterCoversAll
    <3> QED
      BY <2>1, <2>2, <3>1 DEF NonceInv, CounterCoversAll
  <2>5. PendingIsFresh'
    <3>1. ASSUME NEW u \in Threads, at'[u] = "return"
          PROVE  /\ now'[u] <= result'[u]
                 /\ \A i \in DOMAIN issued' : issued'[i].nonce # result'[u]
      <4>1. u # t /\ at[u] = "return"
        BY <2>1, <3>1
      <4>2. \A i \in 1 .. n : issued'[i].nonce # result[u]
        BY <2>2, <4>1 DEF NonceInv, PendingIsFresh
      <4>3. issued'[n + 1].nonce # result[u]
        BY <2>1, <2>2, <2>3, <4>1 DEF NonceInv, PendingIsFresh
      <4> QED
        BY <2>1, <2>2, <4>1, <4>2, <4>3 DEF NonceInv, PendingIsFresh
    <3>2. \A u, v \in Threads :
            u # v /\ at'[u] = "return" /\ at'[v] = "return" => result'[u] # result'[v]
      BY <2>1 DEF NonceInv, PendingIsFresh
    <3> QED
      BY <3>1, <3>2 DEF PendingIsFresh
  <2>6. SeenIsPast'
    <3>1. seen[t] <= n
      BY DEF NonceInv, SeenIsPast, n
    <3>2. \A u \in Threads : seen[u] <= n + 1
      BY <2>2 DEF NonceInv, SeenIsPast, n
    <3>3. \A i \in DOMAIN issued' : issued'[i].seen < i
      BY <2>2, <2>3, <3>1 DEF NonceInv, SeenIsPast
    <3>4. ASSUME NEW u \in Threads, at'[u] = "return", NEW k \in 1 .. seen[u]
          PROVE  issued'[k].nonce < result[u]
      <4>1. k \in 1 .. n /\ at[u] = "return"
        BY <2>1, <2>2, <3>4 DEF NonceInv, SeenIsPast, n
      <4> QED
        BY <2>2, <4>1 DEF NonceInv, SeenIsPast
    <3> QED
      BY <2>1, <2>2, <3>2, <3>3, <3>4 DEF SeenIsPast
  <2>7. UniqueNonces'
    BY <2>1, <2>2, <2>3 DEF NonceInv, PendingIsFresh, UniqueNonces
  <2>8. NonceCoversTime'
    BY <2>1, <2>2, <2>3 DEF NonceInv, PendingIsFresh, NonceCoversTime
  <2>9. RealTimeOrder'
    <3> SUFFICES ASSUME NEW i \in 1 .. n + 1, NEW k \in 1 .. issued'[i].seen
                 PROVE  issued'[k].nonce < issued'[i].nonce
      BY <2>2 DEF RealTimeOrder
    <3>1. CASE i = n + 1
      <4>1. k \in 1 .. seen[t] /\ k \in 1 .. n
        BY <2>2, <2>3, <3>1 DEF NonceInv, SeenIsPast, n
      <4> QED
        BY <2>1, <2>2, <2>3, <3>1, <4>1 DEF NonceInv, SeenIsPast
    <3>2. CASE i \in 1 .. n
      <4>1. issued'[i] = issued[i] /\ i \in DOMAIN issued
        BY <2>2, <3>2
      <4>2. k \in 1 .. issued[i].seen /\ issued[i].seen < i
        BY <4>1 DEF NonceInv, SeenIsPast
      <4>3. k \in 1 .. n
        BY <2>2, <3>2, <4>1, <4>2
      <4> QED
        BY <2>2, <4>1, <4>2, <4>3 DEF NonceInv, RealTimeOrder
    <3> QED
      BY <2>2, <3>1, <3>2
  <2> QED
    BY <2>4, <2>5, <2>6, <2>7, <2>8, <2>9 DEF NonceInv
<1>6. CASE UNCHANGED nonceVars
  BY <1>6 DEF nonceVars, NonceInv, CounterCoversAll, PendingIsFresh, SeenIsPast,
              UniqueNonces, NonceCoversTime, RealTimeOrder
<1> QED
  BY <1>1, <1>2, <1>3, <1>4, <1>5, <1>6 DEF NonceNext

\* The inductive invariant holds in every reachable state.
THEOREM NonceInvariant == NonceSpec => []NonceInv
<1>1. NonceInit => NonceInv
  BY NonceAssumption DEF NonceInit, NonceInv, CounterCoversAll, PendingIsFresh,
     SeenIsPast, UniqueNonces, NonceCoversTime, RealTimeOrder
<1>2. NonceTypeOK /\ NonceTypeOK' /\ NonceInv /\ [NonceNext]_nonceVars => NonceInv'
  BY NonceInvStep
<1> QED
  BY <1>1, <1>2, NonceTyping, PTL DEF NonceSpec

\* No two calls of GetNonce return the same nonce.
THEOREM NonceUnique == NonceSpec => []UniqueNonces
<1>1. NonceInv => UniqueNonces
  BY DEF NonceInv
<1> QED
  BY <1>1, NonceInvariant, PTL

\* Every nonce is at least the clock value its call read.
THEOREM NonceAtLeastNow == NonceSpec => []NonceCoversTime
<1>1. NonceInv => NonceCoversTime
  BY DEF NonceInv
<1> QED
  BY <1>1, NonceInvariant, PTL

\* Calls that do not overlap get increasing nonces.
THEOREM NonceRealTimeOrder == NonceSpec => []RealTimeOrder
<1>1. NonceInv => RealTimeOrder
  BY DEF NonceInv
<1> QED
  BY <1>1, NonceInvariant, PTL

\* A retry of the loop is another call's progress.
THEOREM NonceRetryMeansProgress == NonceSpec => RetryMeansProgress
<1>1. NonceTypeOK /\ NonceInv /\ [NonceNext]_nonceVars =>
        [\A t \in Threads :
           at[t] = "cas" /\ at'[t] = "load" => current[t] < nonceCounter]_nonceVars
  <2> SUFFICES ASSUME NonceTypeOK, NonceInv, [NonceNext]_nonceVars, NEW t \in Threads,
                      at[t] = "cas", at'[t] = "load"
               PROVE  current[t] < nonceCounter
    OBVIOUS
  <2>1. current[t] # nonceCounter
    BY DEF NonceTypeOK, NonceNext, nonceVars, Call, Load, CasSucceeds, CasFails, CasOk, Return
  <2>2. current[t] <= nonceCounter
    BY DEF NonceInv, CounterCoversAll
  <2> QED
    BY <2>1, <2>2 DEF NonceTypeOK
<1> QED
  BY <1>1, NonceTyping, NonceInvariant, PTL DEF NonceSpec, RetryMeansProgress

-----------------------------------------------------------------------------
\* The loop implements the atomic counter of AtomicNonce.
THEOREM NonceImplementsAtomic == NonceSpec => AtomicSpec
<1> DEFINE phase == [t \in Threads |-> CASE at[t] = "idle" -> "idle"
                                         [] at[t] = "return" -> "taken"
                                         [] OTHER -> "asked"]
<1>1. NonceInit => Atomic!Init
  BY DEF NonceInit, Atomic!Init
<1>2. NonceTypeOK /\ NonceTypeOK' /\ [NonceNext]_nonceVars => [Atomic!Next]_Atomic!vars
  <2> SUFFICES ASSUME NonceTypeOK, NonceTypeOK', [NonceNext]_nonceVars
               PROVE  [Atomic!Next]_Atomic!vars
    OBVIOUS
  <2> USE DEF NonceTypeOK, NonceLocations
  <2>1. ASSUME NEW t \in Threads, Call(t) PROVE Atomic!Ask(t)
    BY <2>1 DEF Call, Atomic!Ask
  <2>2. ASSUME NEW t \in Threads, Load(t) PROVE UNCHANGED Atomic!vars
    BY <2>2 DEF Load, Atomic!vars
  <2>3. ASSUME NEW t \in Threads, CasSucceeds(t) PROVE Atomic!Take(t)
    BY <2>3 DEF CasSucceeds, CasOk, NewNonce, Atomic!Take, Atomic!Successor
  <2>4. ASSUME NEW t \in Threads, CasFails(t) PROVE UNCHANGED Atomic!vars
    BY <2>4 DEF CasFails, Atomic!vars
  <2>5. ASSUME NEW t \in Threads, Return(t) PROVE Atomic!Return(t)
    BY <2>5 DEF Return, Atomic!Return
  <2>6. CASE UNCHANGED nonceVars
    BY <2>6 DEF nonceVars, Atomic!vars
  <2> QED
    BY <2>1, <2>2, <2>3, <2>4, <2>5, <2>6 DEF NonceNext, Atomic!Next
<1> QED
  BY <1>1, <1>2, NonceTyping, PTL DEF NonceSpec, AtomicSpec, Atomic!Spec

-----------------------------------------------------------------------------
(* PostRequest.                                                            *)

\* Every variable of a post keeps its type.
THEOREM PostTypeOK == Spec => []TypeOK
<1> USE DEF TypeOK, Message, Locations, Outcomes, Connections
<1>1. Init => TypeOK
  <2>1. ASSUME Init PROVE conn \in Connections /\ muHeld \in BOOLEAN
    BY <2>1 DEF Init
  <2>2. ASSUME Init PROVE /\ pc \in [Callers -> Locations] /\ id \in [Callers -> Nat]
                          /\ outcome \in [Callers -> Outcomes] /\ got \in [Callers -> Nat]
                          /\ request \in [Callers -> Nat]
    BY <2>2 DEF Init
  <2>3. ASSUME Init PROVE /\ nextPostID \in Nat /\ made \in Nat
                          /\ registered \subseteq Nat /\ closed \subseteq Nat
                          /\ slot \subseteq Message /\ asked \subseteq Message
                          /\ answers \subseteq Message /\ reading \subseteq Message
                          /\ answered \subseteq Nat
    BY <2>3 DEF Init
  <2> QED
    BY <2>1, <2>2, <2>3
<1>2. TypeOK /\ [Next]_vars => TypeOK'
  <2> SUFFICES ASSUME TypeOK, [Next]_vars PROVE TypeOK'
    OBVIOUS
  <2>1. ASSUME NEW c \in Callers, TakeID(c) PROVE TypeOK'
    BY <2>1 DEF TakeID, NewID, serverVars
  <2>2. ASSUME NEW c \in Callers, CallerStep(c) PROVE TypeOK'
    <3>1. CASE Register(c)
      BY <3>1 DEF Register, serverVars
    <3>2. CASE Write(c)
      BY <3>2 DEF Write
    <3>3. CASE WriteFails(c)
      BY <3>3 DEF WriteFails, Ends, serverVars
    <3>4. CASE TakeResponse(c)
      BY <3>4 DEF TakeResponse, Ends, serverVars
    <3>5. CASE TakeZero(c)
      BY <3>5 DEF TakeZero, Ends, serverVars
    <3>6. CASE TimeOut(c)
      BY <3>6 DEF TimeOut, Ends, serverVars
    <3>7. CASE Cleanup(c)
      BY <3>7 DEF Cleanup, serverVars
    <3>8. CASE WriteHangs(c)
      BY <3>8 DEF WriteHangs, serverVars
    <3> QED
      BY <2>2, <3>1, <3>2, <3>3, <3>4, <3>5, <3>6, <3>7, <3>8 DEF CallerStep
  <2>3. ASSUME NEW m \in asked, Answer(m) PROVE TypeOK'
    BY <2>3 DEF Answer, clientVars
  <2>4. ASSUME NEW m \in answers, ReadAnswer(m) PROVE TypeOK'
    BY <2>4 DEF ReadAnswer, clientVars
  <2>5. ASSUME NEW m \in reading, HandleResponse(m) PROVE TypeOK'
    BY <2>5 DEF HandleResponse
  <2>6. CASE Disconnect
    BY <2>6 DEF Disconnect, LosesConn
  <2>7. CASE ConnectionLost \/ Teardown
    BY <2>7 DEF ConnectionLost, Teardown, LosesConn, clientVars
  <2>8. CASE Connect \/ OtherWriteHangs
    BY <2>8 DEF Connect, OtherWriteHangs, clientVars, serverVars
  <2>9. CASE UNCHANGED vars
    BY <2>9 DEF vars, clientVars, serverVars
  <2> QED
    BY <2>1, <2>2, <2>3, <2>4, <2>5, <2>6, <2>7, <2>8, <2>9 DEF Next
<1> QED
  BY <1>1, <1>2, PTL DEF Spec

-----------------------------------------------------------------------------
(* Each action preserves PostInv.  The definitions the steps have in        *)
(* common are expanded once, here.                                          *)

USE DEF InCall, Holding, Messages

\* A new call's id is larger than every id in use.
LEMMA TakeIDStep ==
  ASSUME TypeOK, PostInv, NEW c \in Callers, TakeID(c)
  PROVE  PostInv'
<1> USE DEF TypeOK, Message
<1>1. /\ UNCHANGED <<registered, closed, slot, asked, answers, reading, answered>>
      /\ nextPostID' = nextPostID + 1 /\ made' = made + 1
      /\ pc[c] = "idle" /\ pc'[c] = "register"
      /\ id'[c] = nextPostID + 1 /\ request'[c] = made + 1
      /\ outcome'[c] = "none"
      /\ \A d \in Callers \ {c} : /\ pc'[d] = pc[d] /\ id'[d] = id[d]
                                  /\ request'[d] = request[d]
                                  /\ outcome'[d] = outcome[d] /\ got'[d] = got[d]
  BY DEF TakeID, NewID, serverVars
<1>2. IdsTaken'
  <2>1. nextPostID \in Nat /\ nextPostID <= nextPostID'
    BY <1>1
  <2>2. \A d \in Callers : id'[d] <= nextPostID'
    <3>1. \A d \in Callers \ {c} : id'[d] \in Nat /\ id'[d] <= nextPostID
      BY <1>1 DEF PostInv, IdsTaken
    <3> QED
      BY <1>1, <2>1, <3>1
  <2>3. \A i \in registered \cup closed : i <= nextPostID'
    BY <1>1, <2>1 DEF PostInv, IdsTaken
  <2>4. \A m \in Messages : m.id <= nextPostID'
    BY <1>1, <2>1 DEF PostInv, IdsTaken
  <2> QED
    BY <1>1, <2>2, <2>3, <2>4 DEF IdsTaken
<1>3. OwnAnswer' /\ RegisteredAreOpen' /\ RegisteredInUse'
  BY <1>1 DEF PostInv, OwnAnswer, RegisteredAreOpen, RegisteredInUse
<1>4. UniqueIds'
  BY <1>1 DEF PostInv, UniqueIds, IdsTaken
<1>5. WaiterReachable' /\ FreshBeforeRegister'
  BY <1>1 DEF PostInv, WaiterReachable, FreshBeforeRegister, IdsTaken
<1>6. MessagesMatch'
  BY <1>1 DEF PostInv, MessagesMatch, IdsTaken
<1>7. RequestsMade'
  BY <1>1 DEF PostInv, RequestsMade
<1> QED
  BY <1>2, <1>3, <1>4, <1>5, <1>6, <1>7 DEF PostInv

\* The id registered is nobody else's and not a closed one.
LEMMA RegisterStep ==
  ASSUME TypeOK, PostInv, NEW c \in Callers, Register(c)
  PROVE  PostInv'
<1>1. /\ UNCHANGED <<nextPostID, closed, slot, id, outcome, got, asked, answers,
                     reading, answered, made, request>>
      /\ registered' = registered \cup {id[c]}
      /\ pc[c] = "register" /\ pc'[c] = "write"
      /\ \A d \in Callers \ {c} : pc'[d] = pc[d]
  BY DEF Register, serverVars, TypeOK
<1>2. IdsTaken'
  BY <1>1 DEF PostInv, IdsTaken
<1>3. OwnAnswer' /\ UniqueIds' /\ WaiterReachable'
  BY <1>1 DEF PostInv, OwnAnswer, UniqueIds, WaiterReachable
<1>4. RegisteredAreOpen' /\ RegisteredInUse' /\ FreshBeforeRegister'
  BY <1>1 DEF PostInv, RegisteredAreOpen, RegisteredInUse, FreshBeforeRegister, UniqueIds
<1>5. MessagesMatch' /\ RequestsMade'
  BY <1>1 DEF PostInv, MessagesMatch, RequestsMade
<1> QED
  BY <1>2, <1>3, <1>4, <1>5 DEF PostInv

\* The message written carries the caller's own id and request.
LEMMA WriteStep ==
  ASSUME TypeOK, PostInv, NEW c \in Callers, Write(c)
  PROVE  PostInv'
<1>1. /\ UNCHANGED <<nextPostID, registered, closed, slot, id, outcome, got, answers,
                     reading, answered, made, request>>
      /\ asked' = asked \cup {[id |-> id[c], req |-> request[c]]}
      /\ pc[c] = "write" /\ pc'[c] = "wait"
      /\ \A d \in Callers \ {c} : pc'[d] = pc[d]
  BY DEF Write, TypeOK
<1>2. IdsTaken'
  BY <1>1 DEF PostInv, IdsTaken
<1>3. OwnAnswer' /\ UniqueIds' /\ WaiterReachable' /\ FreshBeforeRegister'
  BY <1>1 DEF PostInv, OwnAnswer, UniqueIds, WaiterReachable, FreshBeforeRegister
<1>4. RegisteredAreOpen' /\ RegisteredInUse'
  BY <1>1 DEF PostInv, RegisteredAreOpen, RegisteredInUse
<1>5. MessagesMatch'
  BY <1>1 DEF PostInv, MessagesMatch, UniqueIds
<1>6. RequestsMade'
  BY <1>1 DEF PostInv, RequestsMade
<1> QED
  BY <1>2, <1>3, <1>4, <1>5, <1>6 DEF PostInv

\* A call that hangs keeps its registration and waits for nothing.
LEMMA HangStep ==
  ASSUME TypeOK, PostInv, NEW c \in Callers, WriteHangs(c)
  PROVE  PostInv'
<1>1. /\ UNCHANGED <<nextPostID, registered, closed, slot, id, outcome, got, asked,
                     answers, reading, answered, made, request>>
      /\ pc[c] = "write" /\ pc'[c] = "hung"
      /\ \A d \in Callers \ {c} : pc'[d] = pc[d]
  BY DEF WriteHangs, serverVars, TypeOK
<1>2. IdsTaken' /\ RegisteredAreOpen'
  BY <1>1 DEF PostInv, IdsTaken, RegisteredAreOpen
<1>3. OwnAnswer' /\ UniqueIds' /\ WaiterReachable' /\ FreshBeforeRegister'
  BY <1>1 DEF PostInv, OwnAnswer, UniqueIds, WaiterReachable, FreshBeforeRegister
<1>4. RegisteredInUse'
  BY <1>1 DEF PostInv, RegisteredInUse
<1>5. MessagesMatch' /\ RequestsMade'
  BY <1>1 DEF PostInv, MessagesMatch, RequestsMade
<1> QED
  BY <1>2, <1>3, <1>4, <1>5 DEF PostInv

\* However a call ends, what it returns answers its own request.
LEMMA EndStep ==
  ASSUME TypeOK, PostInv, NEW c \in Callers,
         WriteFails(c) \/ TakeResponse(c) \/ TakeZero(c) \/ TimeOut(c)
  PROVE  PostInv'
<1>1. /\ UNCHANGED <<nextPostID, registered, closed, id, asked, answers,
                     reading, answered, made, request>>
      /\ slot' \subseteq slot
      /\ pc[c] \in {"write", "wait"} /\ pc'[c] = "cleanup"
      /\ outcome'[c] = "answer" => got'[c] = request[c]
      /\ \A d \in Callers \ {c} : /\ pc'[d] = pc[d]
                                  /\ outcome'[d] = outcome[d] /\ got'[d] = got[d]
  <2>1. CASE WriteFails(c) \/ TakeZero(c) \/ TimeOut(c)
    BY <2>1 DEF WriteFails, TakeZero, TimeOut, Ends, serverVars, TypeOK
  <2>2. CASE TakeResponse(c)
    BY <2>2 DEF TakeResponse, Ends, serverVars, TypeOK, PostInv, MessagesMatch
  <2> QED
    BY <2>1, <2>2
<1>2. IdsTaken' /\ RegisteredAreOpen'
  BY <1>1 DEF PostInv, IdsTaken, RegisteredAreOpen
<1>3. OwnAnswer' /\ UniqueIds' /\ WaiterReachable' /\ FreshBeforeRegister'
  BY <1>1 DEF PostInv, OwnAnswer, UniqueIds, WaiterReachable, FreshBeforeRegister
<1>4. RegisteredInUse'
  BY <1>1 DEF PostInv, RegisteredInUse
<1>5. MessagesMatch' /\ RequestsMade'
  BY <1>1 DEF PostInv, MessagesMatch, RequestsMade
<1> QED
  BY <1>2, <1>3, <1>4, <1>5 DEF PostInv

\* The deferred delete removes no other call's registration.
LEMMA CleanupStep ==
  ASSUME TypeOK, PostInv, NEW c \in Callers, Cleanup(c)
  PROVE  PostInv'
<1>1. /\ UNCHANGED <<nextPostID, closed, slot, id, outcome, got, asked, answers,
                     reading, answered, made, request>>
      /\ registered' = registered \ {id[c]}
      /\ pc[c] = "cleanup" /\ pc'[c] = "idle"
      /\ \A d \in Callers \ {c} : pc'[d] = pc[d]
  BY DEF Cleanup, serverVars, TypeOK
<1>2. IdsTaken' /\ RegisteredAreOpen'
  BY <1>1 DEF PostInv, IdsTaken, RegisteredAreOpen
<1>3. OwnAnswer' /\ UniqueIds' /\ FreshBeforeRegister'
  BY <1>1 DEF PostInv, OwnAnswer, UniqueIds, FreshBeforeRegister
<1>4. WaiterReachable' /\ RegisteredInUse'
  BY <1>1 DEF PostInv, WaiterReachable, RegisteredInUse, UniqueIds
<1>5. MessagesMatch' /\ RequestsMade'
  BY <1>1 DEF PostInv, MessagesMatch, RequestsMade
<1> QED
  BY <1>2, <1>3, <1>4, <1>5 DEF PostInv

\* The server, the reader and the connection move messages about; the
\* client's calls stay where they are.
LEMMA ServerStep ==
  ASSUME TypeOK, PostInv,
         \/ \E m \in asked : Answer(m)
         \/ \E m \in answers : ReadAnswer(m)
         \/ \E m \in reading : HandleResponse(m)
         \/ Disconnect \/ ConnectionLost \/ Teardown \/ Connect \/ OtherWriteHangs
  PROVE  PostInv'
<1>1. /\ UNCHANGED <<nextPostID, pc, id, outcome, got, made, request>>
      /\ Messages' \subseteq Messages
      /\ \A m \in slot' \cup answers' \cup reading' : m.req \in answered'
      /\ registered' \subseteq registered
      /\ registered' \cup closed' = registered \cup closed
      /\ registered' \cap closed' = {}
  <2> USE DEF PostInv, RequestsMade, RegisteredAreOpen
  <2>1. CASE \E m \in asked : Answer(m)
    BY <2>1 DEF Answer, clientVars
  <2>2. CASE \E m \in answers : ReadAnswer(m)
    BY <2>2 DEF ReadAnswer, clientVars
  <2>3. CASE \E m \in reading : HandleResponse(m)
    BY <2>3 DEF HandleResponse
  <2>4. CASE Disconnect \/ ConnectionLost \/ Teardown \/ Connect \/ OtherWriteHangs
    BY <2>4 DEF Disconnect, ConnectionLost, Teardown, Connect, OtherWriteHangs, LosesConn,
                clientVars, serverVars
  <2> QED
    BY <2>1, <2>2, <2>3, <2>4
<1>2. IdsTaken' /\ RegisteredAreOpen' /\ RegisteredInUse'
  BY <1>1 DEF PostInv, IdsTaken, RegisteredAreOpen, RegisteredInUse
<1>3. OwnAnswer' /\ UniqueIds' /\ FreshBeforeRegister' /\ WaiterReachable'
  BY <1>1 DEF PostInv, OwnAnswer, UniqueIds, FreshBeforeRegister, WaiterReachable
<1>4. MessagesMatch' /\ RequestsMade'
  BY <1>1 DEF PostInv, MessagesMatch, RequestsMade
<1> QED
  BY <1>2, <1>3, <1>4 DEF PostInv

\* The inductive invariant holds in every reachable state.
THEOREM PostInvariant == Spec => []PostInv
<1>1. Init => PostInv
  BY DEF Init, PostInv, OwnAnswer, RegisteredAreOpen, RegisteredInUse, UniqueIds,
         WaiterReachable, IdsTaken, FreshBeforeRegister, MessagesMatch, RequestsMade
<1>2. TypeOK /\ PostInv /\ [Next]_vars => PostInv'
  <2> SUFFICES ASSUME TypeOK, PostInv, [Next]_vars PROVE PostInv'
    OBVIOUS
  <2>1. CASE Next
    BY <2>1, TakeIDStep, RegisterStep, WriteStep, HangStep, EndStep, CleanupStep, ServerStep
       DEF Next, CallerStep
  <2>2. CASE UNCHANGED vars
    BY <2>2 DEF vars, clientVars, serverVars, PostInv, OwnAnswer, RegisteredAreOpen,
       RegisteredInUse, UniqueIds, WaiterReachable, IdsTaken, FreshBeforeRegister,
       MessagesMatch, RequestsMade
  <2> QED
    BY <2>1, <2>2
<1> QED
  BY <1>1, <1>2, PostTypeOK, PTL DEF Spec

\* A call that reports a response reports the answer to its own request.
THEOREM PostOwnAnswer == Spec => []OwnAnswer
<1>1. PostInv => OwnAnswer
  BY DEF PostInv
<1> QED
  BY <1>1, PostInvariant, PTL

\* The reader never sends on a channel Disconnect has closed.
THEOREM PostRegisteredAreOpen == Spec => []RegisteredAreOpen
<1>1. PostInv => RegisteredAreOpen
  BY DEF PostInv
<1> QED
  BY <1>1, PostInvariant, PTL

\* postResponses holds no registration of a call that is over.
THEOREM PostRegisteredInUse == Spec => []RegisteredInUse
<1>1. PostInv => RegisteredInUse
  BY DEF PostInv
<1> QED
  BY <1>1, PostInvariant, PTL

\* No waiting call is cut off from both an answer and a close.
THEOREM PostWaiterReachable == Spec => []WaiterReachable
<1>1. PostInv => WaiterReachable
  BY DEF PostInv
<1> QED
  BY <1>1, PostInvariant, PTL

-----------------------------------------------------------------------------
\* The refinement mapping's phase, one call at a time.
LEMMA AbstractSteps ==
  ASSUME TypeOK, TypeOK', PostInv, [Next]_vars
  PROVE  [Abstract!Next]_Abstract!vars
<1> USE DEF TypeOK, Locations, Message
<1>1. ASSUME NEW c \in Callers, TakeID(c) PROVE Abstract!Begin(c)
  BY <1>1 DEF TakeID, NewID, serverVars, Abstract!Begin
<1>2. ASSUME NEW c \in Callers, Register(c) \/ Write(c) \/ WriteHangs(c)
      PROVE  UNCHANGED Abstract!vars
  BY <1>2 DEF Register, Write, WriteHangs, serverVars, Abstract!vars
<1>3. ASSUME NEW c \in Callers,
             WriteFails(c) \/ TakeResponse(c) \/ TakeZero(c) \/ TimeOut(c)
      PROVE  Abstract!Finish(c)
  <2>1. \E o \in {"answer", "empty", "timeout", "failed"} :
          /\ o = "answer" => request[c] \in answered
          /\ outcome' = [outcome EXCEPT ![c] = o]
    <3>1. CASE WriteFails(c) \/ TakeZero(c) \/ TimeOut(c)
      BY <3>1 DEF WriteFails, TakeZero, TimeOut, Ends
    <3>2. CASE TakeResponse(c)
      BY <3>2 DEF TakeResponse, Ends, PostInv, MessagesMatch, RequestsMade
    <3> QED
      BY <1>3, <3>1, <3>2
  <2>2. /\ pc[c] \in {"write", "wait"}
        /\ pc' = [pc EXCEPT ![c] = "cleanup"]
        /\ UNCHANGED <<made, answered, request>>
    BY <1>3 DEF WriteFails, TakeResponse, TakeZero, TimeOut, Ends, serverVars
  <2> QED
    BY <2>1, <2>2 DEF Abstract!Finish
<1>4. ASSUME NEW c \in Callers, Cleanup(c) PROVE Abstract!Return(c)
  BY <1>4 DEF Cleanup, serverVars, Abstract!Return
<1>5. ASSUME NEW m \in asked, Answer(m) PROVE Abstract!Answer(m.req)
  BY <1>5 DEF Answer, clientVars, Abstract!Answer, PostInv, RequestsMade
<1>6. ASSUME \/ \E m \in answers : ReadAnswer(m)
             \/ \E m \in reading : HandleResponse(m)
             \/ Disconnect \/ ConnectionLost \/ Teardown \/ Connect \/ OtherWriteHangs
             \/ UNCHANGED vars
      PROVE  UNCHANGED Abstract!vars
  BY <1>6 DEF ReadAnswer, HandleResponse, Disconnect, ConnectionLost, Teardown, Connect,
              OtherWriteHangs, LosesConn, clientVars, serverVars, vars, Abstract!vars
<1>7. ASSUME NEW m \in asked, Answer(m) PROVE Abstract!Next
  BY <1>5, <1>7 DEF PostInv, RequestsMade, Abstract!Next
<1> QED
  BY <1>1, <1>2, <1>3, <1>4, <1>6, <1>7 DEF Next, CallerStep, Abstract!Next

\* The client and the server implement RequestReply: a call ends once, with
\* the server's answer to its own request or without one.
THEOREM PostImplementsRequestReply == Spec => RequestReplySpec
<1>1. Init => Abstract!Init
  BY DEF Init, Abstract!Init
<1>2. TypeOK /\ TypeOK' /\ PostInv /\ [Next]_vars => [Abstract!Next]_Abstract!vars
  BY AbstractSteps
<1> QED
  BY <1>1, <1>2, PostTypeOK, PostInvariant, PTL DEF Spec, RequestReplySpec, Abstract!Spec
=============================================================================
