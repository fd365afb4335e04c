------------------------------- MODULE Nonce -------------------------------
(***************************************************************************)
(* GetNonce of utils.go: a compare-and-swap loop on the process-wide       *)
(* nonceCounter.  The clock is read once, before the loop; every other     *)
(* access to shared memory (the atomic load, the compare-and-swap) is a    *)
(* step of its own, so the calls of different goroutines interleave in     *)
(* every possible way.  The wall clock is not monotonic (NTP can set it    *)
(* back): a call may read any value of Times.                              *)
(***************************************************************************)
EXTENDS Integers, Sequences

CONSTANTS Threads,   \* goroutines that call GetNonce
          Times,     \* values time.Now().UnixMilli() can return
          MaxCalls   \* bound: how many calls are made in one behaviour

ASSUME NonceAssumption ==
  /\ Times \subseteq Nat
  /\ MaxCalls \in Nat

VARIABLES nonceCounter,  \* the package variable
          at,            \* where each goroutine is in GetNonce
          now,           \* its local "now"
          current,       \* its local "current"
          result,        \* the value its compare-and-swap stored
          calls,         \* history: calls begun so far
          seen,          \* history: how many calls had returned when t's began
          issued         \* history: the calls that returned, in that order

local == <<at, now, current, result>>
nonceVars == <<nonceCounter, at, now, current, result, calls, seen, issued>>

NonceLocations == {"idle", "load", "cas", "return"}

NonceTypeOK ==
  /\ nonceCounter \in Nat
  /\ at \in [Threads -> NonceLocations]
  /\ now \in [Threads -> Nat]
  /\ current \in [Threads -> Nat]
  /\ result \in [Threads -> Nat]
  /\ calls \in Nat
  /\ seen \in [Threads -> Nat]
  /\ issued \in Seq([nonce : Nat, now : Nat, seen : Nat])

NonceInit ==
  /\ nonceCounter \in Times
  /\ at = [t \in Threads |-> "idle"]
  /\ now = [t \in Threads |-> 0]
  /\ current = [t \in Threads |-> 0]
  /\ result = [t \in Threads |-> 0]
  /\ calls = 0
  /\ seen = [t \in Threads |-> 0]
  /\ issued = <<>>

-----------------------------------------------------------------------------
\* GetNonce is called and reads the clock, once.
Call(t) ==
  /\ at[t] = "idle"
  /\ calls < MaxCalls
  /\ \E n \in Times : now' = [now EXCEPT ![t] = n]
  /\ at' = [at EXCEPT ![t] = "load"]
  /\ calls' = calls + 1
  /\ seen' = [seen EXCEPT ![t] = Len(issued)]
  /\ UNCHANGED <<nonceCounter, current, result, issued>>

\* atomic.LoadInt64: what the rest of this iteration decides on.
Load(t) ==
  /\ at[t] = "load"
  /\ current' = [current EXCEPT ![t] = nonceCounter]
  /\ at' = [at EXCEPT ![t] = "cas"]
  /\ UNCHANGED <<nonceCounter, now, result, calls, seen, issued>>

\* Mutation of NewNonce: the counter is ignored.
NewNonceClockOnly(t) == now[t]

\* The value the iteration tries to store: the clock when it is ahead of the
\* counter, the next integer otherwise.
NewNonce(t) == IF current[t] < now[t] THEN now[t] ELSE current[t] + 1

\* Mutation of CasOk: a plain store.
CasOkAlways(t) == TRUE

\* The compare succeeds only if nobody moved the counter since Load.
CasOk(t) == nonceCounter = current[t]

CasSucceeds(t) ==
  /\ at[t] = "cas"
  /\ CasOk(t)
  /\ nonceCounter' = NewNonce(t)
  /\ result' = [result EXCEPT ![t] = NewNonce(t)]
  /\ at' = [at EXCEPT ![t] = "return"]
  /\ UNCHANGED <<now, current, calls, seen, issued>>

\* Mutation of CasFails: it retries without loading.
CasFailsNoReload(t) ==
  /\ at[t] = "cas"
  /\ ~CasOk(t)
  /\ UNCHANGED nonceVars

CasFails(t) ==
  /\ at[t] = "cas"
  /\ ~CasOk(t)
  /\ at' = [at EXCEPT ![t] = "load"]
  /\ UNCHANGED <<nonceCounter, now, current, result, calls, seen, issued>>

\* The caller gets the nonce; another goroutine may have run in between.
Return(t) ==
  /\ at[t] = "return"
  /\ issued' = Append(issued, [nonce |-> result[t], now |-> now[t], seen |-> seen[t]])
  /\ at' = [at EXCEPT ![t] = "idle"]
  /\ UNCHANGED <<nonceCounter, now, current, result, calls, seen>>

NonceNext ==
  \E t \in Threads :
    Call(t) \/ Load(t) \/ CasSucceeds(t) \/ CasFails(t) \/ Return(t)

NonceSpec == NonceInit /\ [][NonceNext]_nonceVars

\* The Go scheduler runs every runnable goroutine; nobody is obliged to call.
NonceFairness ==
  \A t \in Threads : WF_nonceVars(Load(t) \/ CasSucceeds(t) \/ CasFails(t) \/ Return(t))

NonceFairSpec == NonceSpec /\ NonceFairness

-----------------------------------------------------------------------------
\* No two calls of GetNonce return the same nonce, whatever the clock does
\* (utils.go:16 "returns a unique nonce").
UniqueNonces ==
  \A i, j \in DOMAIN issued : i # j => issued[i].nonce # issued[j].nonce

\* Every nonce is at least the time its call read (utils.go:16 "always at
\* least the current time"), even when the loop went round several times and
\* the counter ran ahead of the clock.
NonceCoversTime ==
  \A i \in DOMAIN issued : issued[i].now <= issued[i].nonce

\* Two calls that do not overlap are ordered: a call that began after k calls
\* had returned gets a nonce larger than each of those k.  This is what makes
\* the exchange accept actions signed one after the other.
RealTimeOrder ==
  \A i \in DOMAIN issued :
    \A k \in 1 .. issued[i].seen : issued[k].nonce < issued[i].nonce

\* The loop goes round again only because another call moved the counter
\* forward: a retry is always somebody else's progress.
RetryMeansProgress ==
  [][\A t \in Threads :
       at[t] = "cas" /\ at'[t] = "load" => current[t] < nonceCounter]_nonceVars

\* Lock freedom: of finitely many calls, every one returns.
EveryCallReturns ==
  \A t \in Threads : at[t] # "idle" ~> at[t] = "idle"

-----------------------------------------------------------------------------
(* The inductive invariant behind the three: everything handed out or about *)
(* to be handed out is at most the counter, the pending results are new,    *)
(* and a pending result exceeds what its caller may already have seen.      *)

CounterCoversAll ==
  /\ \A i \in DOMAIN issued : issued[i].nonce <= nonceCounter
  /\ \A t \in Threads : at[t] = "return" => result[t] <= nonceCounter
  /\ \A t \in Threads : at[t] = "cas" => current[t] <= nonceCounter

PendingIsFresh ==
  /\ \A t \in Threads : at[t] = "return" =>
       /\ now[t] <= result[t]
       /\ \A i \in DOMAIN issued : issued[i].nonce # result[t]
  /\ \A t, u \in Threads :
       t # u /\ at[t] = "return" /\ at[u] = "return" => result[t] # result[u]

SeenIsPast ==
  /\ \A t \in Threads : seen[t] <= Len(issued)
  /\ \A i \in DOMAIN issued : issued[i].seen < i
  /\ \A t \in Threads : at[t] = "return" =>
       \A k \in 1 .. seen[t] : issued[k].nonce < result[t]

\* UniqueNonces, NonceCoversTime and RealTimeOrder together with what makes
\* them inductive.
NonceInv ==
  /\ CounterCoversAll
  /\ PendingIsFresh
  /\ SeenIsPast
  /\ UniqueNonces
  /\ NonceCoversTime
  /\ RealTimeOrder

-----------------------------------------------------------------------------
\* The loop implements the atomic counter: a call in the loop has only asked.
Atomic == INSTANCE AtomicNonce WITH
  last <- nonceCounter,
  phase <- [t \in Threads |-> CASE at[t] = "idle" -> "idle"
                               [] at[t] = "return" -> "taken"
                               [] OTHER -> "asked"],
  asked <- now,
  nonce <- result

\* The compare-and-swap loop is the indivisible Take of AtomicNonce.
AtomicSpec == Atomic!Spec
=============================================================================
