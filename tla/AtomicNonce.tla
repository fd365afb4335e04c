---------------------------- MODULE AtomicNonce ----------------------------
(***************************************************************************)
(* What GetNonce (utils.go) promises its callers: every call takes, in one *)
(* indivisible step, a value larger than every value handed out before it  *)
(* and at least the millisecond clock the call read.  Nonce.tla, the       *)
(* compare-and-swap loop of the code, is checked and proved to implement   *)
(* this specification.                                                     *)
(***************************************************************************)
EXTENDS Naturals

CONSTANTS Threads,   \* goroutines that call GetNonce
          Times      \* values time.Now().UnixMilli() can return

VARIABLES last,      \* the largest nonce handed out, or the start-up time
          phase,     \* phase[t] \in {"idle", "asked", "taken"}
          asked,     \* asked[t]: the clock value the pending call read
          nonce      \* nonce[t]: the nonce the pending call took

vars == <<last, phase, asked, nonce>>

\* The nonce for a call that read the clock at n while l was the last one.
Successor(l, n) == IF l < n THEN n ELSE l + 1

Init ==
  /\ last \in Times
  /\ phase = [t \in Threads |-> "idle"]
  /\ asked = [t \in Threads |-> 0]
  /\ nonce = [t \in Threads |-> 0]

Ask(t) ==
  /\ phase[t] = "idle"
  /\ \E n \in Times : asked' = [asked EXCEPT ![t] = n]
  /\ phase' = [phase EXCEPT ![t] = "asked"]
  /\ UNCHANGED <<last, nonce>>

Take(t) ==
  /\ phase[t] = "asked"
  /\ last' = Successor(last, asked[t])
  /\ nonce' = [nonce EXCEPT ![t] = Successor(last, asked[t])]
  /\ phase' = [phase EXCEPT ![t] = "taken"]
  /\ UNCHANGED asked

Return(t) ==
  /\ phase[t] = "taken"
  /\ phase' = [phase EXCEPT ![t] = "idle"]
  /\ UNCHANGED <<last, asked, nonce>>

Next == \E t \in Threads : Ask(t) \/ Take(t) \/ Return(t)

Spec == Init /\ [][Next]_vars
=============================================================================
