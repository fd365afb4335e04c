-------------------------- MODULE OrderedDelivery --------------------------
(***************************************************************************)
(* What the relay promises to whoever subscribes, without topics, feeds,   *)
(* buffers or locks: of each symbol, a session is offered updates in the   *)
(* order in which they were produced and each at most once; an update it   *)
(* is offered is kept for it or lost for good, and what is kept it takes   *)
(* in that same order.                                                     *)
(***************************************************************************)
EXTENDS Integers

CONSTANTS Symbols, Sessions

VARIABLES
  produced,  \* updates produced of each symbol
  kept,      \* updates [sym, seq] each session was offered and kept
  lost,      \* updates it was offered and lost
  taken      \* updates it took

vars == <<produced, kept, lost, taken>>

Init ==
  /\ produced = [x \in Symbols |-> 0]
  /\ kept = [s \in Sessions |-> {}]
  /\ lost = [s \in Sessions |-> {}]
  /\ taken = [s \in Sessions |-> {}]

Before(u, v) == u.sym = v.sym => u.seq < v.seq

Produce(x) ==
  /\ produced' = [produced EXCEPT ![x] = @ + 1]
  /\ UNCHANGED <<kept, lost, taken>>

\* The session has been offered nothing from u on.
Due(s, u) == \A v \in kept[s] \cup lost[s] : Before(v, u)

Keep(s, u) ==
  /\ Due(s, u)
  /\ kept' = [kept EXCEPT ![s] = @ \cup {u}]
  /\ UNCHANGED <<produced, lost, taken>>

Lose(s, u) ==
  /\ Due(s, u)
  /\ lost' = [lost EXCEPT ![s] = @ \cup {u}]
  /\ UNCHANGED <<produced, kept, taken>>

\* The oldest of its symbol that was kept and not taken.
Take(s, u) ==
  /\ \A v \in kept[s] \ taken[s] : v = u \/ Before(u, v)
  /\ taken' = [taken EXCEPT ![s] = @ \cup {u}]
  /\ UNCHANGED <<produced, kept, lost>>

Next ==
  \/ \E x \in Symbols : Produce(x)
  \/ \E s \in Sessions :
       \/ \E x \in Symbols : \E n \in 1 .. produced[x] :
            Keep(s, [sym |-> x, seq |-> n]) \/ Lose(s, [sym |-> x, seq |-> n])
       \/ \E u \in kept[s] \ taken[s] : Take(s, u)

Spec == Init /\ [][Next]_vars
=============================================================================
