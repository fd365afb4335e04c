---------------------------- MODULE ActionCalls ----------------------------
(***************************************************************************)
(* What a signed call may rely on when it goes through MakeUniversalRequest *)
(* (api.go) and Client.Request (client.go), whatever is posted, sent again *)
(* over HTTP, delayed or lost: its action is executed at most once, only   *)
(* if the call sent it before it ended, and already when the call reports  *)
(* success.  An error leaves open whether the action was, or still will    *)
(* be, executed.  ClientRequest.tla is checked and proved to implement     *)
(* this; ExchangeService.tla is built on it.                               *)
(***************************************************************************)
EXTENDS Naturals

CONSTANT MaxCalls    \* bound: calls made

Calls == 1 .. MaxCalls

VARIABLES
  made,      \* calls made, which numbers them
  wire,      \* actions sent that are on their way or lost, by call
  executed,  \* how often each call's action was executed
  result     \* of each call: "none", "ok", or "error" for all that is not success

actionVars == <<made, wire, executed, result>>

ActionTypeOK ==
  /\ made \in 0 .. MaxCalls
  /\ wire \subseteq Calls
  /\ executed \in [Calls -> {0, 1}]
  /\ result \in [Calls -> {"none", "ok", "error"}]

ActionInit ==
  /\ made = 0
  /\ wire = {}
  /\ executed = [n \in Calls |-> 0]
  /\ result = [n \in Calls |-> "none"]

Make ==
  /\ made < MaxCalls
  /\ made' = made + 1
  /\ UNCHANGED <<wire, executed, result>>

\* A call that fails before it sends anything.
Fail ==
  /\ made < MaxCalls
  /\ made' = made + 1
  /\ result' = [result EXCEPT ![made + 1] = "error"]
  /\ UNCHANGED <<wire, executed>>

Emit(n) ==
  /\ n \in 1 .. made
  /\ result[n] = "none" /\ executed[n] = 0
  /\ wire' = wire \cup {n}
  /\ UNCHANGED <<made, executed, result>>

\* Also after the call has ended, with an error.
Execute(n) ==
  /\ n \in wire
  /\ wire' = wire \ {n}
  /\ executed' = [executed EXCEPT ![n] = @ + 1]
  /\ UNCHANGED <<made, result>>

End(n, r) ==
  /\ n \in 1 .. made
  /\ result[n] = "none"
  /\ r = "ok" => executed[n] = 1
  /\ result' = [result EXCEPT ![n] = r]
  /\ UNCHANGED <<made, wire, executed>>

ActionNext ==
  \/ Make \/ Fail
  \/ \E n \in Calls : Emit(n) \/ Execute(n) \/ \E r \in {"ok", "error"} : End(n, r)

ActionSpec == ActionInit /\ [][ActionNext]_actionVars

-----------------------------------------------------------------------------
\* What follows: success means executed, and nothing on its way was executed or
\* belongs to a call that was not made.
ActionInv ==
  /\ ActionTypeOK
  /\ \A n \in wire : n <= made /\ executed[n] = 0
  /\ \A n \in Calls : n > made => executed[n] = 0 /\ result[n] = "none"
  /\ \A n \in Calls : result[n] = "ok" => executed[n] = 1
=============================================================================
