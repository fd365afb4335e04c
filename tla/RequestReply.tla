---------------------------- MODULE RequestReply ----------------------------
(***************************************************************************)
(* What PostRequest (websocket.go) promises: a call sends one request and  *)
(* ends once, either with the server's answer to that very request or      *)
(* without one.  WSPost.tla is checked and proved to implement this.       *)
(***************************************************************************)
EXTENDS Naturals

CONSTANTS Callers, Limit    \* Limit: bound on the requests made

VARIABLES made,      \* requests made so far, numbered from 1
          answered,  \* requests the server has answered
          phase,     \* phase[c] \in {"idle", "pending", "done"}
          request,   \* the request of c's call
          outcome    \* how it ended: "answer", "empty", "timeout" or "failed"

vars == <<made, answered, phase, request, outcome>>

Init ==
  /\ made = 0
  /\ answered = {}
  /\ phase = [c \in Callers |-> "idle"]
  /\ request = [c \in Callers |-> 0]
  /\ outcome = [c \in Callers |-> "none"]

Begin(c) ==
  /\ phase[c] = "idle"
  /\ made < Limit
  /\ made' = made + 1
  /\ request' = [request EXCEPT ![c] = made + 1]
  /\ outcome' = [outcome EXCEPT ![c] = "none"]
  /\ phase' = [phase EXCEPT ![c] = "pending"]
  /\ UNCHANGED answered

\* The server answers a request it received, whether or not anybody waits.
Answer(r) ==
  /\ r \in 1 .. made
  /\ answered' = answered \cup {r}
  /\ UNCHANGED <<made, phase, request, outcome>>

\* The answer is delivered only to the call that made the request.
Finish(c) ==
  /\ phase[c] = "pending"
  /\ \E o \in {"answer", "empty", "timeout", "failed"} :
       /\ o = "answer" => request[c] \in answered
       /\ outcome' = [outcome EXCEPT ![c] = o]
  /\ phase' = [phase EXCEPT ![c] = "done"]
  /\ UNCHANGED <<made, answered, request>>

Return(c) ==
  /\ phase[c] = "done"
  /\ phase' = [phase EXCEPT ![c] = "idle"]
  /\ UNCHANGED <<made, answered, request, outcome>>

Next ==
  \/ \E c \in Callers : Begin(c) \/ Finish(c) \/ Return(c)
  \/ \E r \in 1 .. made : Answer(r)

Spec == Init /\ [][Next]_vars
=============================================================================
