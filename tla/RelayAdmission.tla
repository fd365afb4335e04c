--------------------------- MODULE RelayAdmission ---------------------------
(***************************************************************************)
(* How a session of the relay is admitted and served (grpc/server.go       *)
(* streamAuthInterceptor, StreamOrderBook and GetOrderBookSnapshot;        *)
(* api/server.go authMiddleware, handleGetOrderbook and WSHandler.Handle): *)
(*   - a stream takes a slot of its key, subscribes its symbol upstream,   *)
(*     serves and releases the slot;                                       *)
(*   - a socket takes a slot, serves and releases it, while the goroutine  *)
(*     that reads its messages, here a session of its own that may outlive *)
(*     it, subscribes symbols;                                             *)
(*   - a request passes the rate limiter, which creates the key's limiter  *)
(*     if there is none, and subscribes the symbol if nothing is cached.   *)
(* It composes StreamLimiter.tla and Upstream.tla; the updates themselves  *)
(* are the subject of FanoutHub.tla.                                       *)
(***************************************************************************)
EXTENDS StreamLimiter, Upstream

ASSUME AdmissionAssumption == Nobody \notin Sessions

VARIABLES at,    \* where each session is
          call   \* what it is: one of Calls, or a message

vars == <<limiterVars, upstreamVars, at, call>>

Slotted == {"stream", "socket"}
Calls == Slotted \cup {"request"}

Deciding == {"lookup", "create", "touch", "decide"}
Serving == {"subscribe", "submit", "serve", "release", "return"}

SessionTypeOK ==
  /\ at \in [Sessions -> Deciding \cup Serving \cup {"idle"}]
  /\ call \in [Sessions -> Calls \cup {"none", "message"}]

TypeOK ==
  /\ LimiterTypeOK
  /\ UpstreamTypeOK(Sessions)
  /\ SessionTypeOK

Init ==
  /\ LimiterInit /\ UpstreamInit
  /\ at = [s \in Sessions |-> "idle"]
  /\ call = [s \in Sessions |-> "none"]

Goto(s, l) == at' = [at EXCEPT ![s] = l] /\ UNCHANGED call
Ends(s) == at' = [at EXCEPT ![s] = "idle"] /\ call' = [call EXCEPT ![s] = "none"]
InLimiter == UNCHANGED upstreamVars
InUpstream == UNCHANGED limiterVars

-----------------------------------------------------------------------------
\* An authenticated stream, socket or request arrives.
Arrive(s, c) ==
  /\ at[s] = "idle"
  /\ at' = [at EXCEPT ![s] = "lookup"]
  /\ call' = [call EXCEPT ![s] = c]
  /\ UNCHANGED <<limiterVars, upstreamVars>>

\* A message of a socket asks for a symbol.
ArriveMessage(s) ==
  /\ at[s] = "idle"
  /\ at' = [at EXCEPT ![s] = "subscribe"]
  /\ call' = [call EXCEPT ![s] = "message"]
  /\ UNCHANGED <<limiterVars, upstreamVars>>

\* AcquireStream and Allow, up to the use of the limiter.
LookUp(s) ==
  /\ at[s] = "lookup"
  /\ Lookup(s)
  /\ Goto(s, IF Registered(s) = NoLimiter THEN "create" ELSE "touch")
  /\ InLimiter

CreateLimiter(s) ==
  /\ at[s] = "create"
  /\ Create(s, call[s] = "request")
  /\ Goto(s, "touch")
  /\ InLimiter

TouchLimiter(s) ==
  /\ at[s] = "touch"
  /\ Touch(s)
  /\ Goto(s, "decide")
  /\ InLimiter

AcquireStream(s) ==
  /\ at[s] = "decide" /\ call[s] \in Slotted
  /\ Acquire(s)
  /\ IF HasRoom(limiter[s])
     THEN Goto(s, IF call[s] = "stream" THEN "subscribe" ELSE "serve")
     ELSE Ends(s)
  /\ InLimiter

\* The token bucket and the cache decide whether a request goes on.
Allow(s) ==
  /\ at[s] = "decide" /\ call[s] = "request"
  /\ Forget(s)
  /\ Goto(s, "subscribe") \/ Ends(s)
  /\ InLimiter

-----------------------------------------------------------------------------
\* upstream.Subscribe.
Subscribe(s, x) ==
  /\ at[s] = "subscribe"
  /\ \/ AlreadySubscribed(x) /\ Goto(s, "serve")
     \/ StartStream(s, x) /\ Goto(s, "submit")
  /\ InUpstream

Submit(s) ==
  /\ at[s] = "submit"
  /\ Submitted(s) \/ SubmitRefused(s)
  /\ Goto(s, "serve")
  /\ InUpstream

\* The request or message is answered.
Respond(s) ==
  /\ at[s] = "serve" /\ call[s] \in {"request", "message"}
  /\ Ends(s)
  /\ UNCHANGED <<limiterVars, upstreamVars>>

\* The stream or socket is over: the deferred ReleaseStream, lookup and release.
CloseStream(s) ==
  /\ at[s] = "serve" /\ call[s] \in Slotted
  /\ Goto(s, "release")
  /\ UNCHANGED <<limiterVars, upstreamVars>>

FindLimiter(s) ==
  /\ at[s] = "release"
  /\ Lookup(s)
  /\ Goto(s, "return")
  /\ InLimiter

ReleaseStream(s) ==
  /\ at[s] = "return"
  /\ Release(s)
  /\ Ends(s)
  /\ InLimiter

-----------------------------------------------------------------------------
SessionStep(s) ==
  \/ LookUp(s) \/ CreateLimiter(s) \/ TouchLimiter(s) \/ AcquireStream(s) \/ Allow(s)
  \/ (\E x \in Symbols : Subscribe(s, x)) \/ Submit(s) \/ Respond(s)
  \/ CloseStream(s) \/ FindLimiter(s) \/ ReleaseStream(s)

LimiterStep == InLimiter /\ UNCHANGED <<at, call>> /\ (Cleanup \/ \E l \in Limiters : GrowOld(l))

StopSteps == StopCancels \/ StopReleases \/ StopCancelsEach

UpstreamStep ==
  /\ InUpstream /\ UNCHANGED <<at, call>>
  /\ \/ (\E x \in Symbols : Unsubscribe(x)) \/ (\E n \in StreamIds : StreamEnds(n) \/ StreamPanics(n))
     \/ StopBegins \/ StopSteps

Next ==
  \/ \E s \in Sessions : SessionStep(s) \/ ArriveMessage(s) \/ \E c \in Calls : Arrive(s, c)
  \/ LimiterStep
  \/ UpstreamStep

Spec == Init /\ [][Next]_vars

-----------------------------------------------------------------------------
\* Stop is never stuck: once it has begun, what its next step waits for is
\* there, or it is there for a session that holds streamsMu while it waits for
\* a worker, with no help from clients.
StopNeverWaits ==
  stop \in {"begun", "cancelled", "released"} =>
    \/ CancelReady \/ ReleaseReady \/ CancelEachReady
    \/ \E s \in Sessions : at[s] = "submit" /\ SubmitReady(s)

-----------------------------------------------------------------------------
(* What makes the invariants of the two parts inductive.                   *)

\* The map has a stream under its own symbol, and the one being submitted is
\* in it and has no worker yet; a worker that panicked is gone.
StreamsInPlace ==
  /\ \A x \in Symbols : streams[x] # NoStream => streams[x][1] = x
  /\ streamsMu = Nobody <=> submitting = NoStream
  /\ submitting # NoStream => submitting \in InMap /\ submitting \notin running \cup panicked
  /\ panicked \subseteq InMap \ running

\* A limiter is registered under one key, and a session only uses limiters of
\* its own key, between its lookup and its decision or release.
LimitersInPlace ==
  /\ \A j, k \in Keys : limiters[j] = limiters[k] /\ limiters[j] # NoLimiter => j = k
  /\ \A s \in Sessions, k \in Keys :
       limiter[s] # NoLimiter /\ limiters[k] = limiter[s] => KeyOf[s] = k
  /\ \A s \in Sessions :
       /\ limiter[s] # NoLimiter => at[s] \in {"touch", "decide", "return"}
       /\ at[s] \in {"touch", "decide"} => limiter[s] # NoLimiter

\* Slots are held by streams and sockets from their admission to their release.
HoldersServe ==
  /\ holding = {s \in Sessions : call[s] \in Slotted /\ at[s] \in Serving}
  /\ \A s \in Sessions : at[s] \in {"release", "return"} => call[s] \in Slotted

\* The sessions whose release will reach the limiter of k.
Due(k) == {s \in Holders(k) : at[s] = "return" => limiter[s] = limiters[k]}

SlotsDue ==
  \A k \in Keys : limiters[k] # NoLimiter =>
    activeStreams[limiters[k]] <= Cardinality(Due(k))

\* Of a key whose limiter was never removed under a session, every session
\* uses the registered one, which counts every slot.
UnracedCounted ==
  \A k \in Keys \ raced :
    /\ limiters[k] = NoLimiter => Holders(k) = {}
    /\ limiters[k] # NoLimiter => activeStreams[limiters[k]] = Cardinality(Holders(k))
    /\ \A s \in Sessions : KeyOf[s] = k /\ at[s] \in {"touch", "decide", "return"} =>
         limiter[s] = limiters[k]

\* A key has no more streams than its limiter allows, which is what the plan of
\* one of its sessions, or Allow, said when it was created.
SlotsLimited ==
  \A k \in Keys \ raced :
    /\ limiters[k] = NoLimiter => Holders(k) = {}
    /\ limiters[k] # NoLimiter => Cardinality(Holders(k)) <= maxStreams[limiters[k]]

LimitsGiven ==
  \A k \in Keys :
    IF limiters[k] = NoLimiter THEN k \notin byDefault
    ELSE IF k \in byDefault THEN maxStreams[limiters[k]] = DefaultRPS
    ELSE \E s \in Sessions : KeyOf[s] = k /\ maxStreams[limiters[k]] = PlanOf[s]

\* Of all sessions the one that holds streamsMu across steps is inside Submit.
LockInPlace == \A s \in Sessions : at[s] = "submit" <=> streamsMu = s

\* The inductive invariant: the types, where streams, limiters and holders can
\* be, which slots a release will still give back (ratelimit.go:126), and that
\* streamsMu is held across steps only by the session in Submit (manager.go:113).
RelayInv ==
  /\ TypeOK
  /\ StreamsInPlace
  /\ LockInPlace
  /\ FedByOne
  /\ LimitersInPlace
  /\ HoldersServe
  /\ SlotsDue
  /\ UnracedCounted
  /\ SlotsLimited /\ LimitsGiven
=============================================================================
