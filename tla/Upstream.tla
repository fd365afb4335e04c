------------------------------ MODULE Upstream ------------------------------
(***************************************************************************)
(* The upstream manager of the relay (upstream/manager.go): a map from     *)
(* symbols to streams, and a pool of workers that run them.  Subscribe     *)
(* holds streamsMu from its lookup to the end of pool.Submit, which waits  *)
(* for a worker when all are busy; Stop cancels everything, releases the   *)
(* pool and only then takes streamsMu.                                     *)
(*                                                                         *)
(* The actions are the steps of one session inside the manager (see        *)
(* RelayAdmission.tla).  streamData is a placeholder in the code that      *)
(* never fails, so a stream ends by its context, or by a panic of onData,  *)
(* to which it hands what it receives (FanoutHub.tla).  Status, LastUpdate,*)
(* ReconnectCount and the gateway, which nothing decides on, are left out. *)
(* External: the pool (panjf2000/ants), whose Release makes every Submit   *)
(* return an error and whose workers recover a panic and log it.           *)
(***************************************************************************)
EXTENDS Naturals, FiniteSets

CONSTANTS Symbols, PoolSize

ASSUME UpstreamAssumption == IsFiniteSet(Symbols) /\ PoolSize \in Nat \ {0}

\* The streams of a symbol, told apart by a number; a number is used again when
\* its stream has left the map and its worker.
StreamIds == Symbols \X (0 .. PoolSize)
NoStream == <<>>
Nobody == "nobody"

VARIABLES
  streams,      \* symbol -> stream or NoStream
  cancelled,    \* streams whose context is cancelled while they run
  running,      \* streams with a worker
  panicked,     \* history: streams in the map whose worker panicked
  streamsMu,    \* the session that holds the lock across steps, or Nobody
  submitting,   \* the stream it submits
  stop          \* how far Stop has come

upstreamVars == <<streams, cancelled, running, panicked, streamsMu, submitting, stop>>

UpstreamTypeOK(sessions) ==
  /\ streams \in [Symbols -> StreamIds \cup {NoStream}]
  /\ cancelled \subseteq running /\ running \subseteq StreamIds
  /\ panicked \subseteq StreamIds
  /\ Cardinality(running) <= PoolSize
  /\ streamsMu \in sessions \cup {Nobody}
  /\ submitting \in StreamIds \cup {NoStream}
  /\ stop \in {"no", "begun", "cancelled", "released", "done"}

UpstreamInit ==
  /\ streams = [x \in Symbols |-> NoStream]
  /\ cancelled = {} /\ running = {} /\ panicked = {}
  /\ streamsMu = Nobody /\ submitting = NoStream
  /\ stop = "no"

\* m.ctx, which every stream's context derives from, and the pool.
RootCancelled == stop \in {"cancelled", "released", "done"}
PoolClosed == stop \in {"released", "done"}
InMap == {streams[x] : x \in Symbols}
Unused(x) == <<x, CHOOSE i \in 0 .. PoolSize : <<x, i>> \notin InMap \cup running>>

-----------------------------------------------------------------------------
\* "Already subscribed".
AlreadySubscribed(x) ==
  /\ streamsMu = Nobody
  /\ streams[x] # NoStream
  /\ UNCHANGED upstreamVars

\* The stream is put in the map; Submit follows under the same lock.
StartStream(s, x) ==
  /\ streamsMu = Nobody
  /\ streams[x] = NoStream
  /\ streams' = [streams EXCEPT ![x] = Unused(x)]
  /\ submitting' = Unused(x)
  /\ streamsMu' = s
  /\ UNCHANGED <<cancelled, running, panicked, stop>>

Unlock == streamsMu' = Nobody /\ submitting' = NoStream

\* What Submit waits for: a worker, or that the pool is closed.
WorkerFree == ~PoolClosed /\ Cardinality(running) < PoolSize
SubmitReady(s) == streamsMu = s /\ (WorkerFree \/ PoolClosed)

\* The pool has a worker for the stream.
Submitted(s) ==
  /\ SubmitReady(s) /\ WorkerFree
  /\ running' = running \cup {submitting}
  /\ Unlock
  /\ UNCHANGED <<streams, cancelled, panicked, stop>>

\* The pool is closed, also while Submit waits; the error is not looked at.
SubmitRefused(s) ==
  /\ SubmitReady(s) /\ PoolClosed
  /\ Unlock
  /\ UNCHANGED <<streams, cancelled, running, panicked, stop>>

\* Mutation of Unsubscribe: the stream is forgotten but not cancelled.
UnsubscribeForgets(x) ==
  /\ streamsMu = Nobody
  /\ streams[x] # NoStream
  /\ streams' = [streams EXCEPT ![x] = NoStream]
  /\ panicked' = panicked \ {streams[x]}
  /\ UNCHANGED <<cancelled, running, streamsMu, submitting, stop>>

\* Unsubscribe, which no handler of the relay calls yet.
Unsubscribe(x) ==
  /\ streamsMu = Nobody
  /\ streams[x] # NoStream
  /\ cancelled' = cancelled \cup ({streams[x]} \cap running)
  /\ streams' = [streams EXCEPT ![x] = NoStream]
  /\ panicked' = panicked \ {streams[x]}
  /\ UNCHANGED <<running, streamsMu, submitting, stop>>

WorkerEnds(n) ==
  /\ n \in running
  /\ running' = running \ {n}
  /\ cancelled' = cancelled \ {n}
  /\ UNCHANGED <<streams, streamsMu, submitting, stop>>

\* runStream returns when its context is done.
StreamEnds(n) ==
  /\ RootCancelled \/ n \in cancelled
  /\ WorkerEnds(n)
  /\ UNCHANGED panicked

\* onData panics: the worker is back in the pool, the stream stays in the map.
StreamPanics(n) ==
  /\ WorkerEnds(n)
  /\ panicked' = panicked \cup ({n} \cap InMap)

-----------------------------------------------------------------------------
(* Stop, called once by main on a signal.                                  *)

StopStep(to) ==
  /\ stop' = to
  /\ UNCHANGED <<streams, running, panicked, streamsMu, submitting>>

StopBegins == stop = "no" /\ StopStep("begun") /\ UNCHANGED cancelled

\* Mutation of CancelReady: it waits for streamsMu, as the rest of Stop does.
CancelReadyLocked == stop = "begun" /\ streamsMu = Nobody

\* What each step of Stop waits for.
CancelReady == stop = "begun"
ReleaseReady == stop = "cancelled"
CancelEachReady == stop = "released" /\ streamsMu = Nobody

\* m.cancel().
StopCancels == CancelReady /\ StopStep("cancelled") /\ UNCHANGED cancelled

\* m.pool.Release().
StopReleases == ReleaseReady /\ StopStep("released") /\ UNCHANGED cancelled

\* The streams are cancelled one by one, under streamsMu.
StopCancelsEach ==
  /\ CancelEachReady
  /\ StopStep("done")
  /\ cancelled' = cancelled \cup (InMap \cap running)

-----------------------------------------------------------------------------
\* Until Stop begins, a symbol that is subscribed has one live stream with a
\* worker, and no other symbol has any: a symbol's updates come from one
\* goroutine (which FanoutHub relies on), and "already subscribed" is the truth,
\* but for the symbols whose worker panicked: they stay in the map, and nobody
\* starts a worker for them again.
FedByOne ==
  stop = "no" => \A x \in Symbols :
    {n \in running \ cancelled : n[1] = x} =
      {streams[x]} \ ({NoStream, submitting} \cup panicked)
=============================================================================
