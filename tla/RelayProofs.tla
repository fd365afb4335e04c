---------------------------- MODULE RelayProofs ----------------------------
(***************************************************************************)
(* Proofs about RelayAdmission: the invariant RelayInv, and what the runs  *)
(* check of it, for any numbers of sessions, keys, symbols and workers.    *)
(***************************************************************************)
EXTENDS RelayAdmission, FiniteSetTheorems, TLAPS

-----------------------------------------------------------------------------
(* The upstream manager.                                                   *)

UpstreamInv == UpstreamTypeOK(Sessions) /\ StreamsInPlace /\ FedByOne

\* The numbered streams: none is NoStream, each bears its symbol, finitely many.
LEMMA StreamFacts ==
  /\ NoStream \notin StreamIds
  /\ \A x \in Symbols, i \in 0 .. PoolSize : <<x, i>> \in StreamIds /\ <<x, i>>[1] = x
  /\ IsFiniteSet(StreamIds)
<1>1. NoStream \notin StreamIds
  BY DEF NoStream, StreamIds
<1>2. \A x \in Symbols, i \in 0 .. PoolSize : <<x, i>> \in StreamIds /\ <<x, i>>[1] = x
  BY DEF StreamIds
<1>3. IsFiniteSet(0 .. PoolSize)
  BY UpstreamAssumption, FS_Interval
<1>4. IsFiniteSet(StreamIds)
  BY <1>3, UpstreamAssumption, FS_Product DEF StreamIds
<1> QED
  BY <1>1, <1>2, <1>4

\* The workers are finitely many; one more or less changes the count by one.
LEMMA RunningCount ==
  ASSUME UpstreamInv
  PROVE  /\ IsFiniteSet(running) /\ Cardinality(running) \in Nat
         /\ Cardinality(running) <= PoolSize
         /\ \A n : Cardinality(running \cup {n}) <= Cardinality(running) + 1
         /\ \A n : Cardinality(running \ {n}) <= Cardinality(running)
<1>1. IsFiniteSet(running)
  BY StreamFacts, FS_Subset DEF UpstreamInv, UpstreamTypeOK
<1>2. Cardinality(running) \in Nat
  BY <1>1, FS_CardinalityType
<1>3. ASSUME NEW n
      PROVE  /\ Cardinality(running \cup {n}) <= Cardinality(running) + 1
             /\ Cardinality(running \ {n}) <= Cardinality(running)
  <2>1. Cardinality(running \cup {n}) =
          IF n \in running THEN Cardinality(running) ELSE Cardinality(running) + 1
    BY <1>1, FS_AddElement
  <2>2. Cardinality(running \ {n}) <= Cardinality(running)
    BY <1>1, FS_Subset
  <2> QED
    BY <2>1, <2>2, <1>2
<1> QED
  BY <1>1, <1>2, <1>3 DEF UpstreamInv, UpstreamTypeOK

\* The running streams are fewer than the numbers of a symbol, so that one of
\* them is free when the symbol has no stream.
LEMMA UnusedIsFree ==
  ASSUME UpstreamInv, NEW x \in Symbols, streams[x] = NoStream
  PROVE  /\ Unused(x) \in StreamIds /\ Unused(x)[1] = x
         /\ Unused(x) \notin InMap \cup running
<1> DEFINE numbers == 0 .. PoolSize
<1> DEFINE Free(i) == <<x, i>> \notin InMap \cup running
<1>1. IsFiniteSet(running) /\ Cardinality(running) \in Nat
  BY RunningCount
<1>2. \A i \in numbers : <<x, i>> \notin InMap
  <2> SUFFICES ASSUME NEW i \in numbers, NEW y \in Symbols, streams[y] = <<x, i>>
               PROVE  FALSE
    BY DEF InMap
  <2>1. streams[y] # NoStream
    BY StreamFacts
  <2>2. y = x
    BY <2>1 DEF UpstreamInv, StreamsInPlace
  <2> QED
    BY <2>1, <2>2
<1>3. \E i \in numbers : Free(i)
  <2> SUFFICES ASSUME \A i \in numbers : <<x, i>> \in running
               PROVE  FALSE
    BY <1>2
  <2> DEFINE f == [i \in numbers |-> <<x, i>>]
  <2>1. f \in Injection(numbers, running)
    BY DEF Injection, IsInjective
  <2>2. Cardinality(numbers) <= Cardinality(running)
    BY <2>1, <1>1, FS_Injection
  <2>3. Cardinality(numbers) = PoolSize + 1
    BY UpstreamAssumption, FS_Interval
  <2> QED
    BY <2>2, <2>3, <1>1, UpstreamAssumption DEF UpstreamInv, UpstreamTypeOK
<1>4. PICK i \in numbers : Unused(x) = <<x, i>> /\ Free(i)
  BY <1>3 DEF Unused
<1> QED
  BY <1>4, StreamFacts

\* Subscribe puts an unused stream into the map and keeps streamsMu.
LEMMA StartStreamStep ==
  ASSUME UpstreamInv, NEW s \in Sessions, NEW x \in Symbols, StartStream(s, x)
  PROVE  UpstreamInv'
<1> DEFINE n == Unused(x)
<1>1. n \in StreamIds /\ n[1] = x /\ n \notin InMap \cup running /\ n # NoStream
  BY UnusedIsFree, StreamFacts DEF StartStream
<1>2. /\ streams' = [streams EXCEPT ![x] = n] /\ submitting' = n /\ streamsMu' = s
      /\ streams[x] = NoStream /\ submitting = NoStream
      /\ UNCHANGED <<cancelled, running, panicked, stop>>
  BY DEF StartStream, UpstreamInv, StreamsInPlace
<1> HIDE DEF n
<1>3. UpstreamTypeOK(Sessions)'
  BY <1>1, <1>2 DEF UpstreamInv, UpstreamTypeOK
<1>4. StreamsInPlace'
  <2>1. streams'[x] = n /\ \A y \in Symbols \ {x} : streams'[y] = streams[y]
    BY <1>2 DEF UpstreamInv, UpstreamTypeOK
  <2>2. panicked \subseteq InMap' /\ n \notin panicked /\ n \in InMap'
    <3>1. \A m \in panicked : m # NoStream /\ \E y \in Symbols : m = streams[y]
      BY StreamFacts DEF UpstreamInv, UpstreamTypeOK, StreamsInPlace, InMap
    <3>2. \A m \in panicked : m \in InMap'
      BY <3>1, <2>1, <1>2 DEF InMap
    <3> QED
      BY <3>2, <2>1, <1>1 DEF UpstreamInv, StreamsInPlace, InMap
  <2>3. \A y \in Symbols : streams'[y] # NoStream => streams'[y][1] = y
    BY <1>1, <2>1 DEF UpstreamInv, StreamsInPlace
  <2> QED
    BY <1>1, <1>2, <2>2, <2>3, AdmissionAssumption DEF UpstreamInv, StreamsInPlace
<1>5. FedByOne'
  <2> SUFFICES ASSUME stop = "no", NEW y \in Symbols
               PROVE  {m \in running \ cancelled : m[1] = y} = {streams'[y]} \ ({NoStream, n} \cup panicked)
    BY <1>2 DEF FedByOne
  <2>1. {m \in running \ cancelled : m[1] = y} = {streams[y]} \ ({NoStream, submitting} \cup panicked)
    BY DEF UpstreamInv, FedByOne
  <2>2. CASE y = x
    BY <2>1, <2>2, <1>1, <1>2 DEF UpstreamInv, UpstreamTypeOK
  <2>3. CASE y # x
    <3>1. streams'[y] = streams[y]
      BY <1>2, <2>3 DEF UpstreamInv, UpstreamTypeOK
    <3>2. streams[y] # n
      BY <1>1 DEF InMap
    <3> QED
      BY <2>1, <3>1, <3>2, <1>2
  <2> QED
    BY <2>2, <2>3
<1> QED
  BY <1>3, <1>4, <1>5 DEF UpstreamInv

\* A worker takes the stream: it is fed from now on.
LEMMA SubmittedStep ==
  ASSUME UpstreamInv, NEW s \in Sessions, Submitted(s)
  PROVE  UpstreamInv'
<1>1. /\ submitting \in StreamIds /\ submitting # NoStream
      /\ submitting \in InMap /\ submitting \notin running \cup panicked
  BY AdmissionAssumption DEF Submitted, SubmitReady, WorkerFree, UpstreamInv, UpstreamTypeOK,
     StreamsInPlace
<1>2. /\ running' = running \cup {submitting} /\ streamsMu' = Nobody /\ submitting' = NoStream
      /\ Cardinality(running) < PoolSize
      /\ UNCHANGED <<streams, cancelled, panicked, stop>>
  BY DEF Submitted, WorkerFree, Unlock
<1>3. UpstreamTypeOK(Sessions)'
  <2>1. Cardinality(running') <= Cardinality(running) + 1
    BY <1>2, RunningCount
  <2>2. /\ Cardinality(running) \in Nat
        /\ Cardinality(running') = Cardinality(running) \/ Cardinality(running') \in Nat
    BY <1>1, <1>2, RunningCount, FS_AddElement, FS_CardinalityType
  <2>3. Cardinality(running') <= PoolSize
    BY <2>1, <2>2, <1>2, UpstreamAssumption
  <2> QED
    BY <2>3, <1>1, <1>2 DEF UpstreamInv, UpstreamTypeOK
<1>4. StreamsInPlace'
  BY <1>1, <1>2 DEF UpstreamInv, StreamsInPlace, InMap
<1>5. FedByOne'
  <2> SUFFICES ASSUME stop = "no", NEW y \in Symbols
               PROVE  {m \in running' \ cancelled : m[1] = y} = {streams[y]} \ ({NoStream} \cup panicked)
    BY <1>2 DEF FedByOne
  <2>1. {m \in running \ cancelled : m[1] = y} = {streams[y]} \ ({NoStream, submitting} \cup panicked)
    BY DEF UpstreamInv, FedByOne
  <2>2. submitting \notin cancelled
    BY <1>1 DEF UpstreamInv, UpstreamTypeOK
  <2>3. submitting[1] = y <=> streams[y] = submitting
    BY <1>1 DEF InMap, UpstreamInv, StreamsInPlace
  <2> QED
    BY <2>1, <2>2, <2>3, <1>1, <1>2
<1> QED
  BY <1>3, <1>4, <1>5 DEF UpstreamInv

\* A closed pool refuses the stream, which only happens after Stop has begun.
LEMMA SubmitRefusedStep ==
  ASSUME UpstreamInv, NEW s \in Sessions, SubmitRefused(s)
  PROVE  UpstreamInv'
<1>1. /\ streamsMu' = Nobody /\ submitting' = NoStream /\ stop # "no"
      /\ UNCHANGED <<streams, cancelled, running, panicked, stop>>
  BY DEF SubmitRefused, Unlock, PoolClosed
<1> QED
  BY <1>1 DEF UpstreamInv, UpstreamTypeOK, StreamsInPlace, FedByOne, InMap

\* A stream leaves the map and is cancelled in one step.
LEMMA UnsubscribeStep ==
  ASSUME UpstreamInv, NEW x \in Symbols, Unsubscribe(x)
  PROVE  UpstreamInv'
<1>1. /\ streamsMu = Nobody /\ submitting = NoStream /\ streams[x] # NoStream
      /\ cancelled' = cancelled \cup ({streams[x]} \cap running)
      /\ streams' = [streams EXCEPT ![x] = NoStream]
      /\ panicked' = panicked \ {streams[x]}
      /\ UNCHANGED <<running, streamsMu, submitting, stop>>
  BY DEF Unsubscribe, UpstreamInv, StreamsInPlace
<1>2. streams'[x] = NoStream /\ \A y \in Symbols \ {x} : streams'[y] = streams[y]
  BY <1>1 DEF UpstreamInv, UpstreamTypeOK
<1>3. UpstreamTypeOK(Sessions)'
  BY <1>1 DEF UpstreamInv, UpstreamTypeOK
<1>4. StreamsInPlace'
  <2>1. \A m \in panicked' : m \in InMap'
    <3>1. \A m \in panicked' : \E y \in Symbols \ {x} : m = streams[y]
      BY <1>1 DEF UpstreamInv, StreamsInPlace, InMap
    <3> QED
      BY <3>1, <1>2 DEF InMap
  <2> QED
    BY <1>1, <1>2, <2>1 DEF UpstreamInv, StreamsInPlace
<1>5. FedByOne'
  <2> SUFFICES ASSUME stop = "no", NEW y \in Symbols
               PROVE  {m \in running \ cancelled' : m[1] = y} = {streams'[y]} \ ({NoStream} \cup panicked')
    BY <1>1 DEF FedByOne
  <2>1. {m \in running \ cancelled : m[1] = y} = {streams[y]} \ ({NoStream} \cup panicked)
    BY <1>1 DEF UpstreamInv, FedByOne
  <2>2. streams[x][1] = x
    BY <1>1 DEF UpstreamInv, StreamsInPlace
  <2>3. CASE y = x
    BY <2>1, <2>3, <1>1, <1>2
  <2>4. CASE y # x
    <3>1. streams'[y] = streams[y] /\ (streams[y] # NoStream => streams[y][1] = y)
      BY <2>4, <1>2 DEF UpstreamInv, StreamsInPlace
    <3>2. {m \in running \ cancelled' : m[1] = y} = {m \in running \ cancelled : m[1] = y}
      BY <2>2, <2>4, <1>1
    <3>3. {streams[y]} \ ({NoStream} \cup panicked') = {streams[y]} \ ({NoStream} \cup panicked)
      BY <2>2, <2>4, <3>1, <1>1
    <3> QED
      BY <2>1, <3>1, <3>2, <3>3
  <2> QED
    BY <2>3, <2>4
<1> QED
  BY <1>3, <1>4, <1>5 DEF UpstreamInv

\* A worker ends: until Stop begins, that of a cancelled stream, or one that
\* panicked.
LEMMA StreamEndsStep ==
  ASSUME UpstreamInv, NEW n \in StreamIds, StreamEnds(n) \/ StreamPanics(n)
  PROVE  UpstreamInv'
<1>1. /\ n \in running /\ running' = running \ {n} /\ cancelled' = cancelled \ {n}
      /\ \/ (RootCancelled \/ n \in cancelled) /\ panicked' = panicked
         \/ panicked' = panicked \cup ({n} \cap InMap)
      /\ UNCHANGED <<streams, streamsMu, submitting, stop>>
  BY DEF StreamEnds, StreamPanics, WorkerEnds
<1>2. UpstreamTypeOK(Sessions)'
  <2>1. Cardinality(running) \in Nat /\ Cardinality(running') \in Nat
    BY <1>1, RunningCount, FS_RemoveElement, FS_CardinalityType
  <2>2. Cardinality(running') <= Cardinality(running) /\ Cardinality(running) <= PoolSize
    BY <1>1, RunningCount
  <2>3. Cardinality(running') <= PoolSize
    BY <2>1, <2>2, UpstreamAssumption
  <2> QED
    BY <2>3, <1>1 DEF UpstreamInv, UpstreamTypeOK
<1>3. StreamsInPlace'
  BY <1>1 DEF UpstreamInv, StreamsInPlace, InMap
<1>4. FedByOne'
  <2> SUFFICES ASSUME stop = "no", NEW y \in Symbols
               PROVE  {m \in running' \ cancelled' : m[1] = y} =
                        {streams[y]} \ ({NoStream, submitting} \cup panicked')
    BY <1>1 DEF FedByOne
  <2>1. {m \in running \ cancelled : m[1] = y} = {streams[y]} \ ({NoStream, submitting} \cup panicked)
    BY DEF UpstreamInv, FedByOne
  <2>2. CASE n \in cancelled /\ panicked' = panicked
    BY <1>1, <2>1, <2>2
  <2>3. CASE panicked' = panicked \cup ({n} \cap InMap)
    <3>1. CASE streams[y] = n
      <4>1. n \in InMap
        BY <3>1 DEF InMap
      <4> QED
        BY <1>1, <2>1, <2>3, <3>1, <4>1
    <3>2. CASE streams[y] # n
      BY <1>1, <2>1, <2>3, <3>2
    <3> QED
      BY <3>1, <3>2
  <2> QED
    BY <1>1, <2>2, <2>3 DEF RootCancelled
<1> QED
  BY <1>2, <1>3, <1>4 DEF UpstreamInv

\* The steps of Stop, after which FedByOne asks for nothing.
LEMMA StopStepStep ==
  ASSUME UpstreamInv, StopBegins \/ StopSteps
  PROVE  UpstreamInv'
<1>1. /\ UNCHANGED <<streams, running, panicked, streamsMu, submitting>>
      /\ stop' \in {"begun", "cancelled", "released", "done"}
      /\ cancelled' = cancelled \/ cancelled' = cancelled \cup (InMap \cap running)
  BY DEF StopBegins, StopSteps, StopCancels, StopReleases, StopCancelsEach, StopStep,
         CancelReady, ReleaseReady, CancelEachReady
<1> QED
  BY <1>1 DEF UpstreamInv, UpstreamTypeOK, StreamsInPlace, FedByOne, InMap

\* What leaves the upstream manager alone preserves its invariant.
LEMMA UpstreamKept ==
  ASSUME UpstreamInv, UNCHANGED upstreamVars
  PROVE  UpstreamInv'
BY DEF UpstreamInv, UpstreamTypeOK, StreamsInPlace, FedByOne, InMap, upstreamVars

\* Every step of the relay preserves the upstream part.
LEMMA UpstreamNext ==
  ASSUME UpstreamInv, [Next]_vars
  PROVE  UpstreamInv'
<1>1. ASSUME NEW s \in Sessions, SessionStep(s)
      PROVE  UpstreamInv'
  <2>1. CASE \E x \in Symbols : Subscribe(s, x)
    BY <2>1, StartStreamStep, UpstreamKept DEF Subscribe, AlreadySubscribed
  <2>2. CASE Submit(s)
    BY <2>2, SubmittedStep, SubmitRefusedStep DEF Submit
  <2>3. CASE UNCHANGED upstreamVars
    BY <2>3, UpstreamKept
  <2> QED
    BY <1>1, <2>1, <2>2, <2>3
       DEF SessionStep, LookUp, CreateLimiter, TouchLimiter, AcquireStream, Allow, Respond,
           CloseStream, FindLimiter, ReleaseStream, InLimiter
<1>2. ASSUME NEW s \in Sessions, ArriveMessage(s) \/ \E c \in Calls : Arrive(s, c)
      PROVE  UpstreamInv'
  BY <1>2, UpstreamKept DEF ArriveMessage, Arrive
<1>3. CASE LimiterStep
  BY <1>3, UpstreamKept DEF LimiterStep, InLimiter
<1>4. CASE UpstreamStep
  BY <1>4, UnsubscribeStep, StreamEndsStep, StopStepStep DEF UpstreamStep
<1>5. CASE UNCHANGED vars
  BY <1>5, UpstreamKept DEF vars
<1> QED
  BY <1>1, <1>2, <1>3, <1>4, <1>5 DEF Next

\* No stream and no worker at the start.
LEMMA UpstreamStarts ==
  ASSUME Init
  PROVE  UpstreamInv
<1>1. Cardinality({}) = 0
  BY FS_EmptySet
<1> QED
  BY <1>1, UpstreamAssumption, AdmissionAssumption
     DEF Init, UpstreamInit, UpstreamInv, UpstreamTypeOK, StreamsInPlace, FedByOne, InMap

-----------------------------------------------------------------------------
(* The limiter.                                                            *)

LimiterInv ==
  /\ LimiterTypeOK /\ SessionTypeOK
  /\ LimitersInPlace
  /\ HoldersServe
  /\ SlotsDue
  /\ UnracedCounted
  /\ SlotsLimited

\* Sets of sessions are finite; one more or less changes their count by one.
LEMMA SessionCounts ==
  ASSUME NEW S \in SUBSET Sessions
  PROVE  /\ IsFiniteSet(S) /\ Cardinality(S) \in Nat
         /\ \A s : s \notin S => Cardinality(S \cup {s}) = Cardinality(S) + 1
         /\ \A s \in S : Cardinality(S \ {s}) = Cardinality(S) - 1
         /\ \A T \in SUBSET S : Cardinality(T) <= Cardinality(S)
<1>1. IsFiniteSet(S)
  BY LimiterAssumption, FS_Subset
<1> QED
  BY <1>1, FS_CardinalityType, FS_AddElement, FS_RemoveElement, FS_Subset

\* A session that goes from one place to another without its limiter.
LEMMA MoveStep ==
  ASSUME LimiterInv, NEW s \in Sessions, NEW l \in {"idle", "lookup"} \cup (Serving \ {"return"}),
         NEW c \in Calls \cup {"none", "message"},
         at' = [at EXCEPT ![s] = l], call' = [call EXCEPT ![s] = c],
         UNCHANGED limiterVars,
         at[s] \notin {"touch", "decide", "return"},
         s \in holding <=> c \in Slotted /\ l \in Serving,
         l = "release" => c \in Slotted
  PROVE  LimiterInv'
<1>1. /\ UNCHANGED <<limiters, maxStreams, activeStreams, old, limiter, holding, raced, byDefault>>
      /\ limiter[s] = NoLimiter
      /\ at'[s] = l /\ call'[s] = c
      /\ \A t \in Sessions \ {s} : at'[t] = at[t] /\ call'[t] = call[t]
  BY DEF limiterVars, LimiterInv, SessionTypeOK, LimitersInPlace
<1>2. LimiterTypeOK' /\ SessionTypeOK'
  BY <1>1 DEF LimiterInv, LimiterTypeOK, SessionTypeOK, Serving, Deciding
<1>3. LimitersInPlace'
  BY <1>1 DEF LimiterInv, LimitersInPlace, Serving
<1>4. HoldersServe'
  BY <1>1 DEF LimiterInv, HoldersServe, Serving
<1>5. \A k \in Keys : Holders(k)' = Holders(k) /\ Due(k)' = Due(k)
  BY <1>1 DEF Holders, Due
<1>6. SlotsDue'
  BY <1>1, <1>5 DEF LimiterInv, SlotsDue
<1>7. UnracedCounted'
  BY <1>1, <1>5 DEF LimiterInv, UnracedCounted, Serving
<1>8. SlotsLimited'
  BY <1>1, <1>5 DEF LimiterInv, SlotsLimited
<1> QED
  BY <1>2, <1>3, <1>4, <1>6, <1>7, <1>8 DEF LimiterInv

\* There are more limiters than keys and sessions that can refer to one.
LEMMA UnreferencedIsFree ==
  ASSUME LimiterInv, NEW s \in Sessions, Registered(s) = NoLimiter
  PROVE  /\ Unreferenced \in Limiters
         /\ \A t \in Sessions : limiter[t] # Unreferenced
         /\ \A k \in Keys : limiters[k] # Unreferenced
<1> DEFINE A == {limiters[k] : k \in Keys}
<1> DEFINE B == {limiter[t] : t \in Sessions}
<1> DEFINE K == Cardinality(Keys)
<1> DEFINE N == Cardinality(Sessions)
<1>1. /\ K \in Nat /\ N \in Nat
  BY LimiterAssumption, FS_CardinalityType
<1>2. IsFiniteSet(A) /\ Cardinality(A) <= K /\ Cardinality(A) \in Nat
  <2>1. limiters \in Surjection(Keys, A)
    BY DEF LimiterInv, LimiterTypeOK, Surjection
  <2> QED
    BY <2>1, LimiterAssumption, FS_Surjection, FS_CardinalityType
<1>3. IsFiniteSet(B) /\ Cardinality(B) <= N /\ Cardinality(B) \in Nat
  <2>1. limiter \in Surjection(Sessions, B)
    BY DEF LimiterInv, LimiterTypeOK, Surjection
  <2> QED
    BY <2>1, LimiterAssumption, FS_Surjection, FS_CardinalityType
<1>4. IsFiniteSet(A \cup B) /\ Cardinality(A \cup B) <= K + N
  <2>1. /\ IsFiniteSet(A \cup B)
        /\ Cardinality(A \cup B) = Cardinality(A) + Cardinality(B) - Cardinality(A \cap B)
    BY <1>2, <1>3, FS_Union
  <2>2. Cardinality(A \cap B) \in Nat /\ Cardinality(A \cup B) \in Nat
    BY <1>2, <2>1, FS_Intersection, FS_CardinalityType
  <2> QED
    BY <2>1, <2>2, <1>1, <1>2, <1>3
<1>5. \E l \in Limiters : l \notin A \cup B
  <2> SUFFICES ASSUME \A l \in Limiters : l \in A \cup B
               PROVE  FALSE
    OBVIOUS
  <2>1. NoLimiter \in A
    BY LimiterAssumption DEF Registered
  <2>2. 0 .. K + N \subseteq A \cup B
    BY <2>1, <1>1 DEF Limiters, NoLimiter
  <2>3. Cardinality(0 .. K + N) = K + N + 1
    BY <1>1, FS_Interval
  <2>4. Cardinality(0 .. K + N) <= Cardinality(A \cup B)
    BY <2>2, <1>4, FS_Subset
  <2>5. Cardinality(A \cup B) \in Nat
    BY <1>4, FS_CardinalityType
  <2> QED
    BY <2>3, <2>4, <2>5, <1>4, <1>1
<1>6. \E l \in Limiters : Users(l) = {} /\ \A k \in Keys : limiters[k] # l
  BY <1>5 DEF Users
<1>7. /\ Unreferenced \in Limiters /\ Users(Unreferenced) = {}
      /\ \A k \in Keys : limiters[k] # Unreferenced
  BY <1>6 DEF Unreferenced
<1> QED
  BY <1>7 DEF Users

\* getOrCreate's first half, and the lookup of a release.
LEMMA LookUpStep ==
  ASSUME LimiterInv, NEW s \in Sessions, LookUp(s)
  PROVE  LimiterInv'
<1>1. /\ UNCHANGED <<limiters, maxStreams, activeStreams, old, holding, raced, byDefault, call>>
      /\ at[s] = "lookup" /\ s \notin holding
      /\ limiter'[s] = limiters[KeyOf[s]]
      /\ limiter' \in [Sessions -> Limiters \cup {NoLimiter}]
      /\ at'[s] = IF limiters[KeyOf[s]] = NoLimiter THEN "create" ELSE "touch"
      /\ at' \in [Sessions -> Deciding \cup Serving \cup {"idle"}]
      /\ \A t \in Sessions \ {s} : at'[t] = at[t] /\ limiter'[t] = limiter[t]
  BY LimiterAssumption
     DEF LookUp, Lookup, Registered, Goto, LimiterInv, LimiterTypeOK, SessionTypeOK,
         HoldersServe, Serving, Deciding
<1>2. LimiterTypeOK' /\ SessionTypeOK'
  BY <1>1 DEF LimiterInv, LimiterTypeOK, SessionTypeOK
<1>3. LimitersInPlace'
  BY <1>1, LimiterAssumption DEF LimiterInv, LimitersInPlace
<1>4. HoldersServe'
  BY <1>1 DEF LimiterInv, HoldersServe, Serving
<1>5. \A k \in Keys : Holders(k)' = Holders(k) /\ Due(k)' = Due(k)
  BY <1>1 DEF Holders, Due, LimiterInv, LimiterTypeOK
<1>6. SlotsDue'
  BY <1>1, <1>5 DEF LimiterInv, SlotsDue
<1>7. UnracedCounted'
  BY <1>1, <1>5 DEF LimiterInv, UnracedCounted
<1>8. SlotsLimited'
  BY <1>1, <1>5 DEF LimiterInv, SlotsLimited
<1> QED
  BY <1>2, <1>3, <1>4, <1>6, <1>7, <1>8 DEF LimiterInv

\* A release looks its limiter up again: the registered one, or none.
LEMMA FindLimiterStep ==
  ASSUME LimiterInv, NEW s \in Sessions, FindLimiter(s)
  PROVE  LimiterInv'
<1>1. /\ UNCHANGED <<limiters, maxStreams, activeStreams, old, holding, raced, byDefault, call>>
      /\ at[s] = "release" /\ call[s] \in Slotted
      /\ limiter'[s] = limiters[KeyOf[s]]
      /\ limiter' \in [Sessions -> Limiters \cup {NoLimiter}]
      /\ at'[s] = "return"
      /\ at' \in [Sessions -> Deciding \cup Serving \cup {"idle"}]
      /\ \A t \in Sessions \ {s} : at'[t] = at[t] /\ limiter'[t] = limiter[t]
  BY LimiterAssumption
     DEF FindLimiter, Lookup, Registered, Goto, LimiterInv, LimiterTypeOK, SessionTypeOK,
         HoldersServe, Serving, Deciding
<1>2. LimiterTypeOK' /\ SessionTypeOK'
  BY <1>1 DEF LimiterInv, LimiterTypeOK, SessionTypeOK
<1>3. LimitersInPlace'
  BY <1>1, LimiterAssumption DEF LimiterInv, LimitersInPlace
<1>4. HoldersServe'
  BY <1>1 DEF LimiterInv, HoldersServe, Serving
<1>5. \A k \in Keys : Holders(k)' = Holders(k) /\ Due(k)' = Due(k)
  BY <1>1 DEF Holders, Due, LimiterInv, LimiterTypeOK
<1>6. SlotsDue'
  BY <1>1, <1>5 DEF LimiterInv, SlotsDue
<1>7. UnracedCounted'
  BY <1>1, <1>5 DEF LimiterInv, UnracedCounted
<1>8. SlotsLimited'
  BY <1>1, <1>5 DEF LimiterInv, SlotsLimited
<1> QED
  BY <1>2, <1>3, <1>4, <1>6, <1>7, <1>8 DEF LimiterInv

\* The second half of getOrCreate finds a limiter that was created meanwhile.
LEMMA FoundStep ==
  ASSUME LimiterInv, NEW s \in Sessions, CreateLimiter(s), Registered(s) # NoLimiter
  PROVE  LimiterInv'
<1>1. /\ UNCHANGED <<limiters, maxStreams, activeStreams, old, holding, raced, byDefault, call>>
      /\ at[s] = "create" /\ s \notin holding
      /\ limiters[KeyOf[s]] # NoLimiter
      /\ limiter'[s] = limiters[KeyOf[s]]
      /\ limiter' \in [Sessions -> Limiters \cup {NoLimiter}]
      /\ at'[s] = "touch"
      /\ at' \in [Sessions -> Deciding \cup Serving \cup {"idle"}]
      /\ \A t \in Sessions \ {s} : at'[t] = at[t] /\ limiter'[t] = limiter[t]
  BY LimiterAssumption
     DEF CreateLimiter, Create, Registered, Goto, LimiterInv, LimiterTypeOK, SessionTypeOK,
         HoldersServe, Serving, Deciding
<1>2. LimiterTypeOK' /\ SessionTypeOK'
  BY <1>1 DEF LimiterInv, LimiterTypeOK, SessionTypeOK
<1>3. LimitersInPlace'
  BY <1>1, LimiterAssumption DEF LimiterInv, LimitersInPlace
<1>4. HoldersServe'
  BY <1>1 DEF LimiterInv, HoldersServe, Serving
<1>5. \A k \in Keys : Holders(k)' = Holders(k) /\ Due(k)' = Due(k)
  BY <1>1 DEF Holders, Due, LimiterInv, LimiterTypeOK
<1>6. SlotsDue'
  BY <1>1, <1>5 DEF LimiterInv, SlotsDue
<1>7. UnracedCounted'
  BY <1>1, <1>5 DEF LimiterInv, UnracedCounted
<1>8. SlotsLimited'
  BY <1>1, <1>5 DEF LimiterInv, SlotsLimited
<1> QED
  BY <1>2, <1>3, <1>4, <1>6, <1>7, <1>8 DEF LimiterInv

\* It creates one, which counts no stream: of a key that was never raced no
\* stream is left.
LEMMA CreatedStep ==
  ASSUME LimiterInv, NEW s \in Sessions, CreateLimiter(s), Registered(s) = NoLimiter
  PROVE  LimiterInv'
<1> DEFINE u == Unreferenced
<1> DEFINE j == KeyOf[s]
<1>1. /\ u \in Limiters /\ u # NoLimiter
      /\ \A t \in Sessions : limiter[t] # u
      /\ \A k \in Keys : limiters[k] # u
  BY UnreferencedIsFree DEF Limiters, NoLimiter
<1> DEFINE n == IF call[s] = "request" THEN DefaultRPS ELSE PlanOf[s]
<1>2. n \in Nat /\ Create(s, call[s] = "request")
  BY LimiterAssumption DEF CreateLimiter
<1>3. /\ UNCHANGED <<holding, raced, call>>
      /\ limiters' = [limiters EXCEPT ![j] = u]
      /\ limiter' = [limiter EXCEPT ![s] = u]
      /\ maxStreams' = [maxStreams EXCEPT ![u] = n]
      /\ activeStreams' = [activeStreams EXCEPT ![u] = 0]
      /\ old' = old \ {u} /\ byDefault' \subseteq byDefault \cup {j}
      /\ at[s] = "create" /\ at' = [at EXCEPT ![s] = "touch"]
      /\ limiters[j] = NoLimiter /\ j \in Keys
  BY <1>2, LimiterAssumption DEF CreateLimiter, Create, Registered, Goto
<1> HIDE DEF u, n
<1>4. /\ limiters'[j] = u /\ \A k \in Keys \ {j} : limiters'[k] = limiters[k]
      /\ limiter'[s] = u /\ at'[s] = "touch" /\ s \notin holding
      /\ \A t \in Sessions \ {s} : limiter'[t] = limiter[t] /\ at'[t] = at[t]
      /\ maxStreams'[u] = n /\ activeStreams'[u] = 0
      /\ \A l \in Limiters \ {u} :
           maxStreams'[l] = maxStreams[l] /\ activeStreams'[l] = activeStreams[l]
  BY <1>1, <1>2, <1>3 DEF LimiterInv, LimiterTypeOK, SessionTypeOK, HoldersServe, Serving
<1>5. LimiterTypeOK' /\ SessionTypeOK'
  BY <1>1, <1>2, <1>3 DEF LimiterInv, LimiterTypeOK, SessionTypeOK, Deciding
<1>6. LimitersInPlace'
  BY <1>1, <1>3, <1>4 DEF LimiterInv, LimitersInPlace
<1>7. HoldersServe'
  BY <1>3, <1>4 DEF LimiterInv, HoldersServe, Serving
<1>8. \A k \in Keys : Holders(k)' = Holders(k)
  BY <1>3 DEF Holders
<1>9. \A k \in Keys \ {j} : Due(k)' = Due(k)
  BY <1>4, <1>8 DEF Due, Holders, LimiterInv, LimiterTypeOK
<1>10. SlotsDue'
  <2> SUFFICES ASSUME NEW k \in Keys, limiters'[k] # NoLimiter
               PROVE  activeStreams'[limiters'[k]] <= Cardinality(Due(k)')
    BY DEF SlotsDue
  <2>1. CASE k = j
    <3>1. Due(j)' \subseteq Sessions
      BY <1>3, <1>7 DEF Due, Holders, HoldersServe
    <3>2. Cardinality(Due(j)') \in Nat
      BY <3>1, SessionCounts
    <3> QED
      BY <2>1, <3>2, <1>4
  <2>2. CASE k # j
    BY <2>2, <1>1, <1>4, <1>9 DEF LimiterInv, SlotsDue, LimiterTypeOK
  <2> QED
    BY <2>1, <2>2
<1>11. j \notin raced => Holders(j) = {}
  BY <1>3 DEF LimiterInv, UnracedCounted
<1>12. Cardinality({}) = 0
  BY FS_EmptySet
<1>13. UnracedCounted'
  <2> SUFFICES ASSUME NEW k \in Keys \ raced
               PROVE  /\ limiters'[k] = NoLimiter => Holders(k) = {}
                      /\ limiters'[k] # NoLimiter =>
                           activeStreams'[limiters'[k]] = Cardinality(Holders(k))
                      /\ \A t \in Sessions :
                           KeyOf[t] = k /\ at'[t] \in {"touch", "decide", "return"} =>
                             limiter'[t] = limiters'[k]
    BY <1>3, <1>8 DEF UnracedCounted
  <2>1. CASE k = j
    <3>1. ASSUME NEW t \in Sessions \ {s}, KeyOf[t] = j
          PROVE  at[t] \notin {"touch", "decide", "return"}
      <4>1. at[t] # "return"
        BY <2>1, <3>1, <1>11
           DEF LimiterInv, HoldersServe, Holders, Serving
      <4>2. at[t] \notin {"touch", "decide"}
        BY <2>1, <3>1, <1>3 DEF LimiterInv, UnracedCounted, LimitersInPlace
      <4> QED
        BY <4>1, <4>2
    <3> QED
      BY <2>1, <3>1, <1>1, <1>4, <1>11, <1>12
  <2>2. CASE k # j
    BY <2>2, <1>1, <1>4 DEF LimiterInv, UnracedCounted, LimiterTypeOK
  <2> QED
    BY <2>1, <2>2
<1>14. SlotsLimited'
  <2> SUFFICES ASSUME NEW k \in Keys \ raced
               PROVE  /\ limiters'[k] = NoLimiter => Holders(k) = {}
                      /\ limiters'[k] # NoLimiter =>
                           Cardinality(Holders(k)) <= maxStreams'[limiters'[k]]
    BY <1>3, <1>8 DEF SlotsLimited
  <2>1. CASE k = j
    <3>1. Holders(k) = {} /\ Cardinality(Holders(k)) = 0
      BY <2>1, <1>11, <1>12
    <3>2. maxStreams'[limiters'[k]] = n /\ 0 <= n
      BY <2>1, <1>2, <1>4
    <3> QED
      BY <3>1, <3>2
  <2>2. CASE k # j
    BY <2>2, <1>1, <1>4 DEF LimiterInv, SlotsLimited, LimiterTypeOK
  <2> QED
    BY <2>1, <2>2
<1> QED
  BY <1>5, <1>6, <1>7, <1>10, <1>13, <1>14 DEF LimiterInv

\* A limiter is used: nothing but its age changes.
LEMMA TouchStep ==
  ASSUME LimiterInv, NEW s \in Sessions, TouchLimiter(s)
  PROVE  LimiterInv'
<1>1. /\ UNCHANGED <<limiters, maxStreams, activeStreams, limiter, holding, raced, byDefault, call>>
      /\ old' \subseteq old
      /\ at[s] = "touch" /\ at'[s] = "decide" /\ s \notin holding
      /\ at' \in [Sessions -> Deciding \cup Serving \cup {"idle"}]
      /\ \A t \in Sessions \ {s} : at'[t] = at[t]
  BY DEF TouchLimiter, Touch, Goto, LimiterInv, SessionTypeOK, HoldersServe, Serving, Deciding
<1>2. LimiterTypeOK' /\ SessionTypeOK'
  BY <1>1 DEF LimiterInv, LimiterTypeOK, SessionTypeOK
<1>3. LimitersInPlace'
  BY <1>1 DEF LimiterInv, LimitersInPlace
<1>4. HoldersServe'
  BY <1>1 DEF LimiterInv, HoldersServe, Serving
<1>5. \A k \in Keys : Holders(k)' = Holders(k) /\ Due(k)' = Due(k)
  BY <1>1 DEF Holders, Due, LimiterInv, LimiterTypeOK
<1>6. SlotsDue'
  BY <1>1, <1>5 DEF LimiterInv, SlotsDue
<1>7. UnracedCounted'
  BY <1>1, <1>5 DEF LimiterInv, UnracedCounted
<1>8. SlotsLimited'
  BY <1>1, <1>5 DEF LimiterInv, SlotsLimited
<1> QED
  BY <1>2, <1>3, <1>4, <1>6, <1>7, <1>8 DEF LimiterInv

\* A session that is done with its limiter: what is registered keeps the
\* counts that are given.
LEMMA LeaveFacts ==
  ASSUME LimiterInv, NEW s \in Sessions, NEW counts \in [Limiters -> Nat], Leave(s, counts)
  PROVE  /\ limiter' = [limiter EXCEPT ![s] = NoLimiter]
         /\ activeStreams' \in [Limiters -> Nat] /\ maxStreams' \in [Limiters -> Nat]
         /\ \A k \in Keys : limiters[k] # NoLimiter =>
              /\ activeStreams'[limiters[k]] = counts[limiters[k]]
              /\ maxStreams'[limiters[k]] = maxStreams[limiters[k]]
BY DEF Leave, LimiterInv, LimiterTypeOK

\* A session without a slot that drops its limiter and goes on.
LEMMA DropStep ==
  ASSUME LimiterInv, NEW s \in Sessions, at[s] = "decide",
         Leave(s, activeStreams),
         UNCHANGED <<limiters, old, holding, raced, byDefault>>,
         \/ at' = [at EXCEPT ![s] = "idle"] /\ call' = [call EXCEPT ![s] = "none"]
         \/ at' = [at EXCEPT ![s] = "subscribe"] /\ call' = call /\ call[s] \notin Slotted
  PROVE  LimiterInv'
<1>1. /\ UNCHANGED <<limiters, old, holding, raced, byDefault>>
      /\ limiter' = [limiter EXCEPT ![s] = NoLimiter]
      /\ activeStreams' \in [Limiters -> Nat] /\ maxStreams' \in [Limiters -> Nat]
      /\ \A k \in Keys : limiters[k] # NoLimiter =>
           /\ activeStreams'[limiters[k]] = activeStreams[limiters[k]]
           /\ maxStreams'[limiters[k]] = maxStreams[limiters[k]]
  BY LeaveFacts DEF LimiterInv, LimiterTypeOK
<1>2. /\ limiter'[s] = NoLimiter /\ at'[s] \in {"idle", "subscribe"}
      /\ s \notin holding /\ (at'[s] = "idle" \/ call'[s] \notin Slotted)
      /\ \A t \in Sessions \ {s} :
           limiter'[t] = limiter[t] /\ at'[t] = at[t] /\ call'[t] = call[t]
  BY <1>1 DEF LimiterInv, LimiterTypeOK, SessionTypeOK, HoldersServe, Serving
<1>3. LimiterTypeOK' /\ SessionTypeOK'
  BY <1>1 DEF LimiterInv, LimiterTypeOK, SessionTypeOK, Serving
<1>4. LimitersInPlace'
  BY <1>1, <1>2 DEF LimiterInv, LimitersInPlace
<1>5. HoldersServe'
  BY <1>1, <1>2 DEF LimiterInv, HoldersServe, Serving
<1>6. \A k \in Keys : Holders(k)' = Holders(k) /\ Due(k)' = Due(k)
  BY <1>1, <1>2 DEF Holders, Due, LimiterInv, LimiterTypeOK
<1>7. SlotsDue'
  BY <1>1, <1>6 DEF LimiterInv, SlotsDue
<1>8. UnracedCounted'
  BY <1>1, <1>2, <1>6 DEF LimiterInv, UnracedCounted
<1>9. SlotsLimited'
  BY <1>1, <1>6 DEF LimiterInv, SlotsLimited
<1> QED
  BY <1>3, <1>4, <1>5, <1>7, <1>8, <1>9 DEF LimiterInv

\* A session that gets a slot is counted by the limiter it used, which may have
\* been removed since.
LEMMA AdmitStep ==
  ASSUME LimiterInv, NEW s \in Sessions, AcquireStream(s), HasRoom(limiter[s])
  PROVE  LimiterInv'
<1> DEFINE l == limiter[s]
<1> DEFINE j == KeyOf[s]
<1>1. /\ at[s] = "decide" /\ call[s] \in Slotted /\ l \in Limiters /\ l # NoLimiter /\ j \in Keys
      /\ s \notin holding /\ activeStreams[l] < maxStreams[l]
      /\ Counted(l) \in [Limiters -> Nat]
      /\ Counted(l)[l] = activeStreams[l] + 1
      /\ \A m \in Limiters \ {l} : Counted(l)[m] = activeStreams[m]
  BY LimiterAssumption
     DEF AcquireStream, HasRoom, Counted, LimiterInv, LimiterTypeOK, LimitersInPlace,
         HoldersServe, Serving
<1>2. /\ UNCHANGED <<limiters, old, raced, byDefault, call>>
      /\ Leave(s, Counted(l)) /\ holding' = holding \cup {s}
      /\ at' = [at EXCEPT ![s] = IF call[s] = "stream" THEN "subscribe" ELSE "serve"]
  BY DEF AcquireStream, Acquire, Goto
<1> HIDE DEF l
<1>3. /\ limiter' = [limiter EXCEPT ![s] = NoLimiter]
      /\ activeStreams' \in [Limiters -> Nat] /\ maxStreams' \in [Limiters -> Nat]
      /\ \A k \in Keys : limiters[k] # NoLimiter =>
           /\ activeStreams'[limiters[k]] = Counted(l)[limiters[k]]
           /\ maxStreams'[limiters[k]] = maxStreams[limiters[k]]
  BY <1>1, <1>2, LeaveFacts
<1>4. /\ limiter'[s] = NoLimiter /\ at'[s] \in {"subscribe", "serve"}
      /\ \A t \in Sessions \ {s} : limiter'[t] = limiter[t] /\ at'[t] = at[t]
  BY <1>2, <1>3 DEF LimiterInv, LimiterTypeOK, SessionTypeOK
<1>5. LimiterTypeOK' /\ SessionTypeOK'
  BY <1>2, <1>3 DEF LimiterInv, LimiterTypeOK, SessionTypeOK, Serving
<1>6. LimitersInPlace'
  BY <1>2, <1>4 DEF LimiterInv, LimitersInPlace
<1>7. HoldersServe'
  BY <1>1, <1>2, <1>4 DEF LimiterInv, HoldersServe, Serving
<1>8. /\ Holders(j)' = Holders(j) \cup {s} /\ Due(j)' = Due(j) \cup {s}
      /\ s \notin Holders(j) /\ s \notin Due(j)
      /\ \A k \in Keys \ {j} : Holders(k)' = Holders(k) /\ Due(k)' = Due(k)
  BY <1>1, <1>2, <1>4 DEF Holders, Due, LimiterInv, LimiterTypeOK
<1>9. /\ Cardinality(Holders(j)') = Cardinality(Holders(j)) + 1
      /\ Cardinality(Due(j)') = Cardinality(Due(j)) + 1
      /\ Cardinality(Holders(j)) \in Nat /\ Cardinality(Due(j)) \in Nat
  <2>1. Holders(j) \subseteq Sessions /\ Due(j) \subseteq Sessions
    BY DEF Holders, Due, LimiterInv, LimiterTypeOK
  <2> QED
    BY <2>1, <1>8, SessionCounts
<1>10. SlotsDue'
  <2> SUFFICES ASSUME NEW k \in Keys, limiters[k] # NoLimiter
               PROVE  Counted(l)[limiters[k]] <= Cardinality(Due(k)')
    BY <1>2, <1>3 DEF SlotsDue
  <2>1. limiters[k] \in Limiters /\ activeStreams[limiters[k]] \in Nat
    BY DEF LimiterInv, LimiterTypeOK
  <2>2. activeStreams[limiters[k]] <= Cardinality(Due(k))
    BY DEF LimiterInv, SlotsDue
  <2>3. CASE k = j
    BY <2>1, <2>2, <2>3, <1>1, <1>9
  <2>4. CASE k # j
    <3>1. limiters[k] # l
      BY <2>4, <1>1 DEF LimiterInv, LimitersInPlace, l
    <3> QED
      BY <2>1, <2>2, <2>4, <3>1, <1>1, <1>8
  <2> QED
    BY <2>3, <2>4
<1>11. j \notin raced =>
         /\ limiters[j] = l
         /\ activeStreams[l] = Cardinality(Holders(j))
  BY <1>1 DEF LimiterInv, UnracedCounted, l
<1>12. UnracedCounted'
  <2> SUFFICES ASSUME NEW k \in Keys \ raced
               PROVE  /\ limiters[k] = NoLimiter => Holders(k)' = {}
                      /\ limiters[k] # NoLimiter =>
                           activeStreams'[limiters[k]] = Cardinality(Holders(k)')
                      /\ \A t \in Sessions :
                           KeyOf[t] = k /\ at'[t] \in {"touch", "decide", "return"} =>
                             limiter'[t] = limiters[k]
    BY <1>2 DEF UnracedCounted
  <2>1. CASE k = j
    BY <2>1, <1>1, <1>3, <1>4, <1>9, <1>11 DEF LimiterInv, UnracedCounted
  <2>2. CASE k # j
    <3>1. limiters[k] # l
      BY <2>2, <1>1 DEF LimiterInv, LimitersInPlace, l
    <3>2. limiters[k] # NoLimiter => activeStreams'[limiters[k]] = activeStreams[limiters[k]]
      BY <3>1, <1>1, <1>3 DEF LimiterInv, LimiterTypeOK
    <3> QED
      BY <2>2, <3>2, <1>4, <1>8 DEF LimiterInv, UnracedCounted
  <2> QED
    BY <2>1, <2>2
<1>13. SlotsLimited'
  <2> SUFFICES ASSUME NEW k \in Keys \ raced
               PROVE  /\ limiters[k] = NoLimiter => Holders(k)' = {}
                      /\ limiters[k] # NoLimiter =>
                           Cardinality(Holders(k)') <= maxStreams[limiters[k]]
    BY <1>2, <1>3 DEF SlotsLimited
  <2>1. CASE k = j
    BY <2>1, <1>1, <1>9, <1>11 DEF LimiterInv, LimiterTypeOK
  <2>2. CASE k # j
    BY <2>2, <1>8 DEF LimiterInv, SlotsLimited
  <2> QED
    BY <2>1, <2>2
<1> QED
  BY <1>5, <1>6, <1>7, <1>10, <1>12, <1>13 DEF LimiterInv

\* A release reaches the limiter that is registered now, if any: a slot of
\* that limiter is only given back by a session that is due to.
LEMMA ReleaseStep ==
  ASSUME LimiterInv, NEW s \in Sessions, ReleaseStream(s)
  PROVE  LimiterInv'
<1> DEFINE l == limiter[s]
<1> DEFINE j == KeyOf[s]
<1> DEFINE counts == IF l = NoLimiter THEN activeStreams ELSE Released(l)
<1>1. /\ at[s] = "return" /\ s \in holding /\ l \in Limiters \cup {NoLimiter} /\ j \in Keys
      /\ counts \in [Limiters -> Nat]
      /\ l # NoLimiter =>
           counts[l] = IF activeStreams[l] > 0 THEN activeStreams[l] - 1 ELSE 0
      /\ \A m \in Limiters \ {l} : counts[m] = activeStreams[m]
  BY LimiterAssumption
     DEF ReleaseStream, Released, LimiterInv, LimiterTypeOK, HoldersServe, Serving,
         Limiters, NoLimiter
<1>2. /\ UNCHANGED <<limiters, old, raced, byDefault>>
      /\ Leave(s, counts) /\ holding' = holding \ {s}
      /\ at' = [at EXCEPT ![s] = "idle"] /\ call' = [call EXCEPT ![s] = "none"]
  BY DEF ReleaseStream, Release, Ends
<1> HIDE DEF l, counts
<1>3. /\ limiter' = [limiter EXCEPT ![s] = NoLimiter]
      /\ activeStreams' \in [Limiters -> Nat] /\ maxStreams' \in [Limiters -> Nat]
      /\ \A k \in Keys : limiters[k] # NoLimiter =>
           /\ activeStreams'[limiters[k]] = counts[limiters[k]]
           /\ maxStreams'[limiters[k]] = maxStreams[limiters[k]]
  BY <1>1, <1>2, LeaveFacts
<1>4. /\ limiter'[s] = NoLimiter /\ at'[s] = "idle" /\ call'[s] = "none"
      /\ \A t \in Sessions \ {s} :
           limiter'[t] = limiter[t] /\ at'[t] = at[t] /\ call'[t] = call[t]
  BY <1>2, <1>3 DEF LimiterInv, LimiterTypeOK, SessionTypeOK
<1>5. LimiterTypeOK' /\ SessionTypeOK'
  BY <1>2, <1>3 DEF LimiterInv, LimiterTypeOK, SessionTypeOK
<1>6. LimitersInPlace'
  BY <1>2, <1>4 DEF LimiterInv, LimitersInPlace
<1>7. HoldersServe'
  BY <1>2, <1>4 DEF LimiterInv, HoldersServe, Serving
<1>8. /\ Holders(j)' = Holders(j) \ {s} /\ Due(j)' = Due(j) \ {s} /\ s \in Holders(j)
      /\ s \in Due(j) <=> l = limiters[j]
      /\ \A k \in Keys \ {j} : Holders(k)' = Holders(k) /\ Due(k)' = Due(k)
  BY <1>1, <1>2, <1>4 DEF Holders, Due, LimiterInv, LimiterTypeOK, l
<1>9. /\ Holders(j) \subseteq Sessions /\ Due(j) \subseteq Sessions
      /\ Cardinality(Holders(j)) \in Nat /\ Cardinality(Due(j)) \in Nat
      /\ Cardinality(Holders(j)') = Cardinality(Holders(j)) - 1
      /\ Cardinality(Holders(j)') \in Nat
      /\ s \in Due(j) => /\ Cardinality(Due(j)') = Cardinality(Due(j)) - 1
                         /\ Cardinality(Due(j)') \in Nat
      /\ s \notin Due(j) => Due(j)' = Due(j)
  <2>1. Holders(j) \subseteq Sessions /\ Due(j) \subseteq Sessions
    BY DEF Holders, Due, LimiterInv, LimiterTypeOK
  <2>2. Holders(j) \ {s} \subseteq Sessions /\ Due(j) \ {s} \subseteq Sessions
    BY <2>1
  <2> QED
    BY <2>1, <2>2, <1>8, SessionCounts
<1>10. ASSUME NEW k \in Keys \ {j}, limiters[k] # NoLimiter
       PROVE  counts[limiters[k]] = activeStreams[limiters[k]]
  <2>1. limiters[k] # l
    BY <1>10 DEF LimiterInv, LimitersInPlace, l
  <2> QED
    BY <1>1, <1>10, <2>1 DEF LimiterInv, LimiterTypeOK
<1>11. SlotsDue'
  <2> SUFFICES ASSUME NEW k \in Keys, limiters[k] # NoLimiter
               PROVE  counts[limiters[k]] <= Cardinality(Due(k)')
    BY <1>2, <1>3 DEF SlotsDue
  <2>1. limiters[k] \in Limiters /\ activeStreams[limiters[k]] \in Nat
    BY DEF LimiterInv, LimiterTypeOK
  <2>2. activeStreams[limiters[k]] <= Cardinality(Due(k))
    BY DEF LimiterInv, SlotsDue
  <2>3. CASE k = j /\ limiters[j] = l
    BY <2>1, <2>2, <2>3, <1>1, <1>8, <1>9
  <2>4. CASE k = j /\ limiters[j] # l
    BY <2>1, <2>2, <2>4, <1>1, <1>8, <1>9
  <2>5. CASE k # j
    BY <2>2, <2>5, <1>8, <1>10
  <2> QED
    BY <2>3, <2>4, <2>5
<1>12. j \notin raced =>
         /\ limiters[j] = l /\ l # NoLimiter
         /\ activeStreams[l] = Cardinality(Holders(j))
  BY <1>1, <1>8 DEF LimiterInv, UnracedCounted, l
<1>13. UnracedCounted'
  <2> SUFFICES ASSUME NEW k \in Keys \ raced
               PROVE  /\ limiters[k] = NoLimiter => Holders(k)' = {}
                      /\ limiters[k] # NoLimiter =>
                           activeStreams'[limiters[k]] = Cardinality(Holders(k)')
                      /\ \A t \in Sessions :
                           KeyOf[t] = k /\ at'[t] \in {"touch", "decide", "return"} =>
                             limiter'[t] = limiters[k]
    BY <1>2 DEF UnracedCounted
  <2>1. CASE k = j
    <3>1. counts[l] = Cardinality(Holders(j)')
      BY <2>1, <1>1, <1>9, <1>12
    <3> QED
      BY <2>1, <3>1, <1>3, <1>4, <1>12 DEF LimiterInv, UnracedCounted
  <2>2. CASE k # j
    BY <2>2, <1>3, <1>4, <1>8, <1>10 DEF LimiterInv, UnracedCounted
  <2> QED
    BY <2>1, <2>2
<1>14. SlotsLimited'
  <2> SUFFICES ASSUME NEW k \in Keys \ raced
               PROVE  /\ limiters[k] = NoLimiter => Holders(k)' = {}
                      /\ limiters[k] # NoLimiter =>
                           Cardinality(Holders(k)') <= maxStreams[limiters[k]]
    BY <1>2, <1>3 DEF SlotsLimited
  <2>1. CASE k = j
    <3>1. Cardinality(Holders(j)) <= maxStreams[l] /\ maxStreams[l] \in Nat
      BY <2>1, <1>1, <1>12 DEF LimiterInv, SlotsLimited, LimiterTypeOK
    <3> QED
      BY <2>1, <3>1, <1>9, <1>12
  <2>2. CASE k # j
    BY <2>2, <1>8 DEF LimiterInv, SlotsLimited
  <2> QED
    BY <2>1, <2>2
<1> QED
  BY <1>5, <1>6, <1>7, <1>11, <1>13, <1>14 DEF LimiterInv

\* cleanup only removes limiters without a stream; a key whose limiter some
\* session had in hand is remembered in raced.
LEMMA CleanupStep ==
  ASSUME LimiterInv, Cleanup, UNCHANGED <<at, call>>
  PROVE  LimiterInv'
<1> DEFINE gone == {k \in Keys : Removable(k)}
<1> DEFINE removed == {limiters[k] : k \in gone}
<1>1. /\ limiters' = [k \in Keys |-> IF k \in gone THEN NoLimiter ELSE limiters[k]]
      /\ old' = old \ removed
      /\ maxStreams' = [l \in Limiters |->
                          IF l \in removed /\ Users(l) = {} THEN 0 ELSE maxStreams[l]]
      /\ raced' = raced \cup {k \in gone : Users(limiters[k]) # {}}
      /\ byDefault' = byDefault \ gone
      /\ UNCHANGED <<activeStreams, limiter, holding, at, call>>
  BY DEF Cleanup
<1>2. \A k \in gone : /\ limiters'[k] = NoLimiter /\ limiters[k] \in Limiters
                      /\ limiters[k] # NoLimiter /\ activeStreams[limiters[k]] = 0
  BY <1>1 DEF Removable, LimiterInv, LimiterTypeOK, Limiters, NoLimiter
<1>3. \A k \in Keys \ gone : limiters'[k] = limiters[k]
  BY <1>1
<1>4. \A k \in Keys \ gone : limiters[k] # NoLimiter =>
        maxStreams'[limiters[k]] = maxStreams[limiters[k]]
  BY <1>1, <1>2 DEF LimiterInv, LimiterTypeOK, LimitersInPlace
<1>5. /\ raced \subseteq raced'
      /\ \A k \in gone \ raced' : \A t \in Sessions : limiter[t] # limiters[k]
  BY <1>1 DEF Users
<1>6. LimiterTypeOK' /\ SessionTypeOK'
  BY <1>1 DEF LimiterInv, LimiterTypeOK, SessionTypeOK
<1> HIDE DEF gone
<1>7. LimitersInPlace'
  BY <1>1, <1>2, <1>3 DEF LimiterInv, LimitersInPlace
<1>8. HoldersServe'
  BY <1>1 DEF LimiterInv, HoldersServe
<1>9. \A k \in Keys : Holders(k)' = Holders(k)
  BY <1>1 DEF Holders
<1>10. \A k \in Keys \ gone : Due(k)' = Due(k)
  BY <1>1, <1>3, <1>9 DEF Due
<1>11. SlotsDue'
  BY <1>1, <1>2, <1>3, <1>10 DEF LimiterInv, SlotsDue
<1>12. \A k \in gone \ raced' : Holders(k) = {}
  <2> SUFFICES ASSUME NEW k \in gone \ raced'
               PROVE  Holders(k) = {}
    OBVIOUS
  <2>1. k \in Keys \ raced
    BY <1>5 DEF gone
  <2>2. Cardinality(Holders(k)) = 0
    BY <2>1, <1>2 DEF LimiterInv, UnracedCounted
  <2>3. IsFiniteSet(Holders(k))
    BY SessionCounts DEF Holders, LimiterInv, LimiterTypeOK
  <2> QED
    BY <2>2, <2>3, FS_EmptySet
<1>13. UnracedCounted'
  <2> SUFFICES ASSUME NEW k \in Keys \ raced'
               PROVE  /\ limiters'[k] = NoLimiter => Holders(k) = {}
                      /\ limiters'[k] # NoLimiter =>
                           activeStreams[limiters'[k]] = Cardinality(Holders(k))
                      /\ \A t \in Sessions :
                           KeyOf[t] = k /\ at[t] \in {"touch", "decide", "return"} =>
                             limiter[t] = limiters'[k]
    BY <1>1, <1>9 DEF UnracedCounted
  <2>1. CASE k \in gone
    BY <2>1, <1>2, <1>5, <1>12 DEF LimiterInv, UnracedCounted
  <2>2. CASE k \notin gone
    BY <2>2, <1>3, <1>5 DEF LimiterInv, UnracedCounted
  <2> QED
    BY <2>1, <2>2
<1>14. SlotsLimited'
  BY <1>2, <1>3, <1>4, <1>5, <1>9, <1>12 DEF LimiterInv, SlotsLimited
<1> QED
  BY <1>6, <1>7, <1>8, <1>11, <1>13, <1>14 DEF LimiterInv

\* What does not touch the limiters, but for their age.
LEMMA LimiterKept ==
  ASSUME LimiterInv, old' \subseteq Limiters,
         UNCHANGED <<limiters, maxStreams, activeStreams, limiter, holding, raced, byDefault, at, call>>
  PROVE  LimiterInv'
<1>1. LimiterTypeOK' /\ SessionTypeOK'
  BY DEF LimiterInv, LimiterTypeOK, SessionTypeOK
<1>2. LimitersInPlace'
  BY DEF LimiterInv, LimitersInPlace
<1>3. HoldersServe'
  BY DEF LimiterInv, HoldersServe
<1>4. \A k \in Keys : Holders(k)' = Holders(k) /\ Due(k)' = Due(k)
  BY DEF Holders, Due
<1>5. SlotsDue'
  BY <1>4 DEF LimiterInv, SlotsDue
<1>6. UnracedCounted'
  BY <1>4 DEF LimiterInv, UnracedCounted
<1>7. SlotsLimited'
  BY <1>4 DEF LimiterInv, SlotsLimited
<1> QED
  BY <1>1, <1>2, <1>3, <1>5, <1>6, <1>7 DEF LimiterInv

\* Every step of a session preserves the limiter's part.
LEMMA SessionSteps ==
  ASSUME LimiterInv, NEW s \in Sessions,
         SessionStep(s) \/ ArriveMessage(s) \/ \E c \in Calls : Arrive(s, c)
  PROVE  LimiterInv'
<1>1. /\ at[s] \in Deciding \cup Serving \cup {"idle"}
      /\ call[s] \in Calls \cup {"none", "message"}
      /\ s \in holding <=> call[s] \in Slotted /\ at[s] \in Serving
  BY DEF LimiterInv, SessionTypeOK, HoldersServe
<1>2. CASE ArriveMessage(s)
  BY <1>1, <1>2, MoveStep DEF ArriveMessage, Serving, Calls, Slotted
<1>3. ASSUME NEW c \in Calls, Arrive(s, c)
      PROVE  LimiterInv'
  BY <1>1, <1>3, MoveStep DEF Arrive, Serving
<1>4. CASE LookUp(s)
  BY <1>4, LookUpStep
<1>5. CASE CreateLimiter(s)
  BY <1>5, FoundStep, CreatedStep
<1>6. CASE TouchLimiter(s)
  BY <1>6, TouchStep
<1>7. CASE AcquireStream(s)
  <2>1. CASE HasRoom(limiter[s])
    BY <1>7, <2>1, AdmitStep
  <2>2. CASE ~HasRoom(limiter[s])
    BY <1>7, <2>2, DropStep DEF AcquireStream, Acquire, Ends
  <2> QED
    BY <2>1, <2>2
<1>8. CASE Allow(s)
  BY <1>8, DropStep DEF Allow, Forget, Goto, Ends, Slotted
<1>9. ASSUME NEW l \in {"serve", "submit", "release"}, Goto(s, l), UNCHANGED limiterVars,
             at[s] \in {"subscribe", "submit", "serve"},
             l = "release" => call[s] \in Slotted
      PROVE  LimiterInv'
  <2>1. call' = [call EXCEPT ![s] = call[s]]
    BY <1>9 DEF Goto, LimiterInv, SessionTypeOK
  <2> QED
    BY <1>1, <1>9, <2>1, MoveStep DEF Goto, Serving
<1>10. CASE \E x \in Symbols : Subscribe(s, x)
  BY <1>9, <1>10 DEF Subscribe, InUpstream
<1>11. CASE Submit(s)
  BY <1>9, <1>11 DEF Submit, InUpstream
<1>12. CASE Respond(s)
  BY <1>1, <1>12, MoveStep DEF Respond, Ends, Serving, Slotted
<1>13. CASE CloseStream(s)
  BY <1>9, <1>13 DEF CloseStream
<1>14. CASE FindLimiter(s)
  BY <1>14, FindLimiterStep
<1>15. CASE ReleaseStream(s)
  BY <1>15, ReleaseStep
<1> QED
  BY <1>2, <1>3, <1>4, <1>5, <1>6, <1>7, <1>8, <1>10, <1>11, <1>12, <1>13, <1>14, <1>15
     DEF SessionStep

\* Every step of the relay preserves the limiter's part.
LEMMA LimiterNext ==
  ASSUME LimiterInv, [Next]_vars
  PROVE  LimiterInv'
<1>1. CASE \E s \in Sessions :
             SessionStep(s) \/ ArriveMessage(s) \/ \E c \in Calls : Arrive(s, c)
  BY <1>1, SessionSteps
<1>2. CASE LimiterStep
  <2>1. CASE Cleanup
    BY <1>2, <2>1, CleanupStep DEF LimiterStep
  <2>2. ASSUME NEW l \in Limiters, GrowOld(l)
        PROVE  LimiterInv'
    BY <1>2, <2>2, LimiterKept DEF LimiterStep, GrowOld, LimiterInv, LimiterTypeOK
  <2> QED
    BY <1>2, <2>1, <2>2 DEF LimiterStep
<1>3. CASE UpstreamStep \/ UNCHANGED vars
  BY <1>3, LimiterKept
     DEF UpstreamStep, InUpstream, limiterVars, vars, LimiterInv, LimiterTypeOK
<1> QED
  BY <1>1, <1>2, <1>3 DEF Next

\* No limiter and no session at the start.
LEMMA LimiterStarts ==
  ASSUME Init
  PROVE  LimiterInv
<1>1. /\ \A k \in Keys : limiters[k] = NoLimiter /\ Holders(k) = {}
      /\ \A s \in Sessions : limiter[s] = NoLimiter /\ at[s] = "idle" /\ call[s] = "none"
      /\ holding = {}
  BY DEF Init, LimiterInit, Holders
<1>2. LimiterTypeOK /\ SessionTypeOK
  BY DEF Init, LimiterInit, LimiterTypeOK, SessionTypeOK
<1> QED
  BY <1>1, <1>2
     DEF LimiterInv, LimitersInPlace, HoldersServe, SlotsDue, UnracedCounted, SlotsLimited,
         Slotted

-----------------------------------------------------------------------------
(* What the limiters were created with.                                    *)

\* A step that registers the same limiters, with the same limits.
LEMMA GivenKept ==
  ASSUME LimitsGiven, UNCHANGED <<limiters, byDefault>>,
         \A k \in Keys : limiters[k] # NoLimiter => maxStreams'[limiters[k]] = maxStreams[limiters[k]]
  PROVE  LimitsGiven'
BY DEF LimitsGiven

\* Allow and AcquireStream give a new limiter its limit, cleanup removes one.
LEMMA GivenNext ==
  ASSUME LimiterInv, LimitsGiven, [Next]_vars
  PROVE  LimitsGiven'
<1>1. CASE UNCHANGED <<limiters, byDefault, maxStreams>>
  BY <1>1, GivenKept
<1>2. ASSUME NEW s \in Sessions, NEW counts \in [Limiters -> Nat], Leave(s, counts),
             UNCHANGED <<limiters, byDefault>>
      PROVE  LimitsGiven'
  BY <1>2, LeaveFacts, GivenKept
<1>3. ASSUME NEW s \in Sessions, CreateLimiter(s), Registered(s) = NoLimiter
      PROVE  LimitsGiven'
  <2> DEFINE u == Unreferenced
  <2> DEFINE j == KeyOf[s]
  <2> DEFINE n == IF call[s] = "request" THEN DefaultRPS ELSE PlanOf[s]
  <2>1. u \in Limiters /\ u # NoLimiter /\ \A k \in Keys : limiters[k] # u
    BY <1>3, UnreferencedIsFree DEF Limiters, NoLimiter
  <2>2. /\ limiters' = [limiters EXCEPT ![j] = u] /\ j \in Keys /\ limiters[j] = NoLimiter
        /\ maxStreams' = [maxStreams EXCEPT ![u] = n]
        /\ byDefault' = IF call[s] = "request" THEN byDefault \cup {j} ELSE byDefault
    BY <1>3, LimiterAssumption DEF CreateLimiter, Create, Registered
  <2> HIDE DEF u, n
  <2>3. limiters'[j] = u /\ maxStreams'[u] = n /\ j \notin byDefault
    BY <2>1, <2>2 DEF LimitsGiven, LimiterInv, LimiterTypeOK
  <2>4. \A k \in Keys \ {j} :
          /\ limiters'[k] = limiters[k] /\ (k \in byDefault' <=> k \in byDefault)
          /\ limiters[k] # NoLimiter => maxStreams'[limiters[k]] = maxStreams[limiters[k]]
    BY <2>1, <2>2 DEF LimiterInv, LimiterTypeOK
  <2>5. IF j \in byDefault' THEN n = DefaultRPS ELSE n = PlanOf[s]
    BY <2>2, <2>3 DEF n
  <2> SUFFICES ASSUME NEW k \in Keys
               PROVE  IF limiters'[k] = NoLimiter THEN k \notin byDefault'
                      ELSE IF k \in byDefault' THEN maxStreams'[limiters'[k]] = DefaultRPS
                      ELSE \E t \in Sessions : KeyOf[t] = k /\ maxStreams'[limiters'[k]] = PlanOf[t]
    BY DEF LimitsGiven
  <2>6. CASE k = j
    BY <2>1, <2>3, <2>5, <2>6
  <2>7. CASE k # j
    <3>1. /\ limiters'[k] = limiters[k] /\ (k \in byDefault' <=> k \in byDefault)
          /\ limiters[k] # NoLimiter => maxStreams'[limiters[k]] = maxStreams[limiters[k]]
      BY <2>4, <2>7
    <3>2. IF limiters[k] = NoLimiter THEN k \notin byDefault
          ELSE IF k \in byDefault THEN maxStreams[limiters[k]] = DefaultRPS
          ELSE \E t \in Sessions : KeyOf[t] = k /\ maxStreams[limiters[k]] = PlanOf[t]
      BY DEF LimitsGiven
    <3> QED
      BY <3>1, <3>2
  <2> QED
    BY <2>6, <2>7
<1>4. CASE Cleanup
  <2> DEFINE gone == {k \in Keys : Removable(k)}
  <2>1. /\ limiters' = [k \in Keys |-> IF k \in gone THEN NoLimiter ELSE limiters[k]]
        /\ byDefault' = byDefault \ gone
        /\ maxStreams' = [l \in Limiters |->
                            IF l \in {limiters[k] : k \in gone} /\ Users(l) = {} THEN 0 ELSE maxStreams[l]]
    BY <1>4 DEF Cleanup
  <2>2. ASSUME NEW k \in Keys \ gone, limiters[k] # NoLimiter
        PROVE  limiters[k] \in Limiters /\ limiters[k] \notin {limiters[j] : j \in gone}
    <3>1. \A j \in gone : limiters[j] # NoLimiter
      BY DEF Removable, LimiterInv, LimiterTypeOK, Limiters, NoLimiter
    <3> QED
      BY <2>2, <3>1 DEF LimiterInv, LimiterTypeOK, LimitersInPlace
  <2>3. \A k \in Keys \ gone : limiters[k] # NoLimiter => maxStreams'[limiters[k]] = maxStreams[limiters[k]]
    BY <2>1, <2>2
  <2> HIDE DEF gone
  <2> QED
    BY <2>1, <2>3 DEF LimitsGiven
<1>5. ASSUME NEW s \in Sessions, SessionStep(s), ~CreateLimiter(s)
      PROVE  LimitsGiven'
  <2> USE DEF LimiterInv, LimiterTypeOK
  <2>1. CASE AcquireStream(s)
    <3>1. limiter[s] \in Limiters
      BY <2>1 DEF AcquireStream, LimitersInPlace
    <3>2. Counted(limiter[s]) \in [Limiters -> Nat]
      BY <3>1 DEF Counted
    <3>3. \E counts \in [Limiters -> Nat] : Leave(s, counts)
      BY <2>1, <3>2 DEF AcquireStream, Acquire
    <3> QED
      BY <1>2, <2>1, <3>3 DEF AcquireStream, Acquire
  <2>2. CASE Allow(s)
    BY <1>2, <2>2 DEF Allow, Forget
  <2>3. CASE ReleaseStream(s)
    <3>1. limiter[s] # NoLimiter => Released(limiter[s]) \in [Limiters -> Nat]
      BY DEF Released
    <3>2. \E counts \in [Limiters -> Nat] : Leave(s, counts)
      BY <2>3, <3>1 DEF ReleaseStream, Release
    <3> QED
      BY <1>2, <2>3, <3>2 DEF ReleaseStream, Release
  <2> QED
    BY <1>1, <1>5, <2>1, <2>2, <2>3
       DEF SessionStep, LookUp, Lookup, TouchLimiter, Touch, Subscribe, Submit, Respond, CloseStream,
           FindLimiter, InUpstream, limiterVars
<1>6. ASSUME NEW s \in Sessions, CreateLimiter(s), Registered(s) # NoLimiter
      PROVE  LimitsGiven'
  BY <1>1, <1>6 DEF CreateLimiter, Create
<1>7. CASE LimiterStep
  BY <1>1, <1>4, <1>7 DEF LimiterStep, GrowOld
<1> QED
  BY <1>1, <1>3, <1>5, <1>6, <1>7
     DEF Next, ArriveMessage, Arrive, UpstreamStep, InUpstream, limiterVars, vars

-----------------------------------------------------------------------------
(* The lock.                                                               *)

\* streamsMu is handed over and given back by the sessions' own steps.
LEMMA LockNext ==
  ASSUME UpstreamTypeOK(Sessions), SessionTypeOK, LockInPlace, [Next]_vars
  PROVE  LockInPlace'
<1> USE AdmissionAssumption DEF LockInPlace, SessionTypeOK, UpstreamTypeOK
<1>1. ASSUME NEW s \in Sessions, NEW x \in Symbols, Subscribe(s, x) PROVE LockInPlace'
  <2>1. CASE AlreadySubscribed(x) /\ Goto(s, "serve")
    BY <1>1, <2>1 DEF Subscribe, AlreadySubscribed, upstreamVars, Goto
  <2>2. CASE StartStream(s, x) /\ Goto(s, "submit")
    BY <1>1, <2>2 DEF Subscribe, StartStream, Goto
  <2> QED
    BY <1>1, <2>1, <2>2 DEF Subscribe
<1>2. ASSUME NEW s \in Sessions, Submit(s) PROVE LockInPlace'
  BY <1>2 DEF Submit, Submitted, SubmitRefused, SubmitReady, Unlock, Goto
<1>3. ASSUME NEW s \in Sessions, UNCHANGED streamsMu, at[s] # "submit",
             NEW l, l # "submit", at' = [at EXCEPT ![s] = l]
      PROVE  LockInPlace'
  BY <1>3
<1>4. ASSUME NEW s \in Sessions, SessionStep(s) PROVE LockInPlace'
  <2>1. CASE \E x \in Symbols : Subscribe(s, x)
    BY <1>1, <2>1
  <2>2. CASE LookUp(s) \/ CreateLimiter(s) \/ TouchLimiter(s) \/ AcquireStream(s) \/ Allow(s)
    <3>1. UNCHANGED streamsMu /\ at[s] # "submit"
      BY <2>2 DEF LookUp, CreateLimiter, TouchLimiter, AcquireStream, Allow, InLimiter, upstreamVars
    <3>2. \E l : l # "submit" /\ at' = [at EXCEPT ![s] = l]
      BY <2>2, Zenon DEF LookUp, CreateLimiter, TouchLimiter, AcquireStream, Allow, Goto, Ends
    <3> QED
      BY <1>3, <3>1, <3>2
  <2>3. CASE Respond(s) \/ CloseStream(s) \/ FindLimiter(s) \/ ReleaseStream(s)
    <3>1. UNCHANGED streamsMu /\ at[s] # "submit"
      BY <2>3 DEF Respond, CloseStream, FindLimiter, ReleaseStream, InLimiter, upstreamVars
    <3>2. \E l : l # "submit" /\ at' = [at EXCEPT ![s] = l]
      BY <2>3 DEF Respond, CloseStream, FindLimiter, ReleaseStream, Goto, Ends
    <3> QED
      BY <1>3, <3>1, <3>2
  <2> QED
    BY <1>2, <1>4, <2>1, <2>2, <2>3 DEF SessionStep
<1>5. ASSUME NEW s \in Sessions, ArriveMessage(s) \/ \E c \in Calls : Arrive(s, c) PROVE LockInPlace'
  <2>1. UNCHANGED streamsMu /\ at[s] # "submit"
    BY <1>5 DEF ArriveMessage, Arrive, upstreamVars
  <2>2. \E l : l # "submit" /\ at' = [at EXCEPT ![s] = l]
    BY <1>5 DEF ArriveMessage, Arrive
  <2> QED
    BY <1>3, <2>1, <2>2
<1>6. CASE UNCHANGED <<at, streamsMu>>
  BY <1>6
<1> QED
  BY <1>4, <1>5, <1>6 DEF Next, vars, LimiterStep, InLimiter, UpstreamStep, upstreamVars, Unsubscribe, StreamEnds, StreamPanics, WorkerEnds,
     StopBegins, StopSteps, StopCancels, StopReleases, StopCancelsEach, StopStep

-----------------------------------------------------------------------------
(* The theorems.                                                           *)

\* RelayInv is an invariant: what the two parts keep of their own state and
\* the sessions' places, in every interleaving of sessions, cleanup and Stop.
THEOREM RelayInvariant == Spec => []RelayInv
<1>1. Init => UpstreamInv /\ LimiterInv /\ LimitsGiven /\ LockInPlace
  <2>1. Init => LockInPlace
    BY AdmissionAssumption DEF Init, UpstreamInit, LockInPlace
  <2>2. Init => LimitsGiven
    BY DEF Init, LimiterInit, LimitsGiven
  <2> QED
    BY <2>1, <2>2, UpstreamStarts, LimiterStarts
<1>2. UpstreamInv /\ LimiterInv /\ LimitsGiven /\ LockInPlace /\ [Next]_vars
      => UpstreamInv' /\ LimiterInv' /\ LimitsGiven' /\ LockInPlace'
  BY UpstreamNext, LimiterNext, GivenNext, LockNext DEF UpstreamInv, LimiterInv
<1>3. UpstreamInv /\ LimiterInv /\ LimitsGiven /\ LockInPlace => RelayInv
  BY DEF UpstreamInv, LimiterInv, RelayInv, TypeOK
<1> QED
  BY <1>1, <1>2, <1>3, PTL DEF Spec

\* The state of limiter, upstream manager and sessions keeps its types; no
\* more streams run than there are workers.
THEOREM RelayTypeOK == Spec => []TypeOK
<1>1. RelayInv => TypeOK
  BY DEF RelayInv
<1> QED
  BY <1>1, RelayInvariant, PTL

\* No slot is lost: a limiter counts no more streams than its key has.
THEOREM RelayNoLostSlot == Spec => []NoLostSlot
<1>1. RelayInv => NoLostSlot
  <2> SUFFICES ASSUME RelayInv, NEW k \in Keys, limiters[k] # NoLimiter
               PROVE  activeStreams[limiters[k]] <= Cardinality(Holders(k))
    BY DEF NoLostSlot
  <2>1. Holders(k) \subseteq Sessions /\ Due(k) \subseteq Holders(k)
    BY DEF Holders, Due, RelayInv, TypeOK, LimiterTypeOK
  <2>2. /\ Cardinality(Due(k)) <= Cardinality(Holders(k))
        /\ Cardinality(Due(k)) \in Nat /\ Cardinality(Holders(k)) \in Nat
    BY <2>1, SessionCounts
  <2>3. activeStreams[limiters[k]] <= Cardinality(Due(k))
    BY DEF RelayInv, SlotsDue
  <2>4. activeStreams[limiters[k]] \in Nat
    BY DEF RelayInv, TypeOK, LimiterTypeOK
  <2> QED
    BY <2>2, <2>3, <2>4
<1> QED
  BY <1>1, RelayInvariant, PTL

\* A key never has more streams than its plan allows (ratelimit.go:121), unless
\* Allow created its limiter or one was removed while a session was about to
\* use it.
THEOREM RelayWithinLimit == Spec => []WithinLimit
<1>1. RelayInv => WithinLimit
  <2> SUFFICES ASSUME RelayInv, NEW k \in Keys \ raced, Holders(k) # {}
               PROVE  IF k \in byDefault THEN Cardinality(Holders(k)) <= DefaultRPS
                      ELSE \E s \in Sessions : KeyOf[s] = k /\ Cardinality(Holders(k)) <= PlanOf[s]
    BY DEF WithinLimit
  <2>1. limiters[k] # NoLimiter /\ Cardinality(Holders(k)) <= maxStreams[limiters[k]]
    BY DEF RelayInv, SlotsLimited
  <2> QED
    BY <2>1 DEF RelayInv, LimitsGiven
<1> QED
  BY <1>1, RelayInvariant, PTL

\* Until Stop begins, each subscribed symbol whose worker did not panic has one
\* live worker, and no other symbol has any.
THEOREM RelayFedByOne == Spec => []FedByOne
<1>1. RelayInv => FedByOne
  BY DEF RelayInv
<1> QED
  BY <1>1, RelayInvariant, PTL

\* Stop is never stuck (manager.go:97): of its steps only the last waits, for
\* streamsMu, which is then held by a session in pool.Submit that the closed
\* pool sends on.
THEOREM RelayStopNeverWaits == Spec => []StopNeverWaits
<1>1. ASSUME RelayInv, stop = "released", streamsMu # Nobody
      PROVE  \E s \in Sessions : at[s] = "submit" /\ SubmitReady(s)
  <2>1. streamsMu \in Sessions
    BY <1>1 DEF RelayInv, TypeOK, UpstreamTypeOK
  <2>2. at[streamsMu] = "submit" /\ SubmitReady(streamsMu)
    BY <1>1, <2>1 DEF RelayInv, LockInPlace, SubmitReady, PoolClosed
  <2> QED
    BY <2>1, <2>2
<1>2. RelayInv => StopNeverWaits
  BY <1>1 DEF StopNeverWaits, CancelReady, ReleaseReady, CancelEachReady
<1> QED
  BY <1>2, RelayInvariant, PTL
=============================================================================
