---------------------------- MODULE StreamLimiter ----------------------------
(***************************************************************************)
(* The stream slots of ratelimit.go: a map from API keys to limiters, each *)
(* with a count of active streams.  A session looks its limiter up (and    *)
(* creates it) under l.mu, then uses it without that lock: LastAccess is   *)
(* assigned with no lock at all, the count changes under the limiter's own *)
(* mutex.  ReleaseStream looks the key up again.  cleanup removes limiters *)
(* that were not accessed for long and have no active stream.              *)
(*                                                                         *)
(* The actions here are the steps of one session inside the limiter; the   *)
(* order in which a session takes them is in RelayAdmission.tla.  The      *)
(* token bucket of golang.org/x/time/rate is external: it may refuse any   *)
(* request.  SetLimit has no caller and is left out.                       *)
(***************************************************************************)
EXTENDS Naturals, FiniteSets

CONSTANTS Sessions, Keys,
          KeyOf,       \* the limiter key of a session: string(rune(APIKeyID))
          PlanOf,      \* MaxConcurrentStreams of its plan
          DefaultRPS   \* what Allow passes for the number of streams

ASSUME LimiterAssumption ==
  /\ IsFiniteSet(Sessions) /\ IsFiniteSet(Keys)
  /\ KeyOf \in [Sessions -> Keys]
  /\ PlanOf \in [Sessions -> Nat]
  /\ DefaultRPS \in Nat

\* ClientLimiter objects: one per key and one per session that still uses a
\* removed one are enough, for an object nobody refers to can be used again.
Limiters == 1 .. Cardinality(Keys) + Cardinality(Sessions)
NoLimiter == 0

VARIABLES
  limiters,       \* key -> limiter or NoLimiter
  maxStreams, activeStreams,
  old,            \* registered ones not accessed for two cleanup intervals
  limiter,        \* each session's local variable
  holding,        \* history: sessions that acquired and have not released
  raced,          \* history: keys whose limiter was removed under a session
  byDefault       \* history: keys whose registered limiter Allow created

limiterVars == <<limiters, maxStreams, activeStreams, old, limiter, holding, raced, byDefault>>

LimiterTypeOK ==
  /\ limiters \in [Keys -> Limiters \cup {NoLimiter}]
  /\ maxStreams \in [Limiters -> Nat] /\ activeStreams \in [Limiters -> Nat]
  /\ old \subseteq Limiters
  /\ limiter \in [Sessions -> Limiters \cup {NoLimiter}]
  /\ holding \subseteq Sessions /\ raced \subseteq Keys /\ byDefault \subseteq Keys

LimiterInit ==
  /\ limiters = [k \in Keys |-> NoLimiter]
  /\ maxStreams = [l \in Limiters |-> 0] /\ activeStreams = [l \in Limiters |-> 0]
  /\ old = {} /\ limiter = [s \in Sessions |-> NoLimiter]
  /\ holding = {} /\ raced = {} /\ byDefault = {}

Registered(s) == limiters[KeyOf[s]]
Users(l) == {s \in Sessions : limiter[s] = l}

\* s is done with its limiter, whose counts are now as given; an object that
\* nobody refers to any more is forgotten.
Leave(s, counts) ==
  LET l == limiter[s]
      last == l # NoLimiter /\ Users(l) = {s} /\ \A k \in Keys : limiters[k] # l
  IN  /\ limiter' = [limiter EXCEPT ![s] = NoLimiter]
      /\ activeStreams' = IF last THEN [counts EXCEPT ![l] = 0] ELSE counts
      /\ maxStreams' = IF last THEN [maxStreams EXCEPT ![l] = 0] ELSE maxStreams

Counted(l) == [activeStreams EXCEPT ![l] = @ + 1]

-----------------------------------------------------------------------------
\* getOrCreate, first half: the map under the read lock.
Lookup(s) ==
  /\ limiter' = [limiter EXCEPT ![s] = Registered(s)]
  /\ UNCHANGED <<limiters, maxStreams, activeStreams, old, holding, raced, byDefault>>

Unreferenced ==
  CHOOSE l \in Limiters : Users(l) = {} /\ \A k \in Keys : limiters[k] # l

\* Second half, after a miss: the double-check under the write lock.  Allow
\* gives defaultRPS for the number of streams, AcquireStream the plan's.
Create(s, inAllow) ==
  /\ IF Registered(s) # NoLimiter
     THEN /\ limiter' = [limiter EXCEPT ![s] = Registered(s)]
          /\ UNCHANGED <<limiters, maxStreams, activeStreams, old, byDefault>>
     ELSE /\ limiters' = [limiters EXCEPT ![KeyOf[s]] = Unreferenced]
          /\ limiter' = [limiter EXCEPT ![s] = Unreferenced]
          /\ maxStreams' = [maxStreams EXCEPT ![Unreferenced] =
                              IF inAllow THEN DefaultRPS ELSE PlanOf[s]]
          /\ activeStreams' = [activeStreams EXCEPT ![Unreferenced] = 0]
          /\ old' = old \ {Unreferenced}
          /\ byDefault' = IF inAllow THEN byDefault \cup {KeyOf[s]} ELSE byDefault
  /\ UNCHANGED <<holding, raced>>

\* limiter.LastAccess = time.Now().
Touch(s) ==
  /\ old' = old \ {limiter[s]}
  /\ UNCHANGED <<limiters, maxStreams, activeStreams, limiter, holding, raced, byDefault>>

HasRoom(l) == activeStreams[l] < maxStreams[l]

\* Mutation of Acquire: the stream is counted before the limit is compared.
AcquireCountsFirst(s) ==
  /\ Leave(s, Counted(limiter[s]))
  /\ holding' = IF HasRoom(limiter[s]) THEN holding \cup {s} ELSE holding
  /\ UNCHANGED <<limiters, old, raced, byDefault>>

\* Streams.Acquire, under the limiter's mutex; without room s gets no slot.
Acquire(s) ==
  /\ Leave(s, IF HasRoom(limiter[s]) THEN Counted(limiter[s]) ELSE activeStreams)
  /\ holding' = IF HasRoom(limiter[s]) THEN holding \cup {s} ELSE holding
  /\ UNCHANGED <<limiters, old, raced, byDefault>>

\* RPS.Allow, the last use of the limiter in Allow.
Forget(s) ==
  /\ Leave(s, activeStreams)
  /\ UNCHANGED <<limiters, old, holding, raced, byDefault>>

\* Mutation of Released: the count is not compared with 0.
ReleasedBelow(l) == [activeStreams EXCEPT ![l] = @ - 1]

Released(l) ==
  IF activeStreams[l] > 0 THEN [activeStreams EXCEPT ![l] = @ - 1] ELSE activeStreams

\* ReleaseStream, after Lookup: Streams.Release if the key has a limiter.
Release(s) ==
  /\ Leave(s, IF limiter[s] = NoLimiter THEN activeStreams ELSE Released(limiter[s]))
  /\ holding' = holding \ {s}
  /\ UNCHANGED <<limiters, old, raced, byDefault>>

\* External: two cleanup intervals pass without an access.
GrowOld(l) ==
  /\ l \notin old
  /\ \E k \in Keys : limiters[k] = l
  /\ old' = old \cup {l}
  /\ UNCHANGED <<limiters, maxStreams, activeStreams, limiter, holding, raced, byDefault>>

\* Mutation of Removable: active streams are not looked at.
RemovableOld(k) == limiters[k] \in old

Removable(k) == limiters[k] \in old /\ activeStreams[limiters[k]] = 0

\* cleanup, under the write lock.
Cleanup ==
  LET gone == {k \in Keys : Removable(k)}
      removed == {limiters[k] : k \in gone}
  IN  /\ gone # {}
      /\ limiters' = [k \in Keys |-> IF k \in gone THEN NoLimiter ELSE limiters[k]]
      /\ old' = old \ removed
      /\ maxStreams' = [l \in Limiters |->
                          IF l \in removed /\ Users(l) = {} THEN 0 ELSE maxStreams[l]]
      /\ raced' = raced \cup {k \in gone : Users(limiters[k]) # {}}
      /\ byDefault' = byDefault \ gone
      /\ UNCHANGED <<activeStreams, limiter, holding>>

-----------------------------------------------------------------------------
Holders(k) == {s \in holding : KeyOf[s] = k}

\* No slot is lost: the limiter of a key counts no more streams than there
\* are, so that a key whose streams have ended gets all its slots again,
\* although a release may reach another limiter than its acquire did.
NoLostSlot ==
  \A k \in Keys : limiters[k] # NoLimiter =>
    activeStreams[limiters[k]] <= Cardinality(Holders(k))

\* A key never has more streams than its plan allows, through any number of
\* removals and creations of its limiter (than the largest, if its sessions
\* came with several plans), with two exceptions: Allow, when it comes first,
\* creates a limiter of defaultRPS streams, and a limiter may be removed while
\* a session is about to use it.
WithinLimit ==
  \A k \in Keys \ raced : Holders(k) # {} =>
    IF k \in byDefault THEN Cardinality(Holders(k)) <= DefaultRPS
    ELSE \E s \in Sessions : KeyOf[s] = k /\ Cardinality(Holders(k)) <= PlanOf[s]
=============================================================================
