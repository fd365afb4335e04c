--------------------------- MODULE ControlProofs ---------------------------
(***************************************************************************)
(* Proofs about the control plane of the relay.                            *)
(*                                                                         *)
(* ControlPlane, for any keys, tenants, plans, goroutines, lifetime of     *)
(* entries and clock: what the two caches may still say after the tables   *)
(* have changed.  Authentication and plan service share nothing but the    *)
(* tables, so each has an invariant of its own (AuthInv, PlanInv) that the *)
(* steps of the other leave alone, and a change of the tables is looked at *)
(* once for each.                                                          *)
(*                                                                         *)
(* Usage, for any number of recorders, keys, calls and streams: every      *)
(* event recorded is in exactly one place.  What is where is the sum, or   *)
(* for peaks the greatest, of five amounts (Total); each action adds to    *)
(* one of them what it records, or moves an amount from one to the next.   *)
(***************************************************************************)
EXTENDS ControlPlane, Usage, TLAPS

AuthInv ==
  AuthTypeOK /\ ThreadsInPlace /\ CachedWereValid /\ OvertakenLater /\ ClearedStaysOut

PlanInv == PlanTypeOK /\ PlansInPlace /\ PlanCacheAgrees /\ StoresAgree

LEMMA ControlIsBoth == ControlInv <=> TablesTypeOK /\ AuthInv /\ PlanInv
BY DEF ControlInv, TypeOK, AuthInv, PlanInv

LEMMA ControlIsBothNext == TablesTypeOK' /\ AuthInv' /\ PlanInv' => ControlInv'
BY DEF ControlInv, TypeOK, AuthInv, PlanInv

\* No AuthContext is None.
LEMMA NoneIsNoContext == \A x \in AuthContext : x # None /\ x.row \in Rows /\ x.at \in 0 .. MaxTime
BY DEF AuthContext, None

LEMMA RowType == TablesTypeOK => \A k \in Keys : Row(k) \in Rows
BY TablesAssumption DEF TablesTypeOK, Row, Rows

LEMMA ControlInit == Init => ControlInv
<1> SUFFICES ASSUME Init PROVE ControlInv
  OBVIOUS
<1>1. TablesTypeOK
  BY TablesAssumption DEF Init, TablesInit, TablesTypeOK, KeyStatuses
<1>2. AuthInv
  BY AuthAssumption DEF Init, AuthInit, AuthInv, AuthTypeOK, ThreadsInPlace, CachedWereValid,
     OvertakenLater, OldInHand, ClearedStaysOut
<1>3. PlanInv
  BY DEF Init, PlanInit, PlanInv, PlanTypeOK, PlansInPlace, PlanCacheAgrees, StoresAgree, OldToStore
<1> QED
  BY <1>1, <1>2, <1>3, ControlIsBoth

-----------------------------------------------------------------------------
(* Changes of the tables.                                                  *)

\* What each statement leaves alone.
LEMMA TenantStatement ==
  ASSUME TablesTypeOK, NEW t \in Tenants, NEW status \in TenantStatuses, UpdateStatus(t, status)
  PROVE  /\ TablesTypeOK' /\ limit' = limit
         /\ \A k \in Keys : TenantOf[k] # t => Row(k)' = Row(k)
BY TablesAssumption DEF TablesTypeOK, UpdateStatus, Row

LEMMA KeyStatement ==
  ASSUME TablesTypeOK, NEW j \in Keys, Revoke(j)
  PROVE  /\ TablesTypeOK' /\ limit' = limit
         /\ \A k \in Keys : k # j => Row(k)' = Row(k)
BY TablesAssumption DEF TablesTypeOK, Revoke, Row, KeyStatuses

LEMMA PlanStatement ==
  ASSUME TablesTypeOK, NEW p \in Plans, NEW l \in Limits, SetPlan(p, l)
  PROVE  /\ TablesTypeOK'
         /\ \A k \in Keys : PlanOf[k] # p => Row(k)' = Row(k)
         /\ \A q \in Plans : q # p => limit'[q] = limit[q]
BY TablesAssumption DEF TablesTypeOK, SetPlan, Row

\* The cache is told of no change, and OvertakenLater knows when it was.
LEMMA RowsChangeStep ==
  ASSUME AuthInv, NEW keys \in SUBSET Keys, RowsChange(keys),
         \A k \in Keys \ keys : Row(k)' = Row(k)
  PROVE  AuthInv'
<1> USE DEF AuthInv
<1>1. /\ changed' = [k \in Keys |-> IF k \in keys /\ cache[k] # None THEN now ELSE changed[k]]
      /\ cleared' = cleared \ keys
      /\ raced' = (raced \ keys) \cup {k \in keys : OldInHand(k)'}
      /\ UNCHANGED <<now, cache, at, key, own>>
  BY DEF RowsChange, threadVars
<1>2. AuthTypeOK'
  BY <1>1 DEF AuthTypeOK
<1>3. ThreadsInPlace'
  BY <1>1 DEF ThreadsInPlace
<1>4. CachedWereValid'
  BY <1>1 DEF CachedWereValid
<1>5. OvertakenLater'
  <2>1. ASSUME NEW k \in Keys, k \notin raced', cache'[k] # None, cache'[k].row # Row(k)'
        PROVE  cache'[k].at <= changed'[k]
    <3>1. CASE k \in keys
      BY <1>1, <2>1, <3>1 DEF CachedWereValid
    <3>2. CASE k \notin keys
      BY <1>1, <2>1, <3>2 DEF OvertakenLater
    <3> QED
      BY <3>1, <3>2
  <2>2. ASSUME NEW k \in Keys, k \notin raced'
        PROVE  ~OldInHand(k)'
    <3>1. CASE k \in keys
      BY <1>1, <2>2, <3>1
    <3>2. CASE k \notin keys
      <4>1. ~OldInHand(k) /\ Row(k)' = Row(k)
        BY <1>1, <2>2, <3>2 DEF OvertakenLater
      <4> QED
        BY <1>1, <4>1 DEF OldInHand
    <3> QED
      BY <3>1, <3>2
  <2> QED
    BY <2>1, <2>2 DEF OvertakenLater
<1>6. ClearedStaysOut'
  BY <1>1 DEF ClearedStaysOut, AuthTypeOK
<1> QED
  BY <1>2, <1>3, <1>4, <1>5, <1>6

-----------------------------------------------------------------------------
(* Steps of the authentication, which leave the tables alone.              *)

LEMMA SameRows ==
  ASSUME UNCHANGED tableVars
  PROVE  \A k : Row(k)' = Row(k)
BY DEF tableVars, Row

\* A goroutine that leaves the cache alone.
LEMMA ThreadStep ==
  ASSUME AuthInv, NEW a \in Threads,
         NEW l \in {"idle", "remove", "query", "check", "put", "granted"},
         NEW k \in Keys \cup {NoKey}, NEW x \in AuthContext \cup {None},
         Goto(a, l), key' = [key EXCEPT ![a] = k], own' = [own EXCEPT ![a] = x],
         l # "idle" => k \in Keys,
         l \in {"check", "put", "granted"} => x # None,
         l \in {"put", "granted"} =>
           x.at <= now /\ x.row.tenant = "active" /\ x.row.key = "active",
         l \in {"check", "put"} => x.row = Row(k) \/ OldInHand(k),
         UNCHANGED <<now, tableVars, changed, cacheVars>>
  PROVE  AuthInv'
<1> USE DEF AuthInv
<1>1. /\ at' = [at EXCEPT ![a] = l]
      /\ UNCHANGED <<now, changed, cache, cleared, raced>>
  BY DEF Goto, cacheVars
<1>2. AuthTypeOK'
  BY <1>1 DEF AuthTypeOK
<1>3. ThreadsInPlace'
  BY <1>1 DEF ThreadsInPlace, AuthTypeOK
<1>4. CachedWereValid'
  BY <1>1 DEF CachedWereValid, AuthTypeOK
<1>5. \A j \in Keys : OldInHand(j)' => OldInHand(j)
  <2> SUFFICES ASSUME NEW j \in Keys, NEW b \in Threads, at'[b] \in {"check", "put"},
                      key'[b] = j, own'[b].row # Row(j)'
               PROVE  OldInHand(j)
    BY DEF OldInHand
  <2>1. Row(j)' = Row(j)
    BY SameRows
  <2>2. CASE b = a
    BY <1>1, <2>1, <2>2 DEF AuthTypeOK
  <2>3. CASE b # a
    BY <1>1, <2>1, <2>3 DEF AuthTypeOK, OldInHand
  <2> QED
    BY <2>2, <2>3
<1>6. OvertakenLater' /\ ClearedStaysOut'
  BY <1>1, <1>5, SameRows DEF OvertakenLater, ClearedStaysOut
<1> QED
  BY <1>2, <1>3, <1>4, <1>6

\* No thread takes a row up.
LEMMA HandsKept ==
  ASSUME UNCHANGED <<tableVars, key, own>>,
         \A b \in Threads : at'[b] \in {"check", "put"} => at'[b] = at[b]
  PROVE  \A k \in Keys : OldInHand(k)' => OldInHand(k)
BY SameRows DEF OldInHand

\* Entries are removed, and some goroutines move on.
LEMMA RemoveStep ==
  ASSUME AuthInv, NEW gone \in SUBSET Keys,
         cache' = [k \in Keys |-> IF k \in gone THEN None ELSE cache[k]],
         raced' \subseteq Keys,
         \A k \in raced : k \in raced' \/ (k \in gone /\ ~OldInHand(k)),
         cleared' \subseteq cleared \cup gone,
         \/ UNCHANGED at
         \/ \E a \in Threads : at[a] # "idle" /\ Goto(a, "query"),
         UNCHANGED <<now, tableVars, changed, key, own>>
  PROVE  AuthInv'
<1> USE DEF AuthInv
<1>1. cleared' \subseteq Keys /\ raced' \subseteq Keys
  BY DEF AuthTypeOK
<1>2. AuthTypeOK'
  BY <1>1 DEF AuthTypeOK, Goto
<1>3. \A b \in Threads : at'[b] = at[b] \/ (at'[b] = "query" /\ at[b] # "idle")
  BY DEF Goto, AuthTypeOK
<1>4. ThreadsInPlace'
  BY <1>3 DEF ThreadsInPlace
<1>5. CachedWereValid'
  BY <1>3 DEF CachedWereValid, AuthTypeOK
<1>6. \A k \in Keys : OldInHand(k)' => OldInHand(k)
  BY <1>3, HandsKept
<1>7. OvertakenLater'
  BY <1>6, SameRows DEF OvertakenLater, AuthTypeOK
<1>8. ClearedStaysOut'
  BY SameRows DEF ClearedStaysOut, AuthTypeOK
<1> QED
  BY <1>2, <1>4, <1>5, <1>7, <1>8

LEMMA PutStep ==
  ASSUME AuthInv, NEW a \in Threads, Put(a)
  PROVE  AuthInv'
<1> USE DEF AuthInv
<1>1. /\ at[a] = "put" /\ key[a] \in Keys
      /\ own[a] \in AuthContext /\ own[a] # None
      /\ own[a].at <= now /\ own[a].row.tenant = "active" /\ own[a].row.key = "active"
  BY DEF Put, ThreadsInPlace, CachedWereValid, AuthTypeOK
<1>2. /\ cache' = [cache EXCEPT ![key[a]] = own[a]]
      /\ at' = [at EXCEPT ![a] = "granted"]
      /\ UNCHANGED <<now, changed, cleared, raced, key, own>>
  BY DEF Put, Goto
<1>3. \A k \in Keys : Row(k)' = Row(k)
  BY SameRows DEF Put
<1>4. AuthTypeOK'
  BY <1>1, <1>2 DEF AuthTypeOK
<1>5. ThreadsInPlace'
  BY <1>1, <1>2 DEF ThreadsInPlace, AuthTypeOK
<1>6. CachedWereValid'
  <2>1. \A k \in Keys : cache'[k] = IF k = key[a] THEN own[a] ELSE cache[k]
    BY <1>1, <1>2 DEF AuthTypeOK
  <2>2. \A b \in Threads : at'[b] = IF b = a THEN "granted" ELSE at[b]
    BY <1>2 DEF AuthTypeOK
  <2> QED
    BY <1>1, <1>2, <2>1, <2>2 DEF CachedWereValid
<1>7. OvertakenLater' /\ ClearedStaysOut'
  <2>1. key[a] \notin raced => own[a].row = Row(key[a])
    BY <1>1 DEF OvertakenLater, OldInHand
  <2>2. \A k \in Keys \ raced' :
          \/ k = key[a] /\ cache'[k].row = Row(k)'
          \/ k # key[a] /\ cache'[k] = cache[k]
    BY <1>1, <1>2, <1>3, <2>1 DEF AuthTypeOK
  <2>3. \A b \in Threads : at'[b] \in {"check", "put"} => at'[b] = at[b]
    BY <1>2 DEF AuthTypeOK
  <2>4. \A k \in Keys : OldInHand(k)' => OldInHand(k)
    BY <1>2, <2>3, HandsKept DEF Put
  <2>5. cleared \subseteq Keys
    BY DEF AuthTypeOK
  <2> QED
    BY <1>2, <1>3, <2>2, <2>4, <2>5 DEF OvertakenLater, ClearedStaysOut
<1> QED
  BY <1>4, <1>5, <1>6, <1>7

LEMMA TickStep ==
  ASSUME AuthInv, Tick
  PROVE  AuthInv'
<1> USE DEF AuthInv
<1>1. /\ now' = now + 1 /\ now \in Nat /\ now + 1 \in 0 .. MaxTime
      /\ UNCHANGED <<changed, cache, cleared, raced, at, key, own>>
  BY AuthAssumption DEF Tick, AuthTypeOK, cacheVars, threadVars
<1>2. AuthTypeOK' /\ ThreadsInPlace'
  BY <1>1 DEF AuthTypeOK, ThreadsInPlace
<1>3. CachedWereValid'
  <2>1. \A k \in Keys : cache[k] # None => cache[k].at \in Nat
    BY NoneIsNoContext, AuthAssumption DEF AuthTypeOK
  <2>2. \A a \in Threads : own[a] # None => own[a].at \in Nat
    BY NoneIsNoContext, AuthAssumption DEF AuthTypeOK
  <2> QED
    BY <1>1, <2>1, <2>2 DEF CachedWereValid
<1>4. OvertakenLater' /\ ClearedStaysOut'
  <2>1. \A k \in Keys : OldInHand(k)' => OldInHand(k)
    BY <1>1, HandsKept DEF Tick
  <2> QED
    BY <1>1, <2>1, SameRows DEF OvertakenLater, ClearedStaysOut, Tick
<1> QED
  BY <1>2, <1>3, <1>4

\* One step per line of Authenticate.
LEMMA AuthenticateSteps ==
  ASSUME TablesTypeOK, AuthInv, NEW a \in Threads,
         \/ \E k \in Keys : Authenticate(a, k)
         \/ RemoveInvalid(a) \/ Query(a) \/ QueryFails(a)
         \/ Refuse(a) \/ Check(a) \/ Put(a) \/ Granted(a)
  PROVE  AuthInv'
<1> USE DEF AuthInv
<1>a. /\ at[a] # "idle" => key[a] \in Keys
      /\ key[a] \in Keys \cup {NoKey}
      /\ own[a] \in AuthContext \cup {None}
  BY DEF AuthTypeOK, ThreadsInPlace
<1>1. ASSUME NEW k \in Keys, Authenticate(a, k) PROVE AuthInv'
  <2>1. /\ key' = [key EXCEPT ![a] = k]
        /\ UNCHANGED <<now, tableVars, changed, cacheVars>>
    BY <1>1 DEF Authenticate
  <2>2. CASE Goto(a, "query") /\ UNCHANGED own
    <3>1. own' = [own EXCEPT ![a] = own[a]]
      BY <2>2 DEF AuthTypeOK
    <3> QED
      BY <1>a, <2>1, <2>2, <3>1, ThreadStep
  <2>3. CASE Goto(a, "remove") /\ UNCHANGED own
    <3>1. own' = [own EXCEPT ![a] = own[a]]
      BY <2>3 DEF AuthTypeOK
    <3> QED
      BY <1>a, <2>1, <2>3, <3>1, ThreadStep
  <2>4. CASE Fresh(k) /\ Goto(a, "granted") /\ own' = [own EXCEPT ![a] = cache[k]]
    <3>1. /\ cache[k] \in AuthContext /\ cache[k] # None /\ cache[k].at <= now
          /\ cache[k].row.tenant = "active" /\ cache[k].row.key = "active"
      BY <2>4 DEF Fresh, AuthTypeOK, CachedWereValid
    <3> QED
      BY <2>1, <2>4, <3>1, ThreadStep
  <2> QED
    BY <1>1, <2>2, <2>3, <2>4 DEF Authenticate
<1>2. CASE RemoveInvalid(a)
  <2>1. key[a] \in Keys
    BY <1>2, <1>a DEF RemoveInvalid
  <2>2. cache' = [k \in Keys |-> IF k \in {key[a]} THEN None ELSE cache[k]]
    BY <1>2, <2>1 DEF RemoveInvalid, AuthTypeOK
  <2>3. raced' \subseteq Keys /\ \A k \in raced : k \in raced'
    BY <1>2 DEF RemoveInvalid, AuthTypeOK
  <2>4. /\ at[a] # "idle" /\ Goto(a, "query") /\ cleared' = cleared
        /\ UNCHANGED <<now, tableVars, changed, key, own>>
    BY <1>2 DEF RemoveInvalid
  <2> QED
    BY <2>1, <2>2, <2>3, <2>4, RemoveStep
<1>3. CASE Query(a)
  <2> DEFINE x == [cached |-> TRUE, row |-> Row(key[a]), at |-> 0]
  <2>1. key[a] \in Keys /\ key' = [key EXCEPT ![a] = key[a]]
    BY <1>3, <1>a DEF Query, AuthTypeOK
  <2>2. x \in AuthContext /\ x # None
    <3>1. Row(key[a]) \in Rows /\ 0 \in 0 .. MaxTime
      BY <2>1, RowType, AuthAssumption
    <3>2. x \in AuthContext
      BY <3>1 DEF AuthContext
    <3> QED
      BY <3>2, NoneIsNoContext
  <2>3. Goto(a, "check") /\ own' = [own EXCEPT ![a] = x]
        /\ UNCHANGED <<now, tableVars, changed, cacheVars>>
    BY <1>3 DEF Query
  <2>4. x.row = Row(key[a])
    OBVIOUS
  <2> HIDE DEF x
  <2> QED
    BY <2>1, <2>2, <2>3, <2>4, ThreadStep
<1>4. CASE QueryFails(a) \/ Refuse(a) \/ Granted(a)
  <2>1. Return(a)
    BY <1>4 DEF QueryFails, Refuse, Granted
  <2> QED
    BY <2>1, ThreadStep DEF Return
<1>5. CASE Check(a)
  <2> DEFINE x == [own[a] EXCEPT !.at = now]
  <2>1. key[a] \in Keys /\ key' = [key EXCEPT ![a] = key[a]]
    BY <1>5, <1>a DEF Check, AuthTypeOK
  <2>2. own[a] \in AuthContext
    BY <1>5, <1>a DEF Check, ThreadsInPlace
  <2>3. x \in AuthContext /\ x # None /\ x.at = now /\ x.row = own[a].row
    <3>1. x \in AuthContext /\ x.at = now /\ x.row = own[a].row
      BY <2>2 DEF AuthContext, AuthTypeOK
    <3> QED
      BY <3>1, NoneIsNoContext
  <2>4. x.row.tenant = "active" /\ x.row.key = "active"
    BY <1>5, <2>3 DEF Check, IsValid
  <2>5. Goto(a, "put") /\ own' = [own EXCEPT ![a] = x]
        /\ UNCHANGED <<now, tableVars, changed, cacheVars>>
    BY <1>5 DEF Check
  <2>6. now <= now
    BY AuthAssumption DEF AuthTypeOK
  <2>7. x.row = Row(key[a]) \/ OldInHand(key[a])
    BY <1>5, <2>3 DEF Check, OldInHand
  <2> HIDE DEF x
  <2> QED
    BY <2>1, <2>3, <2>4, <2>5, <2>6, <2>7, ThreadStep
<1>6. CASE Put(a)
  BY <1>6, PutStep
<1> QED
  BY <1>1, <1>2, <1>3, <1>4, <1>5, <1>6

LEMMA CacheSteps ==
  ASSUME AuthInv, CleanupCache \/ \E k \in Keys : InvalidateCache(k)
  PROVE  AuthInv'
<1> USE DEF AuthInv
<1>1. CASE CleanupCache
  <2>1. Old \subseteq Keys
    BY DEF Old
  <2> QED
    BY <1>1, <2>1, RemoveStep DEF CleanupCache, threadVars, AuthTypeOK
<1>2. ASSUME NEW k \in Keys, InvalidateCache(k) PROVE AuthInv'
  <2>1. cache' = [j \in Keys |-> IF j \in {k} THEN None ELSE cache[j]]
    BY <1>2 DEF InvalidateCache, AuthTypeOK
  <2>2. raced' \subseteq Keys /\ \A j \in raced : j \in raced' \/ (j \in {k} /\ ~OldInHand(j))
    BY <1>2 DEF InvalidateCache, AuthTypeOK
  <2>3. cleared' = cleared \cup {k} /\ UNCHANGED <<now, tableVars, changed, at, key, own>>
    BY <1>2 DEF InvalidateCache, threadVars
  <2> HIDE DEF AuthInv
  <2> QED
    BY <2>1, <2>2, <2>3, RemoveStep
<1> QED
  BY <1>1, <1>2

-----------------------------------------------------------------------------
(* Steps of the plan service.                                              *)

\* Where a goroutine is and what it has in hand, whatever it does.
LEMMA PlanThreads ==
  ASSUME PlanInv, NEW g \in Threads,
         NEW l \in {"idle", "query", "store", "delete"},
         NEW p \in Plans \cup {NoPlan}, NEW r \in Limits \cup {NoLimit},
         At(g, l), plan' = [plan EXCEPT ![g] = p], read' = [read EXCEPT ![g] = r],
         l # "idle" => p \in Plans,
         l = "store" => r \in Limits
  PROVE  /\ planAt' \in [Threads -> {"idle", "query", "store", "delete"}]
         /\ plan' \in [Threads -> Plans \cup {NoPlan}]
         /\ read' \in [Threads -> Limits \cup {NoLimit}]
         /\ PlansInPlace'
BY DEF PlanInv, PlanTypeOK, PlansInPlace, At

\* Goroutines go on, entries are stored, and no row changes.
LEMMA AgreesKept ==
  ASSUME PlanInv, UNCHANGED <<limit, missed, overtaken>>,
         \A h \in Threads : planAt[h] = "delete" => planAt'[h] = "delete" /\ plan'[h] = plan[h],
         \A q \in Plans : plans'[q] \in {plans[q], limit[q]} \/ OldToStore(q),
         \A q \in Plans : OldToStore(q)' => OldToStore(q)
  PROVE  PlanCacheAgrees' /\ StoresAgree'
<1> USE DEF PlanInv
<1>1. PlanCacheAgrees'
  BY DEF PlanCacheAgrees, StoresAgree
<1>2. StoresAgree'
  BY DEF StoresAgree
<1> QED
  BY <1>1, <1>2

\* Nothing new to store.
LEMMA StoresKept ==
  ASSUME UNCHANGED limit,
         \A h \in Threads : planAt'[h] = "store" =>
           planAt[h] = "store" /\ plan'[h] = plan[h] /\ read'[h] = read[h]
  PROVE  \A q \in Plans : OldToStore(q)' => OldToStore(q)
BY DEF OldToStore

\* Entries are deleted, and with them the exceptions for their plans.
LEMMA EmptiedStep ==
  ASSUME PlanInv, NEW ps \in SUBSET Plans, Emptied(ps),
         \A h \in Threads : planAt[h] = "delete" /\ plan[h] \notin ps =>
           planAt'[h] = "delete" /\ plan'[h] = plan[h],
         \A h \in Threads : planAt'[h] = "store" =>
           planAt[h] = "store" /\ plan'[h] = plan[h] /\ read'[h] = read[h]
  PROVE  PlanCacheAgrees' /\ StoresAgree'
<1> USE DEF PlanInv
<1>1. /\ plans' = [p \in Plans |-> IF p \in ps THEN NoLimit ELSE plans[p]]
      /\ missed' = missed \ ps
      /\ overtaken' = (overtaken \ ps) \cup {p \in ps : OldToStore(p)}
      /\ limit' = limit
  BY DEF Emptied, tableVars
<1>2. \A q \in Plans : OldToStore(q)' => OldToStore(q)
  BY <1>1, StoresKept
<1>3. ASSUME NEW q \in Plans, q \notin overtaken', q \notin missed'
      PROVE  /\ plans'[q] \in {NoLimit, limit'[q]} \/ \E h \in Threads : planAt'[h] = "delete" /\ plan'[h] = q
             /\ OldToStore(q)' => \E h \in Threads : planAt'[h] = "delete" /\ plan'[h] = q
  <2>1. CASE q \in ps
    BY <1>1, <1>2, <1>3, <2>1
  <2>2. CASE q \notin ps
    <3>1. q \notin overtaken /\ q \notin missed /\ plans'[q] = plans[q]
      BY <1>1, <1>3, <2>2
    <3>2. plans[q] \in {NoLimit, limit[q]} \/ \E h \in Threads : planAt'[h] = "delete" /\ plan'[h] = q
      BY <2>2, <3>1 DEF PlanCacheAgrees
    <3>3. OldToStore(q) => \E h \in Threads : planAt'[h] = "delete" /\ plan'[h] = q
      BY <2>2, <3>1 DEF StoresAgree
    <3> QED
      BY <1>1, <1>2, <3>1, <3>2, <3>3
  <2> QED
    BY <2>1, <2>2
<1> QED
  BY <1>3 DEF PlanCacheAgrees, StoresAgree

\* The statement of an update: whoever changes a row goes on to delete, or has
\* missed the entry.
LEMMA UpdatePlanStep ==
  ASSUME TablesTypeOK, PlanInv, NEW g \in Threads, NEW p \in Plans, NEW l \in Limits,
         UpdatePlan(g, p, l) \/ UpdatePlanFails(g, p, l)
  PROVE  PlanInv'
<1> USE DEF PlanInv
<1>1. /\ planAt[g] = "idle" /\ plans' = plans /\ overtaken' = overtaken
      /\ \A q \in Plans : q # p => limit'[q] = limit[q]
  BY PlanStatement DEF UpdatePlan, UpdatePlanFails
<1>2. ASSUME PlanTypeOK', PlansInPlace', missed \subseteq missed',
             p \in missed' \/ \E h \in Threads : planAt'[h] = "delete" /\ plan'[h] = p,
             \A h \in Threads : h # g => planAt'[h] = planAt[h] /\ plan'[h] = plan[h] /\ read'[h] = read[h],
             planAt'[g] # "store"
      PROVE  PlanInv'
  <2>1. \A h \in Threads : planAt[h] = "delete" => planAt'[h] = "delete" /\ plan'[h] = plan[h]
    BY <1>1, <1>2
  <2>2. \A q \in Plans : q # p /\ OldToStore(q)' => OldToStore(q)
    BY <1>1, <1>2 DEF OldToStore
  <2>3. PlanCacheAgrees'
    BY <1>1, <1>2, <2>1 DEF PlanCacheAgrees
  <2>4. StoresAgree'
    BY <1>1, <1>2, <2>1, <2>2 DEF StoresAgree
  <2> QED
    BY <1>2, <2>3, <2>4
<1>3. CASE UpdatePlan(g, p, l)
  <2>1. /\ At(g, "delete") /\ plan' = [plan EXCEPT ![g] = p]
        /\ read' = [read EXCEPT ![g] = read[g]] /\ missed' = missed
    BY <1>3 DEF UpdatePlan, PlanTypeOK
  <2>2. read[g] \in Limits \cup {NoLimit}
    BY DEF PlanTypeOK
  <2>3. PlanTypeOK' /\ PlansInPlace'
    BY <1>1, <2>1, <2>2, PlanThreads DEF PlanTypeOK
  <2>4. planAt'[g] = "delete" /\ plan'[g] = p
    BY <2>1 DEF At, PlanTypeOK
  <2>5. \A h \in Threads : h # g => planAt'[h] = planAt[h] /\ plan'[h] = plan[h] /\ read'[h] = read[h]
    BY <2>1 DEF At, PlanTypeOK
  <2> QED
    BY <1>2, <2>1, <2>3, <2>4, <2>5
<1>4. CASE UpdatePlanFails(g, p, l)
  <2>1. missed' = missed \cup {p} /\ UNCHANGED <<planAt, plan, read>>
    BY <1>4 DEF UpdatePlanFails
  <2>2. PlanTypeOK' /\ PlansInPlace'
    BY <1>1, <2>1 DEF PlanTypeOK, PlansInPlace
  <2> QED
    BY <1>1, <1>2, <2>1, <2>2
<1> QED
  BY <1>3, <1>4

LEMMA PlanSteps ==
  ASSUME TablesTypeOK, PlanInv, UNCHANGED tableVars,
         \/ \E g \in Threads :
              \/ \E p \in Plans : GetByID(g, p)
              \/ QueryPlan(g) \/ QueryPlanFails(g) \/ Store(g) \/ DeleteEntry(g)
         \/ ClearCache
  PROVE  PlanInv'
<1> USE DEF PlanInv
<1>t. limit' = limit
  BY DEF tableVars
<1>1. ASSUME NEW g \in Threads, NEW p \in Plans, GetByID(g, p) PROVE PlanInv'
  <2>1. read[g] \in Limits \cup {NoLimit} /\ read' = [read EXCEPT ![g] = read[g]]
    BY <1>1 DEF GetByID, PlanTypeOK
  <2>2. PlanTypeOK' /\ PlansInPlace'
    BY <1>1, <2>1, PlanThreads DEF GetByID, PlanTypeOK
  <2>3. \A h \in Threads : planAt[h] = "delete" => planAt'[h] = "delete" /\ plan'[h] = plan[h]
    BY <1>1 DEF GetByID, At, PlanTypeOK
  <2>4. \A q \in Plans : OldToStore(q)' => OldToStore(q)
    BY <1>1, <1>t, StoresKept DEF GetByID, At, PlanTypeOK
  <2> QED
    BY <1>1, <1>t, <2>2, <2>3, <2>4, AgreesKept DEF GetByID
<1>2. ASSUME NEW g \in Threads, QueryPlan(g) PROVE PlanInv'
  <2>1. plan[g] \in Plans /\ limit[plan[g]] \in Limits /\ plan' = [plan EXCEPT ![g] = plan[g]]
    BY <1>2 DEF QueryPlan, PlansInPlace, PlanTypeOK, TablesTypeOK
  <2>2. PlanTypeOK' /\ PlansInPlace'
    BY <1>2, <2>1, PlanThreads DEF QueryPlan, PlanTypeOK
  <2>3. \A h \in Threads : planAt[h] = "delete" => planAt'[h] = "delete" /\ plan'[h] = plan[h]
    BY <1>2 DEF QueryPlan, At, PlanTypeOK
  <2>4. \A q \in Plans : OldToStore(q)' => OldToStore(q)
    BY <1>2, <1>t DEF QueryPlan, At, PlanTypeOK, OldToStore
  <2> QED
    BY <1>2, <1>t, <2>2, <2>3, <2>4, AgreesKept DEF QueryPlan
<1>3. ASSUME NEW g \in Threads, Store(g) \/ QueryPlanFails(g) PROVE PlanInv'
  <2>1. /\ planAt[g] \in {"store", "query"} /\ Over(g) /\ UNCHANGED <<missed, overtaken>>
        /\ plans' \in [Plans -> Limits \cup {NoLimit}]
    BY <1>3 DEF Store, QueryPlanFails, PlansInPlace, PlanTypeOK
  <2>2. PlanTypeOK' /\ PlansInPlace'
    BY <2>1, PlanThreads DEF Over, PlanTypeOK
  <2>3. \A h \in Threads : planAt[h] = "delete" => planAt'[h] = "delete" /\ plan'[h] = plan[h]
    BY <2>1 DEF Over, At, PlanTypeOK
  <2>4. \A q \in Plans : OldToStore(q)' => OldToStore(q)
    BY <1>t, <2>1, StoresKept DEF Over, At, PlanTypeOK
  <2>5. \A q \in Plans : plans'[q] \in {plans[q], limit[q]} \/ OldToStore(q)
    BY <1>3 DEF Store, QueryPlanFails, PlanTypeOK, OldToStore
  <2> QED
    BY <1>t, <2>1, <2>2, <2>3, <2>4, <2>5, AgreesKept
<1>4. ASSUME NEW g \in Threads, DeleteEntry(g) PROVE PlanInv'
  <2>1. plan[g] \in Plans /\ Emptied({plan[g]}) /\ Over(g)
    BY <1>4 DEF DeleteEntry, PlansInPlace
  <2>2. PlanTypeOK' /\ PlansInPlace'
    BY <2>1, PlanThreads DEF Emptied, Over, PlanTypeOK
  <2>3. planAt'[g] = "idle"
    BY <2>1 DEF Over, At, PlanTypeOK
  <2>4. \A h \in Threads : h # g => planAt'[h] = planAt[h] /\ plan'[h] = plan[h] /\ read'[h] = read[h]
    BY <2>1 DEF Over, At, PlanTypeOK
  <2>5. PlanCacheAgrees' /\ StoresAgree'
    BY <2>1, <2>3, <2>4, EmptiedStep
  <2> QED
    BY <2>2, <2>5
<1>5. CASE ClearCache
  <2>1. Emptied(Plans) /\ UNCHANGED <<planAt, plan, read>>
    BY <1>5 DEF ClearCache
  <2>2. PlanTypeOK' /\ PlansInPlace'
    BY <2>1 DEF Emptied, PlanTypeOK, PlansInPlace
  <2>3. PlanCacheAgrees' /\ StoresAgree'
    BY <2>1, EmptiedStep
  <2> QED
    BY <2>2, <2>3
<1> QED
  BY <1>1, <1>2, <1>3, <1>4, <1>5

\* The plan service depends on the limits alone.
LEMMA PlanUntouched ==
  ASSUME PlanInv, UNCHANGED planVars, limit' = limit
  PROVE  PlanInv'
BY DEF PlanInv, PlanTypeOK, PlansInPlace, PlanCacheAgrees, StoresAgree, OldToStore, planVars

LEMMA AuthUntouched ==
  ASSUME AuthInv, UNCHANGED authVars
  PROVE  AuthInv'
<1>1. UNCHANGED <<now, cache, cleared, raced, at, key, own, changed, tableVars>>
  BY DEF authVars, cacheVars, threadVars
<1> QED
  BY <1>1, SameRows DEF AuthInv, AuthTypeOK, ThreadsInPlace, CachedWereValid, OvertakenLater,
     OldInHand, ClearedStaysOut

-----------------------------------------------------------------------------
(* All steps.                                                              *)

LEMMA AuthStepInv ==
  ASSUME ControlInv, AuthStep
  PROVE  ControlInv'
<1>0. TablesTypeOK /\ AuthInv /\ PlanInv /\ UNCHANGED planVars
  BY ControlIsBoth DEF AuthStep
<1>1. ASSUME NEW t \in Tenants, NEW status \in TenantStatuses, TenantUpdate(t, status)
      PROVE  ControlInv'
  <2>1. /\ TablesTypeOK' /\ limit' = limit
        /\ \A k \in Keys : TenantOf[k] # t => Row(k)' = Row(k)
    BY <1>0, <1>1, TenantStatement DEF TenantUpdate
  <2>2. AuthInv'
    BY <1>0, <1>1, <2>1, RowsChangeStep DEF TenantUpdate
  <2> QED
    BY <1>0, <2>1, <2>2, PlanUntouched, ControlIsBothNext
<1>2. ASSUME NEW j \in Keys, KeyRevoked(j)
      PROVE  ControlInv'
  <2>1. /\ TablesTypeOK' /\ limit' = limit
        /\ \A k \in Keys : k # j => Row(k)' = Row(k)
    BY <1>0, <1>2, KeyStatement DEF KeyRevoked
  <2>2. AuthInv'
    BY <1>0, <1>2, <2>1, RowsChangeStep DEF KeyRevoked
  <2> QED
    BY <1>0, <2>1, <2>2, PlanUntouched, ControlIsBothNext
<1>3. ASSUME UNCHANGED tableVars, AuthInv' PROVE ControlInv'
  <2>1. TablesTypeOK' /\ limit' = limit
    BY <1>0, <1>3 DEF TablesTypeOK, tableVars
  <2> QED
    BY <1>0, <1>3, <2>1, PlanUntouched, ControlIsBothNext
<1>4. ASSUME NEW g \in Threads,
             \/ \E k \in Keys : Authenticate(g, k)
             \/ RemoveInvalid(g) \/ Query(g) \/ QueryFails(g)
             \/ Refuse(g) \/ Check(g) \/ Put(g) \/ Granted(g)
      PROVE  ControlInv'
  <2>1. UNCHANGED tableVars
    BY <1>4 DEF Authenticate, RemoveInvalid, Query, QueryFails, Refuse, Check, Put, Granted, Return
  <2>2. AuthInv'
    BY <1>0, <1>4, AuthenticateSteps
  <2> QED
    BY <1>3, <2>1, <2>2
<1>5. ASSUME CleanupCache \/ \E k \in Keys : InvalidateCache(k)
      PROVE  ControlInv'
  <2>1. UNCHANGED tableVars
    BY <1>5 DEF CleanupCache, InvalidateCache
  <2>2. AuthInv'
    BY <1>0, <1>5, CacheSteps
  <2> QED
    BY <1>3, <2>1, <2>2
<1>6. CASE Tick
  BY <1>0, <1>3, <1>6, TickStep DEF Tick
<1> QED
  BY <1>1, <1>2, <1>4, <1>5, <1>6 DEF AuthStep

LEMMA PlanChangesInv ==
  ASSUME ControlInv, PlanChanges
  PROVE  ControlInv'
<1>0. TablesTypeOK /\ AuthInv /\ PlanInv
  BY ControlIsBoth
<1>1. PICK g \in Threads, p \in Plans, l \in Limits :
        /\ UpdatePlan(g, p, l) \/ UpdatePlanFails(g, p, l)
        /\ RowsChange({k \in Keys : PlanOf[k] = p})
  BY DEF PlanChanges
<1>2. TablesTypeOK' /\ \A k \in Keys : PlanOf[k] # p => Row(k)' = Row(k)
  BY <1>0, <1>1, PlanStatement DEF UpdatePlan, UpdatePlanFails
<1>3. AuthInv'
  BY <1>0, <1>1, <1>2, RowsChangeStep
<1>4. PlanInv'
  BY <1>0, <1>1, UpdatePlanStep
<1> QED
  BY <1>2, <1>3, <1>4, ControlIsBothNext

LEMMA PlanStepInv ==
  ASSUME ControlInv, PlanStep
  PROVE  ControlInv'
<1>0. TablesTypeOK /\ AuthInv /\ PlanInv
  BY ControlIsBoth
<1>1. UNCHANGED authVars /\ UNCHANGED tableVars /\ TablesTypeOK'
  BY <1>0 DEF PlanStep, authVars, tableVars, TablesTypeOK
<1>2. PlanInv'
  BY <1>0, <1>1, PlanSteps DEF PlanStep
<1> QED
  BY <1>0, <1>1, <1>2, AuthUntouched, ControlIsBothNext

LEMMA ControlStep == ControlInv /\ [Next]_vars => ControlInv'
<1> SUFFICES ASSUME ControlInv, [Next]_vars PROVE ControlInv'
  OBVIOUS
<1>1. CASE UNCHANGED vars
  <2>1. UNCHANGED authVars /\ UNCHANGED planVars /\ UNCHANGED tableVars /\ limit' = limit
    BY <1>1 DEF vars, authVars, tableVars
  <2>2. TablesTypeOK'
    BY <2>1, ControlIsBoth DEF TablesTypeOK, tableVars
  <2> QED
    BY <2>1, <2>2, AuthUntouched, PlanUntouched, ControlIsBoth, ControlIsBothNext
<1> QED
  BY <1>1, AuthStepInv, PlanChangesInv, PlanStepInv DEF Next

\* The caches hold what was valid when it was read, a cleared key does not come
\* back with its old row and a cached plan is the current one, but for the races
\* of a query with a change and for failed updates (auth.go:68-130,
\* plan.go:50-205).
THEOREM ControlInvariant == Spec => []ControlInv
BY ControlInit, ControlStep, PTL DEF Spec

\* An invalidation while no request has the old row in hand is final.
THEOREM ControlClearedStaysOut == Spec => []ClearedStaysOut
<1>1. ControlInv => ClearedStaysOut
  BY DEF ControlInv
<1> QED
  BY <1>1, ControlInvariant, PTL

\* What a successful update leaves in the plan cache stays right, whatever
\* queries and stores follow, unless one of them or a failed update was under
\* way (plan.go:50-205).
THEOREM ControlPlanCacheAgrees == Spec => []PlanCacheAgrees
<1>1. ControlInv => PlanCacheAgrees
  BY DEF ControlInv
<1> QED
  BY <1>1, ControlInvariant, PTL

\* Whoever the cache lets in has a key that is not expired, and a row that the
\* database still has or has changed no longer than cacheTTL ago.
THEOREM ControlStaleAtMostTTL == Spec => StaleAtMostTTL
<1> DEFINE Bounded(a) ==
      LET k == key'[a]
      IN  /\ now <= ExpiresAt[k]
          /\ own'[a].row # Row(k) /\ k \notin raced => now <= changed[k] + TTL
<1>1. ASSUME ControlInv, [Next]_vars, NEW a \in Threads, FromCache(a)
      PROVE  Bounded(a)
  <2>0. AuthInv /\ at[a] = "idle" /\ at'[a] = "granted"
    BY <1>1, ControlIsBoth DEF FromCache
  <2>1. PICK k \in Keys : Authenticate(a, k)
    BY <1>1, <2>0 DEF Next, AuthStep, PlanChanges, PlanStep, vars, authVars, threadVars, AuthInv,
       AuthTypeOK, TenantUpdate, KeyRevoked, RowsChange, InvalidateCache, CleanupCache, Tick,
       Authenticate, RemoveInvalid, Query, QueryFails, Refuse, Check, Put, Granted, Return, Goto
  <2>2. /\ Fresh(k) /\ IsValid(k, cache[k].row)
        /\ key'[a] = k /\ own'[a] = cache[k]
    BY <2>0, <2>1 DEF Authenticate, Goto, AuthInv, AuthTypeOK
  <2>3. /\ cache[k] \in AuthContext /\ cache[k].at \in Nat /\ now \in Nat
        /\ changed[k] \in Nat /\ ExpiresAt[k] \in Nat
    BY <2>0, <2>2, NoneIsNoContext, AuthAssumption, TablesAssumption
       DEF Fresh, AuthInv, AuthTypeOK
  <2>4. now <= ExpiresAt[k]
    BY <2>2, <2>3 DEF IsValid
  <2>5. now <= cache[k].at + TTL
    BY <2>2, <2>3, AuthAssumption DEF Fresh
  <2>6. cache[k].row # Row(k) /\ k \notin raced => cache[k].at <= changed[k]
    BY <2>0, <2>2 DEF AuthInv, OvertakenLater, Fresh
  <2> QED
    BY <2>2, <2>3, <2>4, <2>5, <2>6, AuthAssumption
<1>2. ControlInv /\ [Next]_vars => [\A a \in Threads : FromCache(a) => Bounded(a)]_authVars
  BY <1>1
<1>3. Spec => [][\A a \in Threads : FromCache(a) => Bounded(a)]_authVars
  BY <1>2, ControlInvariant, PTL DEF Spec
<1> QED
  BY <1>3 DEF StaleAtMostTTL

-----------------------------------------------------------------------------
(* Usage metering.                                                         *)

\* Written, lost, in the map, in the batch and in the hands of Flush.
Total(f, w, l, m, b, h) == Merge(f, Merge(f, w, l), Merge(f, m, Merge(f, b, h)))

Waiting(k, f) == Total(f, written[k][f], lost[k][f], InMap(k, f), InBatch(k, f), InHand(k, f))

LEMMA ConservedTotal == Conserved <=> \A k \in BufferKeys, f \in Fields : recorded[k][f] = Waiting(k, f)
BY DEF Conserved, Waiting, Total

LEMMA ConservedTotalNext ==
  (\A k \in BufferKeys, f \in Fields : recorded'[k][f] = Waiting(k, f)') => Conserved'
BY DEF Conserved, Waiting, Total

LEMMA MergeFacts ==
  ASSUME NEW f, NEW a \in Nat, NEW b \in Nat
  PROVE  /\ Merge(f, a, b) \in Nat
         /\ Merge(f, a, 0) = a /\ Merge(f, 0, b) = b
BY DEF Merge, Larger

\* An amount added anywhere is added to the total.
LEMMA TotalAdds ==
  ASSUME NEW f, NEW w \in Nat, NEW l \in Nat, NEW m \in Nat, NEW b \in Nat, NEW h \in Nat, NEW n \in Nat
  PROVE  /\ Total(f, w, Merge(f, l, n), m, b, h) = Merge(f, Total(f, w, l, m, b, h), n)
         /\ Total(f, w, l, Merge(f, m, n), b, h) = Merge(f, Total(f, w, l, m, b, h), n)
         /\ Total(f, w, l, m, Merge(f, b, n), h) = Merge(f, Total(f, w, l, m, b, h), n)
<1>1. CASE f = "peak"
  BY <1>1 DEF Total, Merge, Larger
<1>2. CASE f # "peak"
  BY <1>2 DEF Total, Merge
<1> QED
  BY <1>1, <1>2

\* An amount moved is not lost: from the map to the batch, from the batch to the
\* hand, and from the hand to the row and to what is lost.
LEMMA TotalToBatch ==
  ASSUME NEW f, NEW w \in Nat, NEW l \in Nat, NEW m \in Nat
  PROVE  Total(f, w, l, 0, m, 0) = Total(f, w, l, m, 0, 0)
BY DEF Total, Merge, Larger

LEMMA TotalToHand ==
  ASSUME NEW f, NEW w \in Nat, NEW l \in Nat, NEW m \in Nat, NEW h \in Nat
  PROVE  Total(f, w, l, m, 0, h) = Total(f, w, l, m, h, 0)
BY DEF Total, Merge, Larger

LEMMA TotalToRow ==
  ASSUME NEW f, NEW w \in Nat, NEW l \in Nat, NEW m \in Nat, NEW g \in Nat, NEW u \in Nat
  PROVE  Total(f, Merge(f, w, g), Merge(f, l, u), m, 0, 0) = Total(f, w, l, m, 0, Merge(f, g, u))
<1>1. CASE f = "peak"
  BY <1>1 DEF Total, Merge, Larger
<1>2. CASE f # "peak"
  BY <1>2 DEF Total, Merge
<1> QED
  BY <1>1, <1>2

\* The fields in the order of Flush: each is there once.
LEMMA FlushOrderFacts ==
  /\ Len(FlushOrder) = 4 /\ DOMAIN FlushOrder = 1 .. 4
  /\ \A i \in 1 .. 4 : FlushOrder[i] \in Fields
  /\ \A f \in Fields : \E i \in 1 .. 4 : FlushOrder[i] = f
  /\ \A i, j \in 1 .. 4 : FlushOrder[i] = FlushOrder[j] => i = j
BY DEF FlushOrder, Fields

LEMMA AmountTypes ==
  ASSUME UsageTypeOK, NEW k \in BufferKeys, NEW f \in Fields
  PROVE  /\ InMap(k, f) \in Nat /\ InBatch(k, f) \in Nat /\ InHand(k, f) \in Nat
         /\ written[k][f] \in Nat /\ lost[k][f] \in Nat /\ recorded[k][f] \in Nat
<1>1. /\ buffer[k] # NoBuffer => value[buffer[k]][f] \in Nat
      /\ batch[k] # NoBuffer => value[batch[k]][f] \in Nat
      /\ hand[f] \in Nat
  BY DEF UsageTypeOK
<1>2. written[k][f] \in Nat /\ lost[k][f] \in Nat /\ recorded[k][f] \in Nat
  BY DEF UsageTypeOK, Totals
<1> QED
  BY <1>1, <1>2 DEF InMap, InBatch, InHand

-----------------------------------------------------------------------------
LEMMA UsageInvInit == UsageInit => UsageInv
<1> SUFFICES ASSUME UsageInit PROVE UsageInv
  OBVIOUS
<1> USE UsageAssumption
<1>1. Zero \in [Fields -> Nat] /\ \A f \in Fields : Zero[f] = 0
  BY DEF Zero
<1>2. /\ written = [k \in BufferKeys |-> Zero] /\ lost = [k \in BufferKeys |-> Zero]
      /\ recorded = [k \in BufferKeys |-> Zero]
  BY DEF UsageInit
<1>3. UsageTypeOK
  <2>1. /\ buffer \in [BufferKeys -> Buffers \cup {NoBuffer}] /\ batch \in [BufferKeys -> Buffers \cup {NoBuffer}]
        /\ value \in [Buffers -> [Fields -> Nat]] /\ hand \in [Fields -> Nat]
        /\ target \in BufferKeys \cup {NoBufferKey}
        /\ loop \in {"wait", "each", "swap", "upsert", "ended"}
        /\ stopped \in BOOLEAN /\ last \in BOOLEAN /\ average \subseteq BufferKeys
    BY <1>1 DEF UsageInit
  <2>6. next \in 1 .. Len(FlushOrder) + 1
    BY FlushOrderFacts DEF UsageInit
  <2>2. /\ calls \in 0 .. MaxCalls /\ call \in [Recorders -> 0 .. calls]
        /\ level \in [Recorders -> 0 .. MaxStreams] /\ loaded \in [Recorders -> Nat]
    BY DEF UsageInit
  <2>3. /\ pc \in [Recorders -> {"idle", "create", "add", "load", "cas"}]
        /\ bufferKey \in [Recorders -> BufferKeys \cup {NoBufferKey}] /\ buf \in [Recorders -> Buffers \cup {NoBuffer}]
        /\ overlapped \subseteq Recorders
    BY DEF UsageInit
  <2>4. todo \in [Recorders -> {<<>>, <<"requests">>, <<"peak">>,
                                <<"latencySum", "latencyCount">>, <<"latencyCount">>}]
    BY DEF UsageInit
  <2>5. written \in Totals /\ lost \in Totals /\ recorded \in Totals
    BY <1>1, <1>2 DEF Totals
  <2> QED
    BY <2>1, <2>2, <2>3, <2>4, <2>5, <2>6 DEF UsageTypeOK
<1>4. OneKeyPerBuffer
  BY DEF UsageInit, OneKeyPerBuffer, Buffers, NoBuffer
<1>5. CallsInPlace
  BY DEF UsageInit, CallsInPlace
<1>6. FlushInPlace
  BY <1>1, FlushOrderFacts DEF UsageInit, FlushInPlace
<1>7. LateOnlyAcrossFlush
  BY DEF UsageInit, LateOnlyAcrossFlush
<1>8. Conserved
  <2> SUFFICES ASSUME NEW k \in BufferKeys, NEW f \in Fields PROVE recorded[k][f] = Waiting(k, f)
    BY ConservedTotal
  <2>1. InMap(k, f) = 0 /\ InBatch(k, f) = 0 /\ InHand(k, f) = 0
    BY <1>1 DEF UsageInit, InMap, InBatch, InHand
  <2>2. recorded[k][f] = 0 /\ written[k][f] = 0 /\ lost[k][f] = 0
    BY <1>1, <1>2
  <2>3. Merge(f, 0, 0) = 0
    BY MergeFacts
  <2> QED
    BY <2>1, <2>2, <2>3 DEF Waiting, Total
<1> QED
  BY <1>3, <1>4, <1>5, <1>6, <1>7, <1>8 DEF UsageInv

-----------------------------------------------------------------------------
(* Steps of a recorder.                                                    *)

\* What a recorder can have to do.
Work == {<<"requests">>, <<"peak">>, <<"latencySum", "latencyCount">>}

LEMMA WorkFacts ==
  /\ \A w \in Work : w # <<>> /\ Entry(w) \in {"add", "load"} /\ (Entry(w) = "load" <=> w = <<"peak">>)
  /\ Len(<<"requests">>) = 1 /\ Len(<<"peak">>) = 1 /\ Len(<<"latencyCount">>) = 1
  /\ Len(<<"latencySum", "latencyCount">>) = 2
  /\ Tail(<<"latencySum", "latencyCount">>) = <<"latencyCount">>
  /\ <<"latencyCount">> # <<>> /\ <<"latencyCount">> # <<"peak">>
BY DEF Work, Entry

LEMMA LookupStep ==
  ASSUME UsageInv, NEW r \in Recorders, NEW k \in BufferKeys, NEW w \in Work, NEW s \in 0 .. MaxStreams,
         Lookup(r, k, w, s)
  PROVE  UsageInv'
<1> USE DEF UsageInv
<1>1. /\ pc[r] = "idle" /\ calls \in Nat /\ calls + 1 \in Buffers /\ calls' = calls + 1
      /\ call' = [call EXCEPT ![r] = calls + 1] /\ bufferKey' = [bufferKey EXCEPT ![r] = k]
      /\ todo' = [todo EXCEPT ![r] = w] /\ level' = [level EXCEPT ![r] = s]
      /\ buf' = [buf EXCEPT ![r] = buffer[k]]
      /\ pc' = [pc EXCEPT ![r] = IF buffer[k] = NoBuffer THEN "create" ELSE Entry(w)]
      /\ overlapped' = overlapped \ {r}
      /\ UNCHANGED <<buffer, value, loaded, loop, batch, target, next, hand, last, stopped,
                     average, written, lost, recorded>>
  BY UsageAssumption DEF Lookup, UsageTypeOK, Buffers, bufferVars, flushVars, rowVars
<1>2. buffer[k] \in Buffers \cup {NoBuffer} /\ pc'[r] \in {"create", "add", "load"}
  BY <1>1, WorkFacts DEF UsageTypeOK
<1>3. UsageTypeOK'
  <2>1. w \in {<<>>, <<"requests">>, <<"peak">>, <<"latencySum", "latencyCount">>, <<"latencyCount">>}
    BY DEF Work
  <2>2. calls' \in 0 .. MaxCalls /\ call' \in [Recorders -> 0 .. calls']
    BY <1>1, UsageAssumption DEF UsageTypeOK, Buffers
  <2>3. /\ pc' \in [Recorders -> {"idle", "create", "add", "load", "cas"}]
        /\ bufferKey' \in [Recorders -> BufferKeys \cup {NoBufferKey}]
        /\ buf' \in [Recorders -> Buffers \cup {NoBuffer}]
        /\ level' \in [Recorders -> 0 .. MaxStreams]
    BY <1>1, <1>2 DEF UsageTypeOK
  <2>4. todo' \in [Recorders -> {<<>>, <<"requests">>, <<"peak">>,
                                 <<"latencySum", "latencyCount">>, <<"latencyCount">>}]
    BY <1>1, <2>1 DEF UsageTypeOK
  <2> QED
    BY <1>1, <2>2, <2>3, <2>4 DEF UsageTypeOK
<1>4. OneKeyPerBuffer'
  <2>1. \A q \in Recorders : /\ q # r => pc'[q] = pc[q] /\ call'[q] = call[q] /\ buf'[q] = buf[q]
                             /\ call'[r] = calls + 1 /\ buf'[r] = buffer[k]
    BY <1>1 DEF UsageTypeOK
  <2>2. ASSUME NEW n \in Buffers, n > calls' \/ \E q \in Recorders : pc'[q] = "create" /\ call'[q] = n
        PROVE  n > calls \/ \E q \in Recorders : pc[q] = "create" /\ call[q] = n
    BY <1>1, <2>1, <2>2 DEF Buffers
  <2> QED
    BY <1>1, <2>1, <2>2 DEF OneKeyPerBuffer
<1>5. CallsInPlace'
  <2>1. \A q \in Recorders : q # r => pc'[q] = pc[q] /\ call'[q] = call[q] /\ buf'[q] = buf[q]
                               /\ todo'[q] = todo[q] /\ bufferKey'[q] = bufferKey[q] /\ level'[q] = level[q]
    BY <1>1 DEF UsageTypeOK
  <2>2. /\ call'[r] = calls + 1 /\ buf'[r] = buffer[k] /\ todo'[r] = w /\ bufferKey'[r] = k
        /\ pc'[r] = IF buffer[k] = NoBuffer THEN "create" ELSE Entry(w)
    BY <1>1 DEF UsageTypeOK
  <2>3. \A q \in Recorders : call[q] \in Nat /\ call[q] <= calls
    BY <1>1 DEF UsageTypeOK
  <2>4. \A p, q \in Recorders : call'[p] = call'[q] /\ call'[p] # 0 => p = q
    BY <1>1, <2>1, <2>2, <2>3 DEF CallsInPlace
  <2>5. \A j \in BufferKeys : buffer[k] # NoBuffer /\ buffer[k] \in {buffer[j], batch[j]} => j = k
    BY DEF OneKeyPerBuffer
  <2>6. w # <<>> /\ Entry(w) \in {"add", "load"} /\ (Entry(w) = "load" <=> w = <<"peak">>)
    BY WorkFacts
  <2>7. ASSUME NEW q \in Recorders, q # r
        PROVE  /\ pc'[q] = "idle" <=> todo'[q] = <<>>
               /\ pc'[q] = "idle" => call'[q] = 0 /\ buf'[q] = NoBuffer
               /\ pc'[q] # "idle" => call'[q] # 0 /\ bufferKey'[q] \in BufferKeys
               /\ pc'[q] = "create" => buf'[q] = NoBuffer
               /\ pc'[q] \in {"load", "cas"} => todo'[q] = <<"peak">>
               /\ pc'[q] = "add" => todo'[q] # <<"peak">>
               /\ pc'[q] \in {"add", "load", "cas"} =>
                    /\ buf'[q] # NoBuffer
                    /\ \A j \in BufferKeys : buf'[q] \in {buffer[j], batch[j]} => j = bufferKey'[q]
               /\ pc'[q] = "cas" => loaded[q] < level'[q]
    BY <2>1, <2>7 DEF CallsInPlace
  <2>8. /\ pc'[r] # "idle" /\ todo'[r] # <<>> /\ call'[r] # 0 /\ bufferKey'[r] \in BufferKeys
        /\ pc'[r] # "cas"
    BY <1>1, <2>2, <2>6
  <2>9. /\ pc'[r] = "create" => buf'[r] = NoBuffer
        /\ pc'[r] = "load" => todo'[r] = <<"peak">>
        /\ pc'[r] = "add" => todo'[r] # <<"peak">>
    BY <2>2, <2>6
  <2>10. pc'[r] \in {"add", "load"} =>
           /\ buf'[r] # NoBuffer
           /\ \A j \in BufferKeys : buf'[r] \in {buffer[j], batch[j]} => j = bufferKey'[r]
    BY <2>2, <2>5
  <2> QED
    BY <1>1, <2>4, <2>7, <2>8, <2>9, <2>10 DEF CallsInPlace
<1>6. FlushInPlace'
  BY <1>1 DEF FlushInPlace
<1>7. LateOnlyAcrossFlush'
  BY <1>1 DEF LateOnlyAcrossFlush, UsageTypeOK
<1>8. Conserved'
  BY <1>1 DEF Conserved, InMap, InBatch, InHand, Taken
<1> QED
  BY <1>3, <1>4, <1>5, <1>6, <1>7, <1>8

LEMMA CreateStep ==
  ASSUME UsageInv, NEW r \in Recorders, Create(r)
  PROVE  UsageInv'
<1> USE DEF UsageInv
<1> DEFINE k == bufferKey[r]
           b == IF buffer[k] # NoBuffer THEN buffer[k] ELSE call[r]
<1>1. /\ pc[r] = "create" /\ k \in BufferKeys /\ call[r] # 0 /\ call[r] \in Buffers /\ call[r] <= calls
      /\ todo[r] # <<>> /\ todo[r] \in Work \cup {<<"latencyCount">>}
      /\ calls \in Nat
  BY UsageAssumption DEF Create, CallsInPlace, UsageTypeOK, Buffers, Work
<1>2. /\ buffer' = [buffer EXCEPT ![k] = b] /\ buf' = [buf EXCEPT ![r] = b]
      /\ pc' = [pc EXCEPT ![r] = Entry(todo[r])] /\ overlapped' = overlapped \ {r}
      /\ UNCHANGED <<value, calls, call, bufferKey, todo, level, loaded, loop, batch, target, next, hand,
                     last, stopped, average, written, lost, recorded>>
  BY <1>1 DEF Create, UsageTypeOK, flushVars, rowVars
<1>3. /\ b \in Buffers /\ b # NoBuffer
      /\ Entry(todo[r]) \in {"add", "load"} /\ (Entry(todo[r]) = "load" <=> todo[r] = <<"peak">>)
  BY <1>1, WorkFacts DEF UsageTypeOK, NoBuffer, Entry
<1>4. /\ \A j \in BufferKeys : buffer'[j] = IF j = k THEN b ELSE buffer[j]
      /\ \A q \in Recorders : q # r => pc'[q] = pc[q] /\ buf'[q] = buf[q]
      /\ pc'[r] = Entry(todo[r]) /\ buf'[r] = b
  BY <1>1, <1>2 DEF UsageTypeOK
<1>6. UsageTypeOK'
  BY <1>1, <1>2, <1>3 DEF UsageTypeOK
<1>7. buffer[k] = NoBuffer =>
        /\ b = call[r] /\ value[b] = Zero
        /\ \A j \in BufferKeys : buffer[j] # b /\ batch[j] # b
        /\ \A q \in Recorders : buf[q] # b
  BY <1>1 DEF OneKeyPerBuffer
<1>8. \A j \in BufferKeys : b \in {buffer'[j], batch[j]} => j = k
  BY <1>1, <1>3, <1>4, <1>7 DEF OneKeyPerBuffer
<1>9. batch[k] # b
  BY <1>1, <1>3, <1>7 DEF OneKeyPerBuffer
<1>10. OneKeyPerBuffer'
  <2>1. \A i, j \in BufferKeys :
          /\ buffer'[i] = buffer'[j] /\ buffer'[i] # NoBuffer => i = j
          /\ batch[i] = batch[j] /\ batch[i] # NoBuffer => i = j
          /\ buffer'[i] = batch[j] => buffer'[i] = NoBuffer
    BY <1>4, <1>8, <1>9 DEF OneKeyPerBuffer
  <2>2. ASSUME NEW n \in Buffers, n > calls \/ \E q \in Recorders : pc'[q] = "create" /\ call[q] = n
        PROVE  /\ value[n] = Zero
               /\ \A j \in BufferKeys : buffer'[j] # n /\ batch[j] # n
               /\ \A q \in Recorders : buf'[q] # n
    <3>1. n > calls \/ \E q \in Recorders : q # r /\ pc[q] = "create" /\ call[q] = n
      BY <1>3, <1>4, <2>2
    <3>2. /\ value[n] = Zero
          /\ \A j \in BufferKeys : buffer[j] # n /\ batch[j] # n
          /\ \A q \in Recorders : buf[q] # n
      BY <3>1 DEF OneKeyPerBuffer
    <3>3. n # call[r]
      BY <1>1, <3>1 DEF CallsInPlace, Buffers
    <3>4. n # b
      BY <1>1, <3>2, <3>3
    <3> QED
      BY <1>4, <3>2, <3>4
  <2> QED
    BY <1>2, <2>1, <2>2 DEF OneKeyPerBuffer
<1>11. CallsInPlace'
  <2>1. ASSUME NEW q \in Recorders, q # r, pc[q] \in {"add", "load", "cas"}, NEW j \in BufferKeys,
               buf[q] \in {buffer'[j], batch[j]}
        PROVE  j = bufferKey[q]
    <3>1. CASE j = k /\ buffer[k] = NoBuffer
      <4>1. buf[q] # b
        BY <1>7, <3>1
      <4> QED
        BY <1>4, <2>1, <3>1, <4>1 DEF CallsInPlace
    <3>2. CASE ~(j = k /\ buffer[k] = NoBuffer)
      <4>1. buffer'[j] = buffer[j]
        BY <1>4, <3>2
      <4> QED
        BY <2>1, <4>1 DEF CallsInPlace
    <3> QED
      BY <3>1, <3>2
  <2>2. \A j \in BufferKeys : buf'[r] \in {buffer'[j], batch[j]} => j = bufferKey[r]
    BY <1>4, <1>8
  <2> QED
    BY <1>1, <1>2, <1>3, <1>4, <2>1, <2>2 DEF CallsInPlace
<1>12. FlushInPlace'
  BY <1>2 DEF FlushInPlace
<1>13. LateOnlyAcrossFlush'
  <2>1. ASSUME NEW q \in Recorders, q # r, pc[q] \in {"add", "load", "cas"}, buf[q] = buffer[bufferKey[q]]
        PROVE  buf[q] = buffer'[bufferKey[q]]
    <3>1. buf[q] # NoBuffer /\ bufferKey[q] \in BufferKeys
      BY <2>1 DEF CallsInPlace
    <3> QED
      BY <1>4, <2>1, <3>1
  <2>2. buf'[r] = buffer'[bufferKey[r]]
    BY <1>1, <1>4
  <2> QED
    BY <1>2, <1>4, <2>1, <2>2 DEF LateOnlyAcrossFlush
<1>14. Conserved'
  <2> SUFFICES ASSUME NEW j \in BufferKeys, NEW f \in Fields PROVE recorded'[j][f] = Waiting(j, f)'
    BY ConservedTotalNext
  <2>1. InMap(j, f)' = InMap(j, f)
    <3>1. Zero[f] = 0
      BY DEF Zero
    <3> QED
      BY <1>2, <1>3, <1>4, <1>7, <3>1 DEF InMap
  <2>2. InBatch(j, f)' = InBatch(j, f)
    <3>1. batch[j] # NoBuffer => batch[j] # buffer[j] /\ batch[j] # buffer'[j]
      BY <1>4, <1>9 DEF OneKeyPerBuffer
    <3> QED
      BY <1>2, <3>1 DEF InBatch, Taken
  <2>3. InHand(j, f)' = InHand(j, f)
    BY <1>2 DEF InHand
  <2> QED
    BY <1>2, <2>1, <2>2, <2>3, ConservedTotal DEF Waiting
<1> QED
  BY <1>6, <1>10, <1>11, <1>12, <1>13, <1>14

\* A field is done: the call is over, or it goes on to count its latency.
LEMMA FieldDoneEffect ==
  ASSUME UsageInv, NEW r \in Recorders, pc[r] \in {"add", "load", "cas"}, FieldDone(r)
  PROVE  \/ /\ pc' = [pc EXCEPT ![r] = "idle"] /\ call' = [call EXCEPT ![r] = 0]
            /\ bufferKey' = [bufferKey EXCEPT ![r] = NoBufferKey] /\ todo' = [todo EXCEPT ![r] = <<>>]
            /\ buf' = [buf EXCEPT ![r] = NoBuffer] /\ level' = [level EXCEPT ![r] = 0]
            /\ loaded' = [loaded EXCEPT ![r] = 0] /\ overlapped' = overlapped \ {r}
         \/ /\ pc[r] = "add" /\ todo' = [todo EXCEPT ![r] = <<"latencyCount">>]
            /\ UNCHANGED <<pc, call, bufferKey, buf, level, loaded, overlapped>>
<1>1. /\ todo[r] \in Work \cup {<<"latencyCount">>}
      /\ pc[r] # "add" => todo[r] = <<"peak">>
  BY DEF UsageInv, UsageTypeOK, CallsInPlace, Work
<1>2. CASE todo[r] = <<"latencySum", "latencyCount">>
  <2>1. Len(todo[r]) # 1 /\ Tail(todo[r]) = <<"latencyCount">> /\ todo[r] # <<"peak">>
    BY <1>2, WorkFacts
  <2> QED
    BY <1>1, <2>1 DEF FieldDone, UsageInv, UsageTypeOK
<1>3. CASE todo[r] # <<"latencySum", "latencyCount">>
  <2>1. Len(todo[r]) = 1
    BY <1>1, <1>3, WorkFacts DEF Work
  <2> QED
    BY <2>1 DEF FieldDone
<1> QED
  BY <1>2, <1>3

LEMMA DoneStep ==
  ASSUME UsageInv, NEW r \in Recorders, pc[r] \in {"add", "load", "cas"}, FieldDone(r),
         UNCHANGED <<buffer, batch, calls>>
  PROVE  /\ pc' \in [Recorders -> {"idle", "create", "add", "load", "cas"}]
         /\ call' \in [Recorders -> 0 .. calls'] /\ bufferKey' \in [Recorders -> BufferKeys \cup {NoBufferKey}]
         /\ buf' \in [Recorders -> Buffers \cup {NoBuffer}]
         /\ todo' \in [Recorders -> {<<>>, <<"requests">>, <<"peak">>,
                                     <<"latencySum", "latencyCount">>, <<"latencyCount">>}]
         /\ level' \in [Recorders -> 0 .. MaxStreams] /\ loaded' \in [Recorders -> Nat]
         /\ overlapped' \subseteq Recorders
         /\ CallsInPlace' /\ LateOnlyAcrossFlush'
         /\ \A q \in Recorders :
              /\ buf'[q] \in {buf[q], NoBuffer}
              /\ pc'[q] = "create" => pc[q] = "create" /\ call'[q] = call[q]
<1> USE DEF UsageInv
<1>1. CASE /\ pc' = [pc EXCEPT ![r] = "idle"] /\ call' = [call EXCEPT ![r] = 0]
           /\ bufferKey' = [bufferKey EXCEPT ![r] = NoBufferKey] /\ todo' = [todo EXCEPT ![r] = <<>>]
           /\ buf' = [buf EXCEPT ![r] = NoBuffer] /\ level' = [level EXCEPT ![r] = 0]
           /\ loaded' = [loaded EXCEPT ![r] = 0] /\ overlapped' = overlapped \ {r}
  <2>1. /\ call' \in [Recorders -> 0 .. calls'] /\ level' \in [Recorders -> 0 .. MaxStreams]
        /\ pc' \in [Recorders -> {"idle", "create", "add", "load", "cas"}]
        /\ bufferKey' \in [Recorders -> BufferKeys \cup {NoBufferKey}]
        /\ buf' \in [Recorders -> Buffers \cup {NoBuffer}]
        /\ loaded' \in [Recorders -> Nat] /\ overlapped' \subseteq Recorders
    BY <1>1, UsageAssumption DEF UsageTypeOK
  <2>2. todo' \in [Recorders -> {<<>>, <<"requests">>, <<"peak">>,
                                 <<"latencySum", "latencyCount">>, <<"latencyCount">>}]
    BY <1>1 DEF UsageTypeOK
  <2>3. \A q \in Recorders : q # r =>
          /\ pc'[q] = pc[q] /\ call'[q] = call[q] /\ bufferKey'[q] = bufferKey[q] /\ todo'[q] = todo[q]
          /\ buf'[q] = buf[q] /\ level'[q] = level[q] /\ loaded'[q] = loaded[q]
    BY <1>1 DEF UsageTypeOK
  <2>4. pc'[r] = "idle" /\ call'[r] = 0 /\ todo'[r] = <<>> /\ buf'[r] = NoBuffer
    BY <1>1 DEF UsageTypeOK
  <2>5. CallsInPlace'
    BY <2>3, <2>4 DEF CallsInPlace
  <2>6. LateOnlyAcrossFlush'
    BY <1>1, <2>3, <2>4 DEF LateOnlyAcrossFlush
  <2> QED
    BY <2>1, <2>2, <2>3, <2>4, <2>5, <2>6
<1>2. CASE /\ pc[r] = "add" /\ todo' = [todo EXCEPT ![r] = <<"latencyCount">>]
           /\ UNCHANGED <<pc, call, bufferKey, buf, level, loaded, overlapped>>
  <2>1. todo' \in [Recorders -> {<<>>, <<"requests">>, <<"peak">>,
                                 <<"latencySum", "latencyCount">>, <<"latencyCount">>}]
    BY <1>2 DEF UsageTypeOK
  <2>2. todo'[r] = <<"latencyCount">> /\ \A q \in Recorders : q # r => todo'[q] = todo[q]
    BY <1>2 DEF UsageTypeOK
  <2>3. CallsInPlace'
    BY <1>2, <2>2, WorkFacts DEF CallsInPlace
  <2>4. LateOnlyAcrossFlush'
    BY <1>2 DEF LateOnlyAcrossFlush
  <2> QED
    BY <1>2, <2>1, <2>3, <2>4 DEF UsageTypeOK
<1> QED
  BY <1>1, <1>2, FieldDoneEffect

LEMMA ReportEffect ==
  ASSUME UsageInv, NEW r \in Recorders, bufferKey[r] \in BufferKeys, NEW f \in Fields, NEW n \in Nat,
         Report(r, f, n)
  PROVE  /\ recorded' \in Totals /\ lost' \in Totals
         /\ \A k \in BufferKeys, g \in Fields :
              /\ recorded'[k][g] = IF k = bufferKey[r] /\ g = f THEN Merge(g, recorded[k][g], n)
                                   ELSE recorded[k][g]
              /\ lost'[k][g] = IF k = bufferKey[r] /\ g = f /\ Taken(buf[r], k, f)
                               THEN Merge(g, lost[k][g], n) ELSE lost[k][g]
<1> DEFINE one == [g \in Fields |-> IF g = f THEN n ELSE 0]
<1>1. recorded \in Totals /\ lost \in Totals
  BY DEF UsageInv, UsageTypeOK
<1>2. ASSUME NEW t \in Totals
      PROVE  /\ Merged(t[bufferKey[r]], one) \in [Fields -> Nat]
             /\ \A g \in Fields : Merged(t[bufferKey[r]], one)[g] =
                  IF g = f THEN Merge(g, t[bufferKey[r]][g], n) ELSE t[bufferKey[r]][g]
  <2>1. \A g \in Fields : t[bufferKey[r]][g] \in Nat /\ one[g] \in Nat
    BY DEF Totals
  <2> QED
    BY <2>1, MergeFacts DEF Merged
<1>3. /\ recorded' = [recorded EXCEPT ![bufferKey[r]] = Merged(recorded[bufferKey[r]], one)]
      /\ lost' = IF Taken(buf[r], bufferKey[r], f)
                 THEN [lost EXCEPT ![bufferKey[r]] = Merged(lost[bufferKey[r]], one)] ELSE lost
  BY DEF Report
<1> HIDE DEF one
<1>4. recorded' \in Totals /\ lost' \in Totals
  BY <1>1, <1>2, <1>3 DEF Totals
<1> QED
  BY <1>1, <1>2, <1>3, <1>4 DEF Totals

\* A recorder adds n to a field of its buffer.
LEMMA StoreStep ==
  ASSUME UsageInv, NEW r \in Recorders, pc[r] \in {"add", "cas"}, NEW f \in Fields, NEW n \in Nat,
         value' = [value EXCEPT ![buf[r]][f] = Merge(f, value[buf[r]][f], n)],
         Report(r, f, n), FieldDone(r),
         UNCHANGED <<buffer, calls, flushVars, stopped, rowVars>>
  PROVE  UsageInv'
<1> USE DEF UsageInv
<1> DEFINE b == buf[r]
           K == bufferKey[r]
<1>1. /\ b \in Buffers /\ b # NoBuffer /\ K \in BufferKeys
      /\ \A k \in BufferKeys : b \in {buffer[k], batch[k]} => k = K
  BY DEF CallsInPlace, UsageTypeOK
<1>2. UNCHANGED <<buffer, calls, loop, batch, target, next, hand, last, stopped, average, written>>
  BY DEF flushVars, rowVars
<1>3. value[b][f] \in Nat /\ Merge(f, value[b][f], n) \in Nat
  <2>1. value[b][f] \in Nat
    BY <1>1 DEF UsageTypeOK
  <2> QED
    BY <2>1, MergeFacts
<1>4. /\ value' \in [Buffers -> [Fields -> Nat]]
      /\ \A c \in Buffers, g \in Fields :
           value'[c][g] = IF c = b /\ g = f THEN Merge(f, value[b][f], n) ELSE value[c][g]
      /\ \A c \in Buffers : c # b => value'[c] = value[c]
  BY <1>1, <1>3 DEF UsageTypeOK
<1>5. /\ recorded' \in Totals /\ lost' \in Totals
      /\ \A k \in BufferKeys, g \in Fields :
           /\ recorded'[k][g] = IF k = K /\ g = f THEN Merge(g, recorded[k][g], n) ELSE recorded[k][g]
           /\ lost'[k][g] = IF k = K /\ g = f /\ Taken(b, k, f)
                            THEN Merge(g, lost[k][g], n) ELSE lost[k][g]
  BY <1>1, ReportEffect
<1>6. UsageTypeOK'
  BY <1>2, <1>4, <1>5, DoneStep DEF UsageTypeOK
<1>7. CallsInPlace' /\ LateOnlyAcrossFlush'
  BY <1>2, DoneStep
<1>8. FlushInPlace'
  BY <1>2 DEF FlushInPlace
<1>9. OneKeyPerBuffer'
  <2>1. \A q \in Recorders : /\ buf'[q] \in {buf[q], NoBuffer}
                             /\ pc'[q] = "create" => pc[q] = "create" /\ call'[q] = call[q]
    BY <1>2, DoneStep
  <2>2. \A c \in Buffers : c # NoBuffer
    BY DEF Buffers, NoBuffer
  <2> QED
    BY <1>1, <1>2, <1>4, <2>1, <2>2 DEF OneKeyPerBuffer
<1>10. Conserved'
  <2> SUFFICES ASSUME NEW k \in BufferKeys, NEW g \in Fields PROVE recorded'[k][g] = Waiting(k, g)'
    BY ConservedTotalNext
  <2>0. recorded[k][g] = Waiting(k, g)
    BY ConservedTotal
  <2>1. /\ buffer[k] # NoBuffer => buffer[k] \in Buffers
        /\ batch[k] # NoBuffer => batch[k] \in Buffers
        /\ batch[k] # NoBuffer => batch[k] # buffer[k]
    BY DEF UsageTypeOK, OneKeyPerBuffer
  <2>2. InHand(k, g)' = InHand(k, g) /\ written'[k][g] = written[k][g]
    BY <1>2 DEF InHand
  <2>3. \A c : Taken(c, k, g)' <=> Taken(c, k, g)
    BY <1>2 DEF Taken
  <2>4. CASE ~(k = K /\ g = f)
    <3>1. InMap(k, g)' = InMap(k, g)
      BY <1>1, <1>2, <1>4, <2>1, <2>4 DEF InMap
    <3>2. InBatch(k, g)' = InBatch(k, g)
      BY <1>1, <1>2, <1>4, <2>1, <2>3, <2>4 DEF InBatch
    <3>3. recorded'[k][g] = recorded[k][g] /\ lost'[k][g] = lost[k][g]
      BY <1>5, <2>4
    <3> QED
      BY <2>0, <2>2, <3>1, <3>2, <3>3 DEF Waiting
  <2>5. CASE k = K /\ g = f
    <3>0. /\ recorded'[k][g] = Merge(g, recorded[k][g], n)
          /\ lost'[k][g] = IF Taken(b, k, g) THEN Merge(g, lost[k][g], n) ELSE lost[k][g]
      BY <1>5, <2>5
    <3>1. CASE b = buffer[k]
      <4>1. ~Taken(b, k, g)
        BY <3>1 DEF Taken
      <4>2. InMap(k, g)' = Merge(g, InMap(k, g), n)
        BY <1>1, <1>2, <1>4, <2>5, <3>1 DEF InMap
      <4>3. InBatch(k, g)' = InBatch(k, g)
        BY <1>1, <1>2, <1>4, <2>1, <2>3, <3>1 DEF InBatch
      <4> QED
        BY <2>0, <2>2, <3>0, <4>1, <4>2, <4>3, AmountTypes, TotalAdds DEF Waiting
    <3>2. CASE b # buffer[k] /\ ~Taken(b, k, g)
      <4>1. b = batch[k]
        BY <3>2 DEF Taken
      <4>2. InMap(k, g)' = InMap(k, g)
        BY <1>1, <1>2, <1>4, <2>1, <3>2 DEF InMap
      <4>3. InBatch(k, g)' = Merge(g, InBatch(k, g), n)
        BY <1>1, <1>2, <1>4, <2>3, <2>5, <3>2, <4>1 DEF InBatch
      <4> QED
        BY <2>0, <2>2, <3>0, <3>2, <4>2, <4>3, AmountTypes, TotalAdds DEF Waiting
    <3>3. CASE Taken(b, k, g)
      <4>1. b # buffer[k]
        BY <3>3 DEF Taken
      <4>2. InMap(k, g)' = InMap(k, g)
        BY <1>1, <1>2, <1>4, <2>1, <4>1 DEF InMap
      <4>3. InBatch(k, g)' = InBatch(k, g)
        BY <1>1, <1>2, <1>4, <2>1, <2>3, <3>3 DEF InBatch
      <4> QED
        BY <2>0, <2>2, <3>0, <3>3, <4>2, <4>3, AmountTypes, TotalAdds DEF Waiting
    <3> QED
      BY <3>1, <3>2, <3>3
  <2> QED
    BY <2>4, <2>5
<1> QED
  BY <1>6, <1>7, <1>8, <1>9, <1>10

\* A recorder moves on and adds nothing.
LEMMA AmountsKept ==
  ASSUME UsageInv, UNCHANGED <<bufferVars, batch, target, next, hand, written, lost, recorded>>
  PROVE  Conserved'
BY DEF UsageInv, Conserved, InMap, InBatch, InHand, Taken, bufferVars

LEMMA AddStep ==
  ASSUME UsageInv, NEW r \in Recorders, Add(r)
  PROVE  UsageInv'
<1>1. /\ pc[r] = "add" /\ buf[r] \in Buffers
      /\ todo[r] \in {<<"requests">>, <<"latencySum", "latencyCount">>, <<"latencyCount">>}
  BY DEF Add, UsageInv, CallsInPlace, UsageTypeOK
<1>2. Head(todo[r]) \in Fields /\ Head(todo[r]) # "peak"
  BY <1>1 DEF Fields
<1>3. PICK f \in Fields : f = Head(todo[r])
  BY <1>2
<1>4. Merge(f, value[buf[r]][f], 1) = value[buf[r]][f] + 1
  BY <1>2, <1>3 DEF Merge
<1>5. /\ value' = [value EXCEPT ![buf[r]][f] = Merge(f, value[buf[r]][f], 1)]
      /\ Report(r, f, 1) /\ FieldDone(r)
      /\ UNCHANGED <<buffer, calls, flushVars, stopped, rowVars>>
  BY <1>3, <1>4 DEF Add
<1> QED
  BY <1>1, <1>5, StoreStep

\* The loop of UpdatePeakStreams: another round, or the compare-and-swap.
LEMMA RoundStep ==
  ASSUME UsageInv, NEW r \in Recorders, pc[r] \in {"load", "cas"},
         NEW l \in {"load", "cas"}, NEW p \in Nat,
         pc' = [pc EXCEPT ![r] = l], loaded' = [loaded EXCEPT ![r] = p],
         l = "cas" => p < level[r],
         UNCHANGED <<bufferVars, calls, call, bufferKey, todo, buf, level, flushVars, stopped, rowVars,
                     lost, recorded, overlapped>>
  PROVE  UsageInv'
<1> USE DEF UsageInv
<1>1. UNCHANGED <<buffer, value, calls, call, bufferKey, todo, buf, level, loop, batch, target, next,
                  hand, last, stopped, average, written, lost, recorded, overlapped>>
  BY DEF bufferVars, flushVars, rowVars
<1>2. UsageTypeOK'
  BY <1>1 DEF UsageTypeOK
<1>3. \A q \in Recorders :
        /\ q # r => pc'[q] = pc[q] /\ loaded'[q] = loaded[q]
        /\ pc'[r] = l /\ loaded'[r] = p
  BY DEF UsageTypeOK
<1>4. OneKeyPerBuffer'
  BY <1>1, <1>3 DEF OneKeyPerBuffer
<1>5. CallsInPlace'
  BY <1>1, <1>3 DEF CallsInPlace
<1>6. FlushInPlace'
  BY <1>1 DEF FlushInPlace
<1>7. LateOnlyAcrossFlush'
  BY <1>1, <1>3 DEF LateOnlyAcrossFlush
<1> QED
  BY <1>1, <1>2, <1>4, <1>5, <1>6, <1>7, AmountsKept DEF bufferVars

LEMMA LoadPeakStep ==
  ASSUME UsageInv, NEW r \in Recorders, LoadPeak(r)
  PROVE  UsageInv'
<1> USE DEF UsageInv
<1>1. /\ pc[r] = "load" /\ buf[r] \in Buffers /\ "peak" \in Fields
      /\ value[buf[r]]["peak"] \in Nat /\ level[r] \in Nat
  BY UsageAssumption DEF LoadPeak, CallsInPlace, UsageTypeOK, Fields
<1>2. CASE level[r] <= value[buf[r]]["peak"]
  <2>1. /\ FieldDone(r)
        /\ UNCHANGED <<buffer, value, calls, loop, batch, target, next, hand, last, stopped,
                       average, written, lost, recorded>>
    BY <1>2 DEF LoadPeak, bufferVars, flushVars, rowVars
  <2>2. UsageTypeOK'
    BY <1>1, <2>1, DoneStep DEF UsageTypeOK
  <2>3. CallsInPlace' /\ LateOnlyAcrossFlush'
    BY <1>1, <2>1, DoneStep
  <2>4. OneKeyPerBuffer'
    <3>1. \A q \in Recorders : /\ buf'[q] \in {buf[q], NoBuffer}
                               /\ pc'[q] = "create" => pc[q] = "create" /\ call'[q] = call[q]
      BY <1>1, <2>1, DoneStep
    <3>2. \A c \in Buffers : c # NoBuffer
      BY DEF Buffers, NoBuffer
    <3> QED
      BY <2>1, <3>1, <3>2 DEF OneKeyPerBuffer
  <2>5. FlushInPlace'
    BY <2>1 DEF FlushInPlace
  <2> QED
    BY <2>1, <2>2, <2>3, <2>4, <2>5, AmountsKept DEF bufferVars
<1>3. CASE ~(level[r] <= value[buf[r]]["peak"])
  BY <1>1, <1>3, RoundStep DEF LoadPeak
<1> QED
  BY <1>2, <1>3

LEMMA SwapPeakStep ==
  ASSUME UsageInv, NEW r \in Recorders, SwapPeak(r)
  PROVE  UsageInv'
<1>1. /\ pc[r] = "cas" /\ buf[r] \in Buffers /\ "peak" \in Fields
      /\ value[buf[r]]["peak"] \in Nat /\ level[r] \in Nat /\ loaded[r] < level[r]
  BY UsageAssumption DEF SwapPeak, UsageInv, CallsInPlace, UsageTypeOK, Fields
<1>2. CASE value[buf[r]]["peak"] = loaded[r]
  <2>1. Merge("peak", value[buf[r]]["peak"], level[r]) = level[r]
    BY <1>1, <1>2 DEF Merge, Larger
  <2>2. /\ value' = [value EXCEPT ![buf[r]]["peak"] = Merge("peak", value[buf[r]]["peak"], level[r])]
        /\ Report(r, "peak", level[r]) /\ FieldDone(r)
        /\ UNCHANGED <<buffer, calls, flushVars, stopped, rowVars>>
    BY <1>2, <2>1 DEF SwapPeak
  <2> QED
    BY <1>1, <2>2, StoreStep
<1>3. CASE value[buf[r]]["peak"] # loaded[r]
  BY <1>1, <1>3, RoundStep DEF SwapPeak, bufferVars
<1> QED
  BY <1>2, <1>3

\* Every step of a recorder is one of those above.
LEMMA RecorderStepKeeps ==
  ASSUME UsageInv, NEW r \in Recorders, RecorderStep(r)
  PROVE  UsageInv'
<1>1. CASE Create(r)
  BY <1>1, CreateStep
<1>2. CASE Add(r)
  BY <1>2, AddStep
<1>3. CASE LoadPeak(r)
  BY <1>3, LoadPeakStep
<1>4. CASE SwapPeak(r)
  BY <1>4, SwapPeakStep
<1>5. ASSUME NEW k \in BufferKeys, NEW w \in Work, NEW s \in 0 .. MaxStreams, Lookup(r, k, w, s)
      PROVE  UsageInv'
  BY <1>5, LookupStep
<1>6. CASE \E k \in BufferKeys : RecordRequest(r, k) \/ RecordLatency(r, k)
  <2>1. 0 \in 0 .. MaxStreams /\ {<<"requests">>, <<"latencySum", "latencyCount">>} \subseteq Work
    BY UsageAssumption DEF Work
  <2> QED
    BY <1>5, <1>6, <2>1 DEF RecordRequest, RecordLatency
<1>7. CASE \E k \in BufferKeys : \E n \in 1 .. MaxStreams : UpdatePeakStreams(r, k, n)
  <2>1. 1 .. MaxStreams \subseteq 0 .. MaxStreams /\ <<"peak">> \in Work
    BY UsageAssumption DEF Work
  <2> QED
    BY <1>5, <1>7, <2>1 DEF UpdatePeakStreams
<1> QED
  BY <1>1, <1>2, <1>3, <1>4, <1>6, <1>7 DEF RecorderStep

-----------------------------------------------------------------------------
(* Steps of flushLoop.                                                     *)

LEMMA TakeMapStep ==
  ASSUME UsageInv, NEW final \in BOOLEAN, TakeMap(final)
  PROVE  UsageInv'
<1> USE DEF UsageInv
<1>1. /\ loop = "wait" /\ batch' = buffer /\ buffer' = [k \in BufferKeys |-> NoBuffer]
      /\ loop' = IF \E k \in BufferKeys : buffer[k] # NoBuffer THEN "each"
                 ELSE IF final THEN "ended" ELSE "wait"
      /\ last' = final /\ overlapped' = overlapped \cup {r \in Recorders : Using(r)}
      /\ UNCHANGED <<value, calls, pc, call, bufferKey, todo, level, buf, loaded, target, next, hand,
                     stopped, average, written, lost, recorded>>
  BY DEF TakeMap, recorderVars, rowVars
<1>2. target = NoBufferKey /\ \A k \in BufferKeys : batch[k] = NoBuffer
  BY <1>1 DEF FlushInPlace
<1>3. UsageTypeOK'
  BY <1>1 DEF UsageTypeOK
<1>4. OneKeyPerBuffer'
  BY <1>1, <1>2 DEF OneKeyPerBuffer, UsageTypeOK, Buffers, NoBuffer
<1>5. CallsInPlace'
  BY <1>1, <1>2 DEF CallsInPlace
<1>6. FlushInPlace'
  BY <1>1, <1>2 DEF FlushInPlace
<1>7. LateOnlyAcrossFlush'
  BY <1>1 DEF LateOnlyAcrossFlush, Using
<1>8. Conserved'
  <2> SUFFICES ASSUME NEW k \in BufferKeys, NEW f \in Fields PROVE recorded'[k][f] = Waiting(k, f)'
    BY ConservedTotalNext
  <2>1. InBatch(k, f) = 0 /\ InMap(k, f)' = 0
    BY <1>1, <1>2 DEF InBatch, InMap
  <2>2. InBatch(k, f)' = InMap(k, f)
    <3>1. buffer[k] # NoBuffer => ~Taken(batch[k], k, f)'
      BY <1>1, <1>2, UsageAssumption DEF Taken
    <3> QED
      BY <1>1, <3>1 DEF InBatch, InMap
  <2>3. InHand(k, f) = 0 /\ InHand(k, f)' = 0
    BY <1>1, <1>2, UsageAssumption DEF InHand
  <2>4. /\ InMap(k, f) \in Nat /\ written[k][f] \in Nat /\ lost[k][f] \in Nat
    BY AmountTypes
  <2>5. Total(f, written[k][f], lost[k][f], 0, InMap(k, f), 0)
          = Total(f, written[k][f], lost[k][f], InMap(k, f), 0, 0)
    BY <2>4, TotalToBatch
  <2>6. recorded[k][f] = Waiting(k, f)
    BY ConservedTotal
  <2> QED
    BY <1>1, <2>1, <2>2, <2>3, <2>5, <2>6 DEF Waiting
<1> QED
  BY <1>3, <1>4, <1>5, <1>6, <1>7, <1>8

\* The recorders and the two maps are left alone.
LEMMA MapsKept ==
  ASSUME UsageInv, UNCHANGED <<buffer, calls, recorderVars, overlapped>>,
         \A k \in BufferKeys : batch'[k] \in {batch[k], NoBuffer},
         \A n \in Buffers : value[n] = Zero => value'[n] = Zero
  PROVE  OneKeyPerBuffer' /\ CallsInPlace' /\ LateOnlyAcrossFlush'
<1> USE DEF UsageInv, recorderVars
<1>1. OneKeyPerBuffer'
  BY DEF OneKeyPerBuffer, Buffers, NoBuffer
<1>2. CallsInPlace'
  BY DEF CallsInPlace
<1>3. LateOnlyAcrossFlush'
  BY DEF LateOnlyAcrossFlush
<1> QED
  BY <1>1, <1>2, <1>3

LEMMA NextBufferStep ==
  ASSUME UsageInv, NEW k \in BufferKeys, NextBuffer(k)
  PROVE  UsageInv'
<1> USE DEF UsageInv
<1>1. /\ loop = "each" /\ batch[k] # NoBuffer /\ loop' = "swap" /\ target' = k /\ next' = 1
      /\ hand' = Zero
      /\ UNCHANGED <<buffer, value, calls, recorderVars, batch, last, stopped, average, written,
                     lost, recorded, overlapped>>
  BY DEF NextBuffer, bufferVars, rowVars
<1>2. target = NoBufferKey /\ k # NoBufferKey
  BY <1>1, UsageAssumption DEF FlushInPlace
<1>3. Zero \in [Fields -> Nat] /\ \A f \in Fields : Zero[f] = 0
  BY DEF Zero
<1>4. UsageTypeOK'
  <2>1. next' \in 1 .. Len(FlushOrder) + 1
    BY <1>1, FlushOrderFacts
  <2> QED
    BY <1>1, <1>3, <2>1 DEF UsageTypeOK, recorderVars
<1>5. OneKeyPerBuffer' /\ CallsInPlace' /\ LateOnlyAcrossFlush'
  BY <1>1, MapsKept
<1>6. FlushInPlace'
  BY <1>1, <1>2, <1>3, FlushOrderFacts DEF FlushInPlace
<1>7. Conserved'
  <2> SUFFICES ASSUME NEW j \in BufferKeys, NEW f \in Fields PROVE recorded'[j][f] = Waiting(j, f)'
    BY ConservedTotalNext
  <2>1. InMap(j, f)' = InMap(j, f)
    BY <1>1 DEF InMap
  <2>2. InBatch(j, f)' = InBatch(j, f)
    <3>1. batch[j] # NoBuffer => ~Taken(batch[j], j, f) /\ ~Taken(batch[j], j, f)'
      BY <1>1, <1>2, UsageAssumption DEF Taken
    <3> QED
      BY <1>1, <3>1 DEF InBatch
  <2>3. InHand(j, f)' = InHand(j, f)
    BY <1>1, <1>2, <1>3, UsageAssumption DEF InHand
  <2> QED
    BY <1>1, <2>1, <2>2, <2>3, ConservedTotal DEF Waiting
<1> QED
  BY <1>4, <1>5, <1>6, <1>7

\* A field goes from the buffer to the hand.
LEMMA SwapFieldStep ==
  ASSUME UsageInv, SwapField
  PROVE  UsageInv'
<1> USE DEF UsageInv
<1> DEFINE f == FlushOrder[next]
           b == batch[target]
<1>1. /\ loop = "swap" /\ target \in BufferKeys /\ target # NoBufferKey /\ b \in Buffers /\ b # NoBuffer
      /\ next \in 1 .. 4 /\ f \in Fields /\ value[b][f] \in Nat
  <2>1. loop = "swap"
    BY DEF SwapField
  <2>2. target \in BufferKeys /\ target # NoBufferKey /\ b \in Buffers /\ b # NoBuffer
    BY <2>1, UsageAssumption DEF FlushInPlace, UsageTypeOK
  <2>3. next \in 1 .. 4
    BY <2>1, FlushOrderFacts DEF FlushInPlace, UsageTypeOK
  <2>4. f \in Fields
    BY <2>3, FlushOrderFacts
  <2> QED
    BY <2>1, <2>2, <2>3, <2>4 DEF UsageTypeOK
<1>2. /\ hand' = [hand EXCEPT ![f] = value[b][f]] /\ value' = [value EXCEPT ![b][f] = 0]
      /\ next' = next + 1 /\ loop' = IF next = Len(FlushOrder) THEN "upsert" ELSE "swap"
      /\ UNCHANGED <<buffer, calls, recorderVars, batch, target, last, stopped, average, written,
                     lost, recorded, overlapped>>
  BY DEF SwapField, rowVars
<1>3. /\ value' \in [Buffers -> [Fields -> Nat]]
      /\ \A c \in Buffers : c # b => value'[c] = value[c]
      /\ \A g \in Fields : value'[b][g] = IF g = f THEN 0 ELSE value[b][g]
  BY <1>1, <1>2 DEF UsageTypeOK
<1>4. hand' \in [Fields -> Nat] /\ \A g \in Fields : hand'[g] = IF g = f THEN value[b][f] ELSE hand[g]
  BY <1>1, <1>2 DEF UsageTypeOK
<1>5. UsageTypeOK'
  <2>1. next' \in 1 .. Len(FlushOrder) + 1 /\ loop' \in {"wait", "each", "swap", "upsert", "ended"}
    BY <1>1, <1>2, FlushOrderFacts
  <2> QED
    BY <1>2, <1>3, <1>4, <2>1 DEF UsageTypeOK, recorderVars
<1>6. OneKeyPerBuffer' /\ CallsInPlace' /\ LateOnlyAcrossFlush'
  <2>1. ASSUME NEW n \in Buffers, value[n] = Zero PROVE value'[n] = Zero
    <3>1. value'[n] \in [Fields -> Nat] /\ \A g \in Fields : value'[n][g] = 0
      <4>1. \A g \in Fields : value[n][g] = 0
        BY <2>1 DEF Zero
      <4> QED
        BY <1>3, <4>1
    <3> QED
      BY <3>1 DEF Zero
  <2> QED
    BY <1>2, <2>1, MapsKept
<1>7. FlushInPlace'
  <2>1. loop' = "swap" => next' <= 4
    BY <1>1, <1>2, FlushOrderFacts
  <2>2. loop' = "upsert" => next' = 5
    BY <1>1, <1>2, FlushOrderFacts
  <2>3. \A i \in 1 .. 4 : i >= next' => hand'[FlushOrder[i]] = 0
    <3>1. \A i \in 1 .. 4 : i >= next => hand[FlushOrder[i]] = 0
      BY FlushOrderFacts DEF FlushInPlace
    <3>2. \A i \in 1 .. 4 : i >= next' => i >= next /\ i # next
      BY <1>1, <1>2
    <3> QED
      BY <1>1, <1>4, <3>1, <3>2, FlushOrderFacts
  <2> QED
    BY <1>1, <1>2, <2>1, <2>2, <2>3, FlushOrderFacts DEF FlushInPlace
<1>8. Conserved'
  <2> SUFFICES ASSUME NEW k \in BufferKeys, NEW g \in Fields PROVE recorded'[k][g] = Waiting(k, g)'
    BY ConservedTotalNext
  <2>0. recorded[k][g] = Waiting(k, g)
    BY ConservedTotal
  <2>1. b # buffer[k]
    BY <1>1 DEF OneKeyPerBuffer
  <2>2. InMap(k, g)' = InMap(k, g)
    BY <1>2, <1>3, <2>1 DEF InMap, UsageTypeOK
  <2>3. CASE k # target
    <3>1. InHand(k, g)' = InHand(k, g)
      BY <1>2, <2>3 DEF InHand
    <3>2. batch[k] # NoBuffer => batch[k] # b /\ batch[k] \in Buffers
      BY <1>1, <2>3 DEF OneKeyPerBuffer, UsageTypeOK
    <3>3. Taken(batch[k], k, g)' <=> Taken(batch[k], k, g)
      BY <1>2, <2>3 DEF Taken
    <3>4. InBatch(k, g)' = InBatch(k, g)
      BY <1>2, <1>3, <3>2, <3>3 DEF InBatch
    <3> QED
      BY <1>2, <2>0, <2>2, <3>1, <3>4 DEF Waiting
  <2>4. CASE k = target
    <3>1. InHand(k, g) = hand[g] /\ InHand(k, g)' = hand'[g]
      BY <1>2, <2>4 DEF InHand
    <3>2. Taken(b, k, g) <=> \E i \in 1 .. next - 1 : FlushOrder[i] = g
      BY <2>1, <2>4 DEF Taken
    <3>3. Taken(b, k, g)' <=> \E i \in 1 .. next : FlushOrder[i] = g
      <4>1. next' - 1 = next
        BY <1>1, <1>2
      <4> QED
        BY <1>2, <2>1, <2>4, <4>1 DEF Taken
    <3>4. InBatch(k, g) = IF Taken(b, k, g) THEN 0 ELSE value[b][g]
      BY <1>1, <2>4 DEF InBatch
    <3>5. InBatch(k, g)' = IF Taken(b, k, g)' THEN 0 ELSE value'[b][g]
      BY <1>1, <1>2, <2>4 DEF InBatch
    <3>6. CASE g = f
      <4>1. ~Taken(b, k, g) /\ Taken(b, k, g)'
        BY <1>1, <3>2, <3>3, <3>6, FlushOrderFacts
      <4>2. hand[g] = 0
        BY <1>1, <3>6, FlushOrderFacts DEF FlushInPlace
      <4>3. /\ InBatch(k, g) = value[b][f] /\ InHand(k, g) = 0
            /\ InBatch(k, g)' = 0 /\ InHand(k, g)' = value[b][f]
        BY <1>4, <3>1, <3>4, <3>5, <3>6, <4>1, <4>2
      <4>4. /\ InMap(k, g) \in Nat /\ written[k][g] \in Nat /\ lost[k][g] \in Nat
        BY AmountTypes
      <4>5. Total(g, written[k][g], lost[k][g], InMap(k, g), 0, value[b][f])
              = Total(g, written[k][g], lost[k][g], InMap(k, g), value[b][f], 0)
        BY <1>1, <4>4, TotalToHand
      <4> QED
        BY <1>2, <2>0, <2>2, <4>3, <4>5, Zenon DEF Waiting
    <3>7. CASE g # f
      <4>1. Taken(b, k, g)' <=> Taken(b, k, g)
        BY <1>1, <3>2, <3>3, <3>7
      <4>2. InBatch(k, g)' = InBatch(k, g) /\ InHand(k, g)' = InHand(k, g)
        BY <1>3, <1>4, <3>1, <3>4, <3>5, <3>7, <4>1
      <4> QED
        BY <1>2, <2>0, <2>2, <4>2 DEF Waiting
    <3> QED
      BY <3>6, <3>7
  <2> QED
    BY <2>3, <2>4
<1> QED
  BY <1>5, <1>6, <1>7, <1>8

\* The amounts of one key are merged into its totals.
RowGets(t, k, v) == [t EXCEPT ![k] = Merged(t[k], v)]

LEMMA RowMerges ==
  ASSUME NEW t \in Totals, NEW k \in BufferKeys, NEW v \in [Fields -> Nat]
  PROVE  /\ RowGets(t, k, v) \in Totals
         /\ \A j \in BufferKeys, f \in Fields :
              RowGets(t, k, v)[j][f] = IF j = k THEN Merge(f, t[j][f], v[f]) ELSE t[j][f]
<1>1. \A f \in Fields : t[k][f] \in Nat /\ v[f] \in Nat
  BY DEF Totals
<1>2. Merged(t[k], v) \in [Fields -> Nat]
  BY <1>1, MergeFacts DEF Merged
<1>3. \A f \in Fields : Merged(t[k], v)[f] = Merge(f, t[k][f], v[f])
  BY DEF Merged
<1> QED
  BY <1>2, <1>3 DEF Totals, RowGets

\* What was in hand goes to the row and to what is lost, g and u of it.
LEMMA UpsertDoneStep ==
  ASSUME UsageInv, UpsertDone, average' \subseteq BufferKeys,
         NEW g \in [Fields -> Nat], NEW u \in [Fields -> Nat],
         \A f \in Fields : hand[f] = Merge(f, g[f], u[f]),
         written' = [written EXCEPT ![target] = Merged(written[target], g)],
         lost' = [lost EXCEPT ![target] = Merged(lost[target], u)]
  PROVE  UsageInv'
<1> USE DEF UsageInv
<1>1. /\ loop = "upsert" /\ batch' = [batch EXCEPT ![target] = NoBuffer] /\ target' = NoBufferKey
      /\ next' = 1 /\ hand' = Zero /\ loop' = "each"
      /\ UNCHANGED <<buffer, value, calls, recorderVars, last, stopped, recorded, overlapped>>
  BY DEF UpsertDone, bufferVars
<1>2. target \in BufferKeys /\ target # NoBufferKey /\ batch[target] # NoBuffer /\ next = 5
  BY <1>1, FlushOrderFacts DEF FlushInPlace, UsageTypeOK
<1>3. Zero \in [Fields -> Nat] /\ \A f \in Fields : Zero[f] = 0
  BY DEF Zero
<1>4. written \in Totals /\ lost \in Totals
  BY DEF UsageTypeOK
<1>5. /\ written' \in Totals /\ lost' \in Totals
      /\ \A k \in BufferKeys, f \in Fields :
           /\ written'[k][f] = IF k = target THEN Merge(f, written[k][f], g[f]) ELSE written[k][f]
           /\ lost'[k][f] = IF k = target THEN Merge(f, lost[k][f], u[f]) ELSE lost[k][f]
  <2>1. written' = RowGets(written, target, g) /\ lost' = RowGets(lost, target, u)
    BY DEF RowGets
  <2>2. /\ RowGets(written, target, g) \in Totals
        /\ \A k \in BufferKeys, f \in Fields :
             RowGets(written, target, g)[k][f]
               = IF k = target THEN Merge(f, written[k][f], g[f]) ELSE written[k][f]
    BY <1>2, <1>4, RowMerges, Zenon
  <2>3. /\ RowGets(lost, target, u) \in Totals
        /\ \A k \in BufferKeys, f \in Fields :
             RowGets(lost, target, u)[k][f]
               = IF k = target THEN Merge(f, lost[k][f], u[f]) ELSE lost[k][f]
    BY <1>2, <1>4, RowMerges, Zenon
  <2>4. written' \in Totals /\ lost' \in Totals
    BY <2>1, <2>2, <2>3
  <2>5. \A k \in BufferKeys, f \in Fields :
          written'[k][f] = IF k = target THEN Merge(f, written[k][f], g[f]) ELSE written[k][f]
    BY <2>1, <2>2, Zenon
  <2>6. \A k \in BufferKeys, f \in Fields :
          lost'[k][f] = IF k = target THEN Merge(f, lost[k][f], u[f]) ELSE lost[k][f]
    BY <2>1, <2>3, Zenon
  <2> QED
    BY <2>4, <2>5, <2>6
<1>6. batch' \in [BufferKeys -> Buffers \cup {NoBuffer}]
      /\ \A k \in BufferKeys : batch'[k] = IF k = target THEN NoBuffer ELSE batch[k]
  BY <1>1, <1>2 DEF UsageTypeOK
<1>7. UsageTypeOK'
  <2>1. next' \in 1 .. Len(FlushOrder) + 1 /\ loop' \in {"wait", "each", "swap", "upsert", "ended"}
    BY <1>1, FlushOrderFacts
  <2> QED
    BY <1>1, <1>3, <1>5, <1>6, <2>1 DEF UsageTypeOK, recorderVars
<1>8. OneKeyPerBuffer' /\ CallsInPlace' /\ LateOnlyAcrossFlush'
  BY <1>1, <1>6, MapsKept
<1>9. FlushInPlace'
  BY <1>1, <1>3, FlushOrderFacts DEF FlushInPlace
<1>10. Conserved'
  <2> SUFFICES ASSUME NEW k \in BufferKeys, NEW f \in Fields PROVE recorded'[k][f] = Waiting(k, f)'
    BY ConservedTotalNext
  <2>0. recorded[k][f] = Waiting(k, f)
    BY ConservedTotal
  <2>1. InMap(k, f)' = InMap(k, f)
    BY <1>1 DEF InMap
  <2>2. InHand(k, f)' = 0
    BY <1>1, <1>3 DEF InHand
  <2>3. CASE k = target
    <3>1. InHand(k, f) = Merge(f, g[f], u[f])
      BY <2>3 DEF InHand
    <3>2. InBatch(k, f)' = 0
      BY <1>6, <2>3 DEF InBatch
    <3>3. InBatch(k, f) = 0
      <4>1. \E i \in 1 .. next - 1 : FlushOrder[i] = f
        BY <1>2, FlushOrderFacts
      <4>2. batch[k] # buffer[k]
        BY <1>2, <2>3 DEF OneKeyPerBuffer
      <4> QED
        BY <2>3, <4>1, <4>2 DEF InBatch, Taken
    <3>4. InMap(k, f) \in Nat /\ written[k][f] \in Nat /\ lost[k][f] \in Nat
      BY AmountTypes
    <3>5. Total(f, Merge(f, written[k][f], g[f]), Merge(f, lost[k][f], u[f]), InMap(k, f), 0, 0)
            = Total(f, written[k][f], lost[k][f], InMap(k, f), 0, Merge(f, g[f], u[f]))
      BY <3>4, TotalToRow
    <3> QED
      BY <1>1, <1>5, <2>0, <2>1, <2>2, <2>3, <3>1, <3>2, <3>3, <3>5 DEF Waiting
  <2>4. CASE k # target
    <3>1. InHand(k, f) = 0
      BY <2>4 DEF InHand
    <3>2. batch[k] # NoBuffer => ~Taken(batch[k], k, f) /\ ~Taken(batch[k], k, f)'
      BY <1>1, <1>2, <1>6, <2>4 DEF Taken
    <3>3. InBatch(k, f)' = InBatch(k, f)
      BY <1>1, <1>6, <2>4, <3>2 DEF InBatch
    <3> QED
      BY <1>1, <1>5, <2>0, <2>1, <2>2, <2>4, <3>1, <3>3 DEF Waiting
  <2> QED
    BY <2>3, <2>4
<1> QED
  BY <1>7, <1>8, <1>9, <1>10

LEMMA UpsertStep ==
  ASSUME UsageInv, Upsert
  PROVE  UsageInv'
<1>1. hand \in [Fields -> Nat] /\ {"latencySum", "latencyCount"} \subseteq Fields
  BY DEF UsageInv, UsageTypeOK, Fields
<1>2. /\ Given \in [Fields -> Nat]
      /\ \A f \in Fields : Given[f] = IF f = "latencySum" /\ hand["latencyCount"] = 0 THEN 0 ELSE hand[f]
  BY <1>1 DEF Given
<1>3. /\ Ungiven \in [Fields -> Nat]
      /\ \A f \in Fields : Ungiven[f] = IF f = "latencySum" THEN hand[f] - Given[f] ELSE 0
  BY <1>1, <1>2 DEF Ungiven, Zero
<1>4. ASSUME NEW f \in Fields PROVE hand[f] = Merge(f, Given[f], Ungiven[f])
  <2>1. CASE f = "latencySum"
    BY <1>1, <1>2, <1>3, <2>1 DEF Merge
  <2>2. CASE f # "latencySum"
    BY <1>1, <1>2, <1>3, <2>2, MergeFacts
  <2> QED
    BY <2>1, <2>2
<1>5. average' \subseteq BufferKeys
  <2>1. target \in BufferKeys
    BY DEF UsageInv, FlushInPlace, UsageTypeOK, Upsert, UpsertDone
  <2> QED
    BY <2>1 DEF UsageInv, UsageTypeOK, Upsert
<1> QED
  BY <1>2, <1>3, <1>4, <1>5, UpsertDoneStep DEF Upsert

LEMMA UpsertFailsStep ==
  ASSUME UsageInv, UpsertFails
  PROVE  UsageInv'
<1>1. /\ hand \in [Fields -> Nat] /\ Zero \in [Fields -> Nat]
      /\ average \subseteq BufferKeys /\ target \in BufferKeys /\ written \in Totals
  BY DEF UsageInv, UsageTypeOK, Zero, FlushInPlace, UpsertFails, UpsertDone
<1>2. \A f \in Fields : hand[f] = Merge(f, Zero[f], hand[f])
  BY <1>1, MergeFacts DEF Zero
<1>3. Merged(written[target], Zero) = written[target]
  <2>1. /\ written[target] \in [Fields -> Nat]
        /\ \A f \in Fields : Merge(f, written[target][f], Zero[f]) = written[target][f]
    BY <1>1, MergeFacts DEF Totals, Zero
  <2> QED
    BY <2>1 DEF Merged
<1>4. written' = [written EXCEPT ![target] = Merged(written[target], Zero)]
  BY <1>1, <1>3 DEF UpsertFails, Totals
<1> QED
  BY <1>1, <1>2, <1>4, UpsertDoneStep DEF UpsertFails

LEMMA FlushedStep ==
  ASSUME UsageInv, Flushed
  PROVE  UsageInv'
<1> USE DEF UsageInv
<1>1. /\ loop = "each" /\ \A k \in BufferKeys : batch[k] = NoBuffer
      /\ loop' \in {"wait", "ended"}
      /\ UNCHANGED <<buffer, value, calls, recorderVars, batch, target, next, hand, last, stopped,
                     average, written, lost, recorded, overlapped>>
  BY DEF Flushed, bufferVars, rowVars
<1>2. UsageTypeOK'
  BY <1>1 DEF UsageTypeOK, recorderVars
<1>3. OneKeyPerBuffer' /\ CallsInPlace' /\ LateOnlyAcrossFlush'
  BY <1>1, MapsKept
<1>4. FlushInPlace'
  BY <1>1 DEF FlushInPlace
<1> QED
  BY <1>1, <1>2, <1>3, <1>4, AmountsKept DEF bufferVars

\* Stop, and a step of something else.
LEMMA OtherStep ==
  ASSUME UsageInv, stopped' \in BOOLEAN,
         UNCHANGED <<bufferVars, calls, recorderVars, flushVars, rowVars, lost, recorded, overlapped>>
  PROVE  UsageInv'
<1> USE DEF UsageInv
<1>1. UNCHANGED <<buffer, value, calls, recorderVars, loop, batch, target, next, hand, last,
                  average, written, lost, recorded, overlapped>>
  BY DEF bufferVars, flushVars, rowVars
<1>2. UsageTypeOK'
  BY <1>1 DEF UsageTypeOK, recorderVars
<1>3. OneKeyPerBuffer' /\ CallsInPlace' /\ LateOnlyAcrossFlush'
  BY <1>1, MapsKept
<1>4. FlushInPlace'
  BY <1>1 DEF FlushInPlace
<1> QED
  BY <1>1, <1>2, <1>3, <1>4, AmountsKept DEF bufferVars

-----------------------------------------------------------------------------
LEMMA UsageInvStep == UsageInv /\ [UsageNext]_usageVars => UsageInv'
<1> SUFFICES ASSUME UsageInv, [UsageNext]_usageVars PROVE UsageInv'
  OBVIOUS
<1>1. ASSUME NEW r \in Recorders, RecorderStep(r) PROVE UsageInv'
  BY <1>1, RecorderStepKeeps
<1>2. CASE TickFlush \/ FinalFlush
  BY <1>2, TakeMapStep DEF TickFlush, FinalFlush
<1>3. CASE \E k \in BufferKeys : NextBuffer(k)
  BY <1>3, NextBufferStep
<1>4. CASE SwapField
  BY <1>4, SwapFieldStep
<1>5. CASE Upsert
  BY <1>5, UpsertStep
<1>6. CASE UpsertFails
  BY <1>6, UpsertFailsStep
<1>7. CASE Flushed
  BY <1>7, FlushedStep
<1>8. CASE Stop \/ UNCHANGED usageVars
  <2>1. stopped' \in BOOLEAN
    BY <1>8 DEF Stop, usageVars, UsageInv, UsageTypeOK
  <2> QED
    BY <1>8, <2>1, OtherStep DEF Stop, usageVars
<1> QED
  BY <1>1, <1>2, <1>3, <1>4, <1>5, <1>6, <1>7, <1>8 DEF UsageNext, FlushStep

\* The strengthened invariant holds for any number of recorders and keys: a
\* buffer belongs to one key and to one of the two maps, a call keeps to the
\* buffer of its key, and what flushLoop has in hand is what it took.
THEOREM UsageInvariant == UsageSpec => []UsageInv
<1> QED
  BY UsageInvInit, UsageInvStep, PTL DEF UsageSpec

\* Every event recorded is in exactly one place: written, waiting, or lost by a
\* statement that failed or by having come after Flush took its field.
THEOREM UsageConserved == UsageSpec => []Conserved
<1>1. UsageInv => Conserved
  BY DEF UsageInv
<1> QED
  BY <1>1, UsageInvariant, PTL

\* A call that finds its buffer after the last swap of the map always counts.
THEOREM UsageLateOnlyAcrossFlush == UsageSpec => []LateOnlyAcrossFlush
<1>1. UsageInv => LateOnlyAcrossFlush
  BY DEF UsageInv
<1> QED
  BY <1>1, UsageInvariant, PTL
=============================================================================
