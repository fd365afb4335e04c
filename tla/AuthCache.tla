----------------------------- MODULE AuthCache -----------------------------
(***************************************************************************)
(* Authentication at the relay (auth.go): a cache of AuthContexts in front *)
(* of the tables of tenants, API keys and plans.  Authenticate looks the   *)
(* key up under cacheMu; on a miss it queries the three tables in one      *)
(* statement and puts what it read into the cache, with the database free  *)
(* to change in between.  InvalidateCache removes a key; nothing else in   *)
(* the relay tells the cache of a change (tenant.go and plan.go do not),   *)
(* so that changes are seen when an entry is older than cacheTTL.          *)
(*                                                                         *)
(* The Redis cache is a stub that stores nothing; last_used_at, names and  *)
(* permissions are left out.  External: the database, and whoever revokes  *)
(* a key with an UPDATE of api_keys (control-plane-design.md 6.2).         *)
(***************************************************************************)
EXTENDS Tables

CONSTANTS TTL,
          MaxTime      \* bound: the clock stops there

ASSUME AuthAssumption == TTL \in Nat /\ MaxTime \in Nat

NoKey == "none"
None == [cached |-> FALSE]

VARIABLES
  now,           \* time.Now()
  cache,         \* key -> AuthContext or None
  at, key, own,  \* each thread: where it is, its key, its AuthContext
  changed,       \* history: when the row of a key in the cache last changed
  cleared,       \* history: keys invalidated since their row last changed
  raced          \* history: keys whose row was changed, or that were invalidated,
                 \* while a thread had the row of before the change in hand

cacheVars == <<cache, cleared, raced>>
threadVars == <<at, key, own>>
authVars == <<now, tableVars, cacheVars, threadVars, changed>>

AuthContext == [cached : {TRUE}, row : Rows, at : 0 .. MaxTime]

AuthTypeOK ==
  /\ now \in 0 .. MaxTime
  /\ cache \in [Keys -> AuthContext \cup {None}]
  /\ at \in [Threads -> {"idle", "remove", "query", "check", "put", "granted"}]
  /\ key \in [Threads -> Keys \cup {NoKey}]
  /\ own \in [Threads -> AuthContext \cup {None}]
  /\ changed \in [Keys -> 0 .. MaxTime]
  /\ cleared \subseteq Keys /\ raced \subseteq Keys

AuthInit ==
  /\ now = 0
  /\ cache = [k \in Keys |-> None]
  /\ at = [a \in Threads |-> "idle"] /\ key = [a \in Threads |-> NoKey]
  /\ own = [a \in Threads |-> None]
  /\ changed = [k \in Keys |-> 0] /\ cleared = {} /\ raced = {}

-----------------------------------------------------------------------------
(* Authenticate.                                                           *)

\* AuthContext.IsValid.
IsValid(k, row) == row.tenant = "active" /\ row.key = "active" /\ ~(ExpiresAt[k] < now)

\* Mutation of Fresh: whatever is in the cache is served.
FreshForEver(k) == cache[k] # None

\* getFromCache: "time.Since(authCtx.CachedAt) > s.cacheTTL" is a miss.
Fresh(k) == cache[k] # None /\ ~(now - cache[k].at > TTL)

Goto(a, l) == at' = [at EXCEPT ![a] = l]

\* The cache, and IsValid on what it has.  The code reads the clock for each
\* (lines 181 and 63), here it is the same reading.
Authenticate(a, k) ==
  /\ at[a] = "idle"
  /\ key' = [key EXCEPT ![a] = k]
  /\ IF ~Fresh(k)
     THEN Goto(a, "query") /\ UNCHANGED own
     ELSE IF IsValid(k, cache[k].row)
          THEN Goto(a, "granted") /\ own' = [own EXCEPT ![a] = cache[k]]
          ELSE Goto(a, "remove") /\ UNCHANGED own
  /\ UNCHANGED <<now, tableVars, changed, cacheVars>>

\* Whatever was put there since is removed too.
RemoveInvalid(a) ==
  /\ at[a] = "remove"
  /\ cache' = [cache EXCEPT ![key[a]] = None]
  /\ Goto(a, "query")
  /\ UNCHANGED <<now, tableVars, changed, cleared, raced, key, own>>

Query(a) ==
  /\ at[a] = "query"
  /\ own' = [own EXCEPT ![a] = [cached |-> TRUE, row |-> Row(key[a]), at |-> 0]]
  /\ Goto(a, "check")
  /\ UNCHANGED <<now, tableVars, changed, cacheVars, key>>

Return(a) ==
  /\ Goto(a, "idle")
  /\ key' = [key EXCEPT ![a] = NoKey]
  /\ own' = [own EXCEPT ![a] = None]
  /\ UNCHANGED <<now, tableVars, changed, cacheVars>>

\* External: the query fails.
QueryFails(a) == at[a] = "query" /\ Return(a)

\* Suspended, revoked or expired.
Refuse(a) == at[a] = "check" /\ ~IsValid(key[a], own[a].row) /\ Return(a)

\* Mutation of Check: what was read is cached whatever it says.
CheckNothing(a) ==
  /\ at[a] = "check"
  /\ own' = [own EXCEPT ![a].at = now]
  /\ Goto(a, "put")
  /\ UNCHANGED <<now, tableVars, changed, cacheVars, key>>

\* CachedAt is the time after the query.
Check(a) ==
  /\ at[a] = "check"
  /\ IsValid(key[a], own[a].row)
  /\ own' = [own EXCEPT ![a].at = now]
  /\ Goto(a, "put")
  /\ UNCHANGED <<now, tableVars, changed, cacheVars, key>>

\* putToCache, whatever is there and whatever happened since the query.
Put(a) ==
  /\ at[a] = "put"
  /\ cache' = [cache EXCEPT ![key[a]] = own[a]]
  /\ Goto(a, "granted")
  /\ UNCHANGED <<now, tableVars, changed, cleared, raced, key, own>>

\* Mutation of Granted: what let the request in is cached again at its end.
GrantedRenews(a) ==
  /\ at[a] = "granted"
  /\ cache' = [cache EXCEPT ![key[a]] = own[a]]
  /\ Goto(a, "idle")
  /\ key' = [key EXCEPT ![a] = NoKey]
  /\ own' = [own EXCEPT ![a] = None]
  /\ UNCHANGED <<now, tableVars, changed, cleared, raced>>

Granted(a) == at[a] = "granted" /\ Return(a)

\* A thread has read the row of k, which has changed since, and not put it yet.
OldInHand(k) ==
  \E a \in Threads : at[a] \in {"check", "put"} /\ key[a] = k /\ own[a].row # Row(k)

InvalidateCache(k) ==
  /\ cache' = [cache EXCEPT ![k] = None]
  /\ cleared' = cleared \cup {k}
  /\ raced' = IF OldInHand(k) THEN raced \cup {k} ELSE raced \ {k}
  /\ UNCHANGED <<now, tableVars, changed, threadVars>>

\* cleanupCache, at every tick of cacheTTL.
Old == {k \in Keys : cache[k] # None /\ now - cache[k].at > TTL}

CleanupCache ==
  /\ Old # {}
  /\ cache' = [k \in Keys |-> IF k \in Old THEN None ELSE cache[k]]
  /\ UNCHANGED <<now, tableVars, changed, cleared, raced, threadVars>>

Tick ==
  /\ now < MaxTime
  /\ now' = now + 1
  /\ UNCHANGED <<tableVars, changed, cacheVars, threadVars>>

-----------------------------------------------------------------------------
\* A statement changed the rows of these keys, which nobody tells the cache.
RowsChange(keys) ==
  /\ UNCHANGED <<now, cache, threadVars>>
  /\ changed' = [k \in Keys |-> IF k \in keys /\ cache[k] # None THEN now ELSE changed[k]]
  /\ cleared' = cleared \ keys
  /\ raced' = (raced \ keys) \cup {k \in keys : OldInHand(k)'}

TenantUpdate(t, status) ==
  UpdateStatus(t, status) /\ RowsChange({k \in Keys : TenantOf[k] = t})

KeyRevoked(k) == Revoke(k) /\ RowsChange({k})

-----------------------------------------------------------------------------
FromCache(a) == at[a] = "idle" /\ at'[a] = "granted"

\* What the cache holds said "active" when it was read, and was read in the past.
CachedWereValid ==
  /\ \A k \in Keys : cache[k] # None =>
       cache[k].row.tenant = "active" /\ cache[k].row.key = "active" /\ cache[k].at <= now
  /\ \A a \in Threads : at[a] \in {"put", "granted"} =>
       /\ own[a] # None /\ own[a].at <= now
       /\ own[a].row.tenant = "active" /\ own[a].row.key = "active"

\* Whoever is under way has its key, and what it has read.
ThreadsInPlace ==
  \A a \in Threads :
    /\ at[a] # "idle" => key[a] \in Keys
    /\ at[a] \in {"check", "put", "granted"} => own[a] # None

\* But for the raced keys, an entry that the database has overtaken was read
\* before the change, and what a thread has read of a row is the row.
OvertakenLater ==
  \A k \in Keys \ raced :
    /\ cache[k] # None /\ cache[k].row # Row(k) => cache[k].at <= changed[k]
    /\ ~OldInHand(k)

\* The cache lets no expired key in, although an entry may expire while it is
\* there; and a key whose row the database has changed (a suspended tenant, a
\* revoked key, a smaller plan) for no longer than cacheTTL after the change,
\* unless a request had read the old row and not put it yet when the row changed.
StaleAtMostTTL ==
  [][\A a \in Threads : FromCache(a) =>
       LET k == key'[a]
       IN  /\ now <= ExpiresAt[k]
           /\ own'[a].row # Row(k) /\ k \notin raced => now <= changed[k] + TTL]_authVars

\* An invalidation is final: after it the cache does not get the old row of the
\* key again, through any queries, puts and clean-ups, provided that no request
\* had the old row in hand at the invalidation.  (Such a request puts it back,
\* which control-plane-design.md 4.5 and 6.2 do not expect; to invalidate the
\* key once more when it has ended is then enough.)
ClearedStaysOut ==
  \A k \in cleared \ raced : cache[k] # None => cache[k].row = Row(k)

-----------------------------------------------------------------------------
\* control-plane-design.md 4.5: a key that is revoked is cleared from the
\* cache, so that the cache does not let it in any more.
RevokedRefused ==
  [][\A a \in Threads :
       FromCache(a) => ~(key'[a] \in cleared /\ keyStatus[key'[a]] = "revoked")]_authVars
=============================================================================
