---------------------------- MODULE ControlPlane ----------------------------
(***************************************************************************)
(* The control plane of the relay: authentication (AuthCache.tla) and the  *)
(* plan service (PlanCache.tla) over the same tables.  A change of a plan  *)
(* goes through the plan service, which knows its own cache only: an       *)
(* AuthContext keeps the old limits until it is too old.                   *)
(***************************************************************************)
EXTENDS AuthCache, PlanCache

vars == <<authVars, planVars>>

TypeOK == TablesTypeOK /\ AuthTypeOK /\ PlanTypeOK

Init == TablesInit /\ AuthInit /\ PlanInit

AuthStep ==
  /\ UNCHANGED planVars
  /\ \/ \E g \in Threads :
          \/ \E k \in Keys : planAt[g] = "idle" /\ Authenticate(g, k)
          \/ RemoveInvalid(g) \/ Query(g) \/ QueryFails(g)
          \/ Refuse(g) \/ Check(g) \/ Put(g) \/ Granted(g)
     \/ \E k \in Keys : InvalidateCache(k) \/ KeyRevoked(k)
     \/ \E t \in Tenants, status \in TenantStatuses : TenantUpdate(t, status)
     \/ CleanupCache \/ Tick

\* The statement of a plan update, as the authentication sees it.
PlanChanges ==
  \E g \in Threads, p \in Plans, l \in Limits :
    /\ at[g] = "idle"
    /\ UpdatePlan(g, p, l) \/ UpdatePlanFails(g, p, l)
    /\ RowsChange({k \in Keys : PlanOf[k] = p})

PlanStep ==
  /\ UNCHANGED authVars
  /\ \/ \E g \in Threads :
          \/ \E p \in Plans : at[g] = "idle" /\ GetByID(g, p)
          \/ QueryPlan(g) \/ QueryPlanFails(g) \/ Store(g) \/ DeleteEntry(g)
     \/ ClearCache

Next == AuthStep \/ PlanChanges \/ PlanStep

Spec == Init /\ [][Next]_vars

-----------------------------------------------------------------------------
\* The types, that only what was valid is cached, that a cleared key stays out
\* and a cached plan is the current one (but for the races), and what each of
\* the goroutines has in hand.
ControlInv ==
  /\ TypeOK
  /\ ThreadsInPlace /\ PlansInPlace
  /\ CachedWereValid /\ OvertakenLater
  /\ ClearedStaysOut
  /\ PlanCacheAgrees /\ StoresAgree
=============================================================================
