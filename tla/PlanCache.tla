----------------------------- MODULE PlanCache -----------------------------
(***************************************************************************)
(* The plan service of the relay (plan.go): a cache of plans without a     *)
(* lock or a lifetime.  GetByID fills it after a query, Update and         *)
(* Deprecate change the row and then delete the entry (unless the          *)
(* statement is reported as failed), and ClearCache empties it.            *)
(* The map is accessed without synchronisation: when the Go                *)
(* runtime notices, it ends the process, which is a behaviour that stops   *)
(* here; each access is one step.                                          *)
(***************************************************************************)
EXTENDS Tables

NoLimit == 0
NoPlan == "none"

ASSUME PlanAssumption == Limits \subseteq Nat \ {NoLimit}

VARIABLES
  plans,       \* s.cache: plan -> limit or NoLimit
  planAt, plan, read,   \* each goroutine: where it is, its plan and what it read
  missed,      \* history: plans whose row changed although Update failed
  overtaken    \* history: plans whose entry was deleted while a goroutine had
               \* an old row to store

planVars == <<plans, planAt, plan, read, missed, overtaken>>

PlanTypeOK ==
  /\ plans \in [Plans -> Limits \cup {NoLimit}]
  /\ planAt \in [Threads -> {"idle", "query", "store", "delete"}]
  /\ plan \in [Threads -> Plans \cup {NoPlan}]
  /\ read \in [Threads -> Limits \cup {NoLimit}]
  /\ missed \subseteq Plans /\ overtaken \subseteq Plans

PlanInit ==
  /\ plans = [p \in Plans |-> NoLimit]
  /\ planAt = [g \in Threads |-> "idle"] /\ plan = [g \in Threads |-> NoPlan]
  /\ read = [g \in Threads |-> NoLimit]
  /\ missed = {} /\ overtaken = {}

At(g, l) == planAt' = [planAt EXCEPT ![g] = l]
Over(g) == At(g, "idle") /\ plan' = [plan EXCEPT ![g] = NoPlan] /\ read' = [read EXCEPT ![g] = NoLimit]

-----------------------------------------------------------------------------
\* GetByID, on a miss; a hit changes nothing.
GetByID(g, p) ==
  /\ planAt[g] = "idle"
  /\ plans[p] = NoLimit
  /\ At(g, "query")
  /\ plan' = [plan EXCEPT ![g] = p]
  /\ UNCHANGED <<tableVars, plans, read, missed, overtaken>>

QueryPlan(g) ==
  /\ planAt[g] = "query"
  /\ read' = [read EXCEPT ![g] = limit[plan[g]]]
  /\ At(g, "store")
  /\ UNCHANGED <<tableVars, plans, plan, missed, overtaken>>

\* External: the query fails.
QueryPlanFails(g) ==
  /\ planAt[g] = "query"
  /\ Over(g)
  /\ UNCHANGED <<tableVars, plans, missed, overtaken>>

\* s.cache[id] = &plan, whatever happened to the row since the query.
Store(g) ==
  /\ planAt[g] = "store"
  /\ plans' = [plans EXCEPT ![plan[g]] = read[g]]
  /\ Over(g)
  /\ UNCHANGED <<tableVars, missed, overtaken>>

\* Mutation of UpdatePlan: the entry is deleted first, then the row is changed.
UpdatePlanDeletesFirst(g, p, l) ==
  /\ planAt[g] = "idle"
  /\ SetPlan(p, l)
  /\ plans' = [plans EXCEPT ![p] = NoLimit]
  /\ UNCHANGED <<planAt, plan, read, missed, overtaken>>

\* Update and Deprecate: the statement.  One that changes nothing affects no
\* rows and is answered with ErrPlanNotFound, and the cache is left alone.
UpdatePlan(g, p, l) ==
  /\ planAt[g] = "idle"
  /\ SetPlan(p, l)
  /\ At(g, "delete")
  /\ plan' = [plan EXCEPT ![g] = p]
  /\ UNCHANGED <<plans, read, missed, overtaken>>

\* External: the statement has its effect, but ExecContext or RowsAffected is
\* answered with an error (the context is cancelled, the connection is lost), and
\* the cache is left alone.  The same update again then affects no rows.
UpdatePlanFails(g, p, l) ==
  /\ planAt[g] = "idle"
  /\ SetPlan(p, l)
  /\ missed' = missed \cup {p}
  /\ UNCHANGED <<plans, planAt, plan, read, overtaken>>

\* A goroutine has read the row of p, which has changed since, and not stored it.
OldToStore(p) == \E g \in Threads : planAt[g] = "store" /\ plan[g] = p /\ read[g] # limit[p]

\* The entries of ps are gone, to come back with what the goroutines have read.
Emptied(ps) ==
  /\ plans' = [p \in Plans |-> IF p \in ps THEN NoLimit ELSE plans[p]]
  /\ missed' = missed \ ps
  /\ overtaken' = (overtaken \ ps) \cup {p \in ps : OldToStore(p)}
  /\ UNCHANGED tableVars


\* Then the entry is deleted.
DeleteEntry(g) ==
  /\ planAt[g] = "delete"
  /\ Emptied({plan[g]})
  /\ Over(g)

ClearCache == Emptied(Plans) /\ UNCHANGED <<planAt, plan, read>>

-----------------------------------------------------------------------------
\* A cached plan is the one of the database: what an update that succeeded (or
\* ClearCache) leaves behind stays right through any queries and stores, and
\* an update is missed only between its statement and its delete, with two
\* exceptions: a goroutine had read the row before the update and stores it
\* after the delete, or an update failed after its statement had its effect.
\* Then the entry stays wrong until a later update or ClearCache.
PlanCacheAgrees ==
  \A p \in Plans \ (overtaken \cup missed) :
    plans[p] \in {NoLimit, limit[p]} \/ \E g \in Threads : planAt[g] = "delete" /\ plan[g] = p

\* With the same exceptions what a goroutine is about to store is the row.
StoresAgree ==
  \A p \in Plans \ (overtaken \cup missed) :
    OldToStore(p) => \E g \in Threads : planAt[g] = "delete" /\ plan[g] = p

\* Whoever is under way has its plan, and what it has read.
PlansInPlace ==
  \A g \in Threads :
    /\ planAt[g] # "idle" => plan[g] \in Plans
    /\ planAt[g] = "store" => read[g] \in Limits
=============================================================================
