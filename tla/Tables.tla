------------------------------- MODULE Tables -------------------------------
(***************************************************************************)
(* The tables of the control plane (tenant.go, plan.go and models.go): the *)
(* status of tenants and API keys and the limits of plans.  A statement is *)
(* one step and changes one row of one table; one that would change        *)
(* nothing affects no rows (the connection is opened without               *)
(* clientFoundRows) and is reported as "not found".                        *)
(***************************************************************************)
EXTENDS Naturals

CONSTANTS Threads,           \* goroutines, each with one call at a time
          Keys, Tenants, Plans,
          TenantOf, PlanOf,  \* the columns tenant_id and plan_id of a key
          ExpiresAt,         \* expires_at of a key
          TenantStatuses,    \* "active", "suspended" and "deleted", or some
          Limits             \* what a plan may grant

ASSUME TablesAssumption ==
  /\ TenantOf \in [Keys -> Tenants] /\ PlanOf \in [Keys -> Plans]
  /\ ExpiresAt \in [Keys -> Nat]
  /\ "active" \in TenantStatuses

KeyStatuses == {"active", "revoked"}

VARIABLES tenantStatus, keyStatus, limit

tableVars == <<tenantStatus, keyStatus, limit>>

TablesTypeOK ==
  /\ tenantStatus \in [Tenants -> TenantStatuses]
  /\ keyStatus \in [Keys -> KeyStatuses]
  /\ limit \in [Plans -> Limits]

TablesInit ==
  /\ tenantStatus = [t \in Tenants |-> "active"]
  /\ keyStatus = [k \in Keys |-> "active"]
  /\ limit \in [Plans -> Limits]

Rows == [tenant : TenantStatuses, key : KeyStatuses, limit : Limits]

\* What queryAuthContext reads: the three tables joined.
Row(k) == [tenant |-> tenantStatus[TenantOf[k]], key |-> keyStatus[k], limit |-> limit[PlanOf[k]]]

-----------------------------------------------------------------------------
\* tenant.go UpdateStatus, for Suspend, Activate and Delete.
UpdateStatus(t, status) ==
  /\ tenantStatus[t] # status
  /\ tenantStatus' = [tenantStatus EXCEPT ![t] = status]
  /\ UNCHANGED <<keyStatus, limit>>

\* External: UPDATE api_keys SET status = 'revoked', which no code does yet.
Revoke(k) ==
  /\ keyStatus[k] = "active"
  /\ keyStatus' = [keyStatus EXCEPT ![k] = "revoked"]
  /\ UNCHANGED <<tenantStatus, limit>>

\* plan.go Update and Deprecate; that a plan is deprecated is one more value.
SetPlan(p, l) ==
  /\ limit[p] # l
  /\ limit' = [limit EXCEPT ![p] = l]
  /\ UNCHANGED <<tenantStatus, keyStatus>>
=============================================================================
