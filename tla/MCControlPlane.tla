--------------------------- MODULE MCControlPlane ---------------------------
(* One key of one tenant with one plan, two goroutines that authenticate   *)
(* it or use the plan service, while the tables change.                    *)
EXTENDS ControlPlane, TLC

CONSTANTS k1, t1, p1

OneTenant == k1 :> t1
OnePlan == k1 :> p1
Expiry == k1 :> 2
Symmetry == Permutations(Threads)
=============================================================================
