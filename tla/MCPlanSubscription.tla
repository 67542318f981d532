------------------------- MODULE MCPlanSubscription -------------------------
(* Instances of PlanSubscription for TLC.                                   *)
EXTENDS PlanSubscription, TLC

CONSTANTS s1, s2, w1, w2

Symmetry == Permutations(Sub) \cup Permutations(Worker)

=============================================================================
