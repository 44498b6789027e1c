----------------------------- MODULE MCPlanStore -----------------------------
(* Instances of PlanStore for TLC. *)
EXTENDS PlanStore, TLC

Symmetry == Permutations(Sessions) \cup Permutations(Plans)
=============================================================================
