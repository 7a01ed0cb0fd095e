---------------------------- MODULE MCPlanLibrary ----------------------------
(* PlanLibrary for TLC. *)
EXTENDS PlanLibrary

MCPlans == {"a", "b"}
=============================================================================
