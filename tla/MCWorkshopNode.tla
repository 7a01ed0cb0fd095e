---------------------------- MODULE MCWorkshopNode ----------------------------
(* WorkshopNode for TLC. *)
EXTENDS WorkshopNode

\* Two jobs of a plan that allows one process, one job of a rate-limited plan.
MCPlans == {"single", "rated"}
MCJobs == 1..3
MCPlanOf == [j \in MCJobs |-> IF j = 3 THEN "rated" ELSE "single"]
MCConcurrency == [p \in MCPlans |-> IF p = "single" THEN 1 ELSE 0]
MCRated == {"rated"}
MCSingle == {"single"}
None == {}
=============================================================================
