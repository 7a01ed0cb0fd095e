---------------------------- MODULE MCJobOperator ----------------------------
(* JobOperator for TLC. *)
EXTENDS JobOperator

\* A plan with all features, and plans that lack one or two of them.
Full == [translate |-> TRUE, control_channel |-> TRUE, allow_spawn |-> TRUE,
         translation_server |-> TRUE, timeout |-> TRUE, patient |-> FALSE]

MCPlans ==
  {Full, [Full EXCEPT !.patient = TRUE, !.translate = FALSE],
   [Full EXCEPT !.allow_spawn = FALSE, !.translate = FALSE, !.timeout = FALSE],
   [Full EXCEPT !.translation_server = FALSE],
   [Full EXCEPT !.control_channel = FALSE, !.translate = FALSE]}
=============================================================================
