------------------------ MODULE MCPlanificadorHallazgos ------------------------
(* The counterexamples of PlanificadorHallazgos, with two processes. *)
EXTENDS PlanificadorHallazgos, TLC
=============================================================================
