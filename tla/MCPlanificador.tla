---------------------------- MODULE MCPlanificador ----------------------------
(* One scheduler at a time, for the run with fairness. *)
EXTENDS Planificador, TLC
=============================================================================
