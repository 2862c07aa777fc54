------------------------- MODULE PlanificadorHallazgos -------------------------
(***************************************************************************)
(* What the texts of the kernel (its log lines and comments) say of the    *)
(* scheduler and its code does not do. Each of these is refuted by a run.  *)
(***************************************************************************)
EXTENDS Planificador

\* "Estado Anterior: <NEW>" (kernel.c:536, called at kernel.c:480): the PCB the
\* long-term scheduler marks READY was NEW until then. It may be in execution.
EstadoAnteriorNEW == [][CambiarEstadoLP => pcb[pcbLP].estado = "NEW"]_vars

\* "remueve el PCB de NEW y lo mete en Ready" (kernel.c:479), for which each
\* console wakes the long-term scheduler (kernel.c:377): every process leaves
\* NEW in the end. With more processes than the degree some never do, since
\* nothing calls restarCantidadDeProcesosEnMemoria when one comes back.
TodosDejanNEW ==
    \A p \in Procesos : (consola[p] = "fin") ~> p \notin Range(colaNEW)
=============================================================================
