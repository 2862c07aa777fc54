------------------------------- MODULE Feedback -------------------------------
(***************************************************************************)
(* What is left of the scheduler called Feedback (kernel.c,                *)
(* planificadorCortoPlazoFeedback): beside planificadorCortoPlazoFIFO it   *)
(* tests its lists before it takes a process, and starts a quantum after   *)
(* it dispatched one.                                                      *)
(***************************************************************************)
EXTENDS Planificador

\* The scheduler's step with that test and the quantum hidden.
PasoVisto ==
    CASE pcCP = "revisar" -> "sacarREADY"
      [] pcCP \in {"comienzoQuantum", "esperarFin"} -> "esperarREADY"
      [] OTHER -> pcCP

FIFO == INSTANCE Planificador WITH
            Algoritmo <- "FIFO",
            pcCP <- PasoVisto,
            semaforoComienzoDeQuantum <- 0,
            pcCQ <- "esperar"

\* Feedback does what FIFO does, one process long: it never finds the list of
\* the second level (kernel.c:661), which nothing fills, and its quantum stops
\* nobody.
ComoFIFO == FIFO!Spec
=============================================================================
