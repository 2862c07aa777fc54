------------------------------ MODULE MCArranque ------------------------------
(* Two consoles, and a kernel and a CPU that are started at most twice; each *)
(* time the kernel has room for both processes, for one, or is not RR.       *)
EXTENDS Arranque

MCConfiguraciones ==
    {[grado |-> 2, algoritmo |-> "RR"], [grado |-> 1, algoritmo |-> "RR"],
     [grado |-> 2, algoritmo |-> "FIFO"]}
=============================================================================
