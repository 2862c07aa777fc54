---------------------------- MODULE MCFlujoDispatch ----------------------------
(* Programs with no, one and two instructions and segments, and every return. *)
EXTENDS FlujoDispatch, TLC

CONSTANTS i1, i2, disco

MCTextos == {i1, i2, disco}
\* Three lengths: shorter than, as long as and longer than an int.
MCLargo == (i1 :> 3) @@ (i2 :> 6) @@ (disco :> 4)

\* Different values in every field of a PCB, so that none stands for another.
Registros4 == [AX |-> 11, BX |-> 12, CX |-> 13, DX |-> 14]
UnSegmento(n) ==
    [idSegmento |-> n, tamanioSegmentos |-> 64 * n, indiceTablaDePaginas |-> 30 + n]
Programa(instrucciones, segmentos) ==
    [pid |-> 5, estado |-> 2, instrucciones |-> instrucciones,
     program_counter |-> 8, registros_cpu |-> Registros4, t_segmentos |-> segmentos]

MCProgramas ==
    {Programa(<<>>, <<UnSegmento(1)>>),
     Programa(<<i2>>, <<>>),
     Programa(<<i1, i2>>, <<UnSegmento(1), UnSegmento(2)>>)}

MCRespuestas ==
    {[motivo |-> QUANTUM, carga |-> <<>>],
     [motivo |-> FINALIZAR, carga |-> <<>>],
     [motivo |-> PAGEFAULT, carga |-> <<7>>],
     [motivo |-> IO, carga |-> <<disco, 10>>]}
=============================================================================
