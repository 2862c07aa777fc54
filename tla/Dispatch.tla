-------------------------------- MODULE Dispatch --------------------------------
(***************************************************************************)
(* What the kernel and the CPU want of socket_dispatch: a PCB goes over    *)
(* whole, and comes back whole, with the pid the CPU gives it and with the *)
(* reason and the operands the CPU chose.                                  *)
(***************************************************************************)
CONSTANTS Programas, Respuestas, PidDeLaCPU, Nulo

VARIABLES
    enCPU,      \* the PCB the CPU has, or is on its way to it
    devuelto,   \* the answer on its way to the kernel
    recibido    \* the answer the kernel has in full

vars == <<enCPU, devuelto, recibido>>

Init == enCPU = Nulo /\ devuelto = Nulo /\ recibido = Nulo

Ejecutar ==
    /\ enCPU = Nulo /\ devuelto = Nulo /\ recibido = Nulo
    /\ enCPU' \in Programas
    /\ UNCHANGED <<devuelto, recibido>>

Contestar ==
    /\ enCPU # Nulo
    /\ \E r \in Respuestas :
          devuelto' = [pcb |-> [enCPU EXCEPT !.pid = PidDeLaCPU], motivo |-> r]
    /\ enCPU' = Nulo
    /\ UNCHANGED recibido

Recibir ==
    /\ devuelto # Nulo
    /\ recibido' = devuelto
    /\ devuelto' = Nulo
    /\ UNCHANGED enCPU

Liberar ==
    /\ recibido # Nulo
    /\ recibido' = Nulo
    /\ UNCHANGED <<enCPU, devuelto>>

Next == Ejecutar \/ Contestar \/ Recibir \/ Liberar

Seguro == Init /\ [][Next]_vars
Spec == Seguro /\ WF_vars(Contestar) /\ WF_vars(Recibir)
=============================================================================
