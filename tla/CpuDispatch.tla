------------------------------ MODULE CpuDispatch ------------------------------
(***************************************************************************)
(* The CPU's dispatch server (atender_cliente_dispatch in src/CPU/src/     *)
(* cpu.c), the only thread that runs once main has accepted the kernel: it *)
(* takes a PCB from the socket and sends it back as if it asked for IO.    *)
(***************************************************************************)
EXTENDS Integers, Sequences

CONSTANT Nulo

VARIABLES
    pcbActual,    \* the global pcbActual
    pcCPU,        \* where the thread is
    aCPU, deCPU   \* the two directions of socket_cliente_dispatch

\* "pcbActual->pid = 23;"
PidDeLaCPU == 23

InitCPU ==
    /\ pcbActual = Nulo
    /\ pcCPU = "recibir"

RecibirDelKernel ==
    /\ pcCPU = "recibir"
    /\ aCPU # <<>>
    /\ pcbActual' = Head(aCPU)
    /\ aCPU' = Tail(aCPU)
    /\ pcCPU' = "responder"
    /\ UNCHANGED deCPU

\* Mutant: the PCB is served and no answer is sent.
OlvidarRespuesta ==
    /\ pcCPU = "responder"
    /\ pcbActual' = [pcbActual EXCEPT !.pid = PidDeLaCPU]
    /\ pcCPU' = "recibir"
    /\ UNCHANGED <<aCPU, deCPU>>

ResponderAlKernel ==
    /\ pcCPU = "responder"
    /\ pcbActual' = [pcbActual EXCEPT !.pid = PidDeLaCPU]
    /\ deCPU' = Append(deCPU, pcbActual')
    /\ pcCPU' = "recibir"
    /\ UNCHANGED aCPU

NextCPU == RecibirDelKernel \/ ResponderAlKernel
=============================================================================
