-------------------------------- MODULE Sistema --------------------------------
(***************************************************************************)
(* Kernel and CPU together, joined by socket_dispatch. The scheduler was   *)
(* modelled against any CPU that answers in order and changes nothing but  *)
(* the pid; here it runs against the CPU of the repository, and the whole  *)
(* is shown to be one of the behaviours the scheduler was checked for.     *)
(***************************************************************************)
EXTENDS Planificador

VARIABLES pcbActual, pcCPU

CPU == INSTANCE CpuDispatch

\* The scheduler was checked for the pid this CPU writes.
ASSUME PidConocido == CPU!PidDeLaCPU \in PidsCPU

varsKernel == <<consola, pcb, contadores, colas, semaforos, hiloLP, hiloCP,
                pcCQ, kernelCaido>>
varsCPU == <<pcbActual, pcCPU>>
varsSistema == <<vars, varsCPU>>

InitSistema == Init /\ CPU!InitCPU

PasoConsola(p) == Consola(p) /\ UNCHANGED varsCPU
PasoLargoPlazo == LargoPlazo /\ UNCHANGED varsCPU
PasoCortoPlazo == CortoPlazo /\ UNCHANGED varsCPU
PasoContadorQuantum == ContadorQuantum /\ UNCHANGED varsCPU
PasoCPU == CPU!NextCPU /\ UNCHANGED varsKernel

NextSistema ==
    \/ \E p \in Procesos : PasoConsola(p)
    \/ PasoLargoPlazo
    \/ PasoCortoPlazo
    \/ PasoContadorQuantum
    \/ PasoCPU

SpecSistema ==
    /\ InitSistema /\ [][NextSistema]_varsSistema
    /\ \A p \in Procesos :
          WF_varsSistema((AgregarNEW(p) \/ AvisarLargoPlazo(p)) /\ UNCHANGED varsCPU)
    /\ WF_varsSistema(PasoLargoPlazo)
    /\ WF_varsSistema(PasoCortoPlazo)
    /\ WF_varsSistema(PasoContadorQuantum)
    /\ WF_varsSistema(PasoCPU)

-----------------------------------------------------------------------------
\* Between recv and send the PCB counts as still on its way to the CPU.
EnCaminoACPU == IF pcCPU = "responder" THEN <<pcbActual>> \o aCPU ELSE aCPU

Abstracto == INSTANCE Planificador WITH aCPU <- EnCaminoACPU

\* No step of kernel and CPU together is one the scheduler was not checked for:
\* each PCB is answered once, in order, and but for its pid as it was sent.
SistemaSeguro == Abstracto!Spec

\* And under fairness each PCB is answered.
ImplementaPlanificador == Abstracto!SpecJusta
=============================================================================
