----------------------------- MODULE Planificador -----------------------------
(***************************************************************************)
(* The process scheduler of the Kernel (src/Kernel/src/kernel.c and        *)
(* kernel_hilos.c): one thread per console that creates a PCB, the         *)
(* long-term scheduler, the short-term scheduler in its three variants     *)
(* (FIFO, RR, Feedback) and the quantum counter, sharing three process     *)
(* lists, four semaphores and two counters.                                *)
(*                                                                         *)
(* A step is what one thread does between two points where another thread  *)
(* can be observed: a critical section (every mutex of the kernel protects *)
(* a single leaf section, so the section is one step and the mutex is left *)
(* out), a semaphore operation, a write to a shared PCB, or a send/recv.   *)
(* The CPU is the environment: it answers, in order, each PCB it was sent. *)
(***************************************************************************)
EXTENDS Integers, Sequences, FiniteSets, Functions

CONSTANTS
    Procesos,     \* one per console that connects; the PCB made for it
    GradoMax,     \* GRADO_MAX_MULTIPROGRAMACION
    Algoritmo,    \* ALGORITMO_PLANIFICACION
    PidsCPU,      \* the pids the CPU may write in the PCB it returns
    Nulo          \* the NULL pointer

ASSUME ProcesosFinitos == IsFiniteSet(Procesos)
ASSUME GradoNatural == GradoMax \in Nat
ASSUME AlgoritmoConocido == Algoritmo \in {"FIFO", "RR", "Feedback"}
ASSUME PidsEnteros == PidsCPU \subseteq Int
ASSUME NuloAparte == Nulo \notin Procesos

VARIABLES
    consola,      \* program counter of each atender_consola thread
    pcb,          \* the heap: the PCB of each process
    contadorIDProcesos,
    contadorProcesosEnMemoria,
    colaNEW,
    colaREADY,
    colaEXEC,
    despertarPlanificadorLargoPlazo,  \* semaphores
    semaforoProcesoREADY,
    semaforoProcesoEXECUTING,
    semaforoComienzoDeQuantum,
    pcLP, pcbLP,  \* long-term scheduler: program counter, local PCB pointer
    pcCP, pcbCP,  \* short-term scheduler: the same
    pcCQ,         \* quantum counter thread
    kernelCaido,  \* a NULL pcb was dereferenced: the process is dead
    aCPU, deCPU   \* the two directions of socket_dispatch

colas == <<colaNEW, colaREADY, colaEXEC>>
contadores == <<contadorIDProcesos, contadorProcesosEnMemoria>>
hiloLP == <<pcLP, pcbLP>>
hiloCP == <<pcCP, pcbCP>>
socket == <<aCPU, deCPU>>
semaforos == <<despertarPlanificadorLargoPlazo, semaforoProcesoREADY,
               semaforoProcesoEXECUTING, semaforoComienzoDeQuantum>>
vars == <<consola, pcb, contadores, colas, semaforos, hiloLP, hiloCP, pcCQ,
          kernelCaido, socket>>

Estados == {"NEW", "READY", "EXEC"}

\* The fields of t_pcb that scheduling can tell apart. The program a PCB
\* carries (instructions, segments, registers) is named after its console.
PCB == [pid : Int, estado : Estados, instrucciones : Procesos]

\* Before crearPCB runs there is no PCB; -1 is no process's pid.
SinPid == -1

PasosConsola == {"crear", "agregarNEW", "avisar", "fin"}
PasosLP == {"esperar", "evaluar", "sacarNEW", "agregarREADY", "avisarREADY",
            "sumar", "cambiarEstado"}
PasosCP == {"esperarREADY", "esperarEXECUTING", "revisar", "sacarREADY",
            "agregarEXEC", "cambiarEstado", "ejecutar", "sacarEXEC",
            "recibir", "liberar", "comienzoQuantum", "esperarFin"}

\* queue_pop, list_get and list_remove of the commons library: NULL when
\* there is nothing at that position, and the list is left as it was.
Primero(cola) == IF cola = <<>> THEN Nulo ELSE Head(cola)
Ultimo(cola) == IF cola = <<>> THEN Nulo ELSE cola[Len(cola)]
SinPrimero(cola) == IF cola = <<>> THEN cola ELSE Tail(cola)

SinUltimo(cola) == IF cola = <<>> THEN cola ELSE SubSeq(cola, 1, Len(cola) - 1)

\* Mutant: semaforoProcesoREADY created with one token.
SemaforosConREADYEnUno ==
    [despertar |-> 0, READY |-> 1, EXECUTING |-> 1, comienzoQuantum |-> 0]

\* inicializar_semaforos
SemaforosIniciales ==
    [despertar |-> 0, READY |-> 0, EXECUTING |-> 1, comienzoQuantum |-> 0]

Init ==
    /\ consola = [p \in Procesos |-> "crear"]
    /\ pcb = [p \in Procesos |->
                [pid |-> SinPid, estado |-> "NEW", instrucciones |-> p]]
    /\ contadorIDProcesos = 0
    /\ contadorProcesosEnMemoria = 0
    /\ colaNEW = <<>> /\ colaREADY = <<>> /\ colaEXEC = <<>>
    /\ despertarPlanificadorLargoPlazo = SemaforosIniciales.despertar
    /\ semaforoProcesoREADY = SemaforosIniciales.READY
    /\ semaforoProcesoEXECUTING = SemaforosIniciales.EXECUTING
    /\ semaforoComienzoDeQuantum = SemaforosIniciales.comienzoQuantum
    /\ pcLP = "esperar" /\ pcbLP = Nulo
    /\ pcCP = "esperarREADY" /\ pcbCP = Nulo
    /\ pcCQ = "esperar"
    /\ kernelCaido = FALSE
    /\ aCPU = <<>> /\ deCPU = <<>>

-----------------------------------------------------------------------------
(* atender_consola, from the moment the instructions are received *)

\* Mutant: the counter is read and not incremented.
PidRepetido == contadorIDProcesos
ProximoPid == contadorIDProcesos + 1

CrearPCB(p) ==
    /\ ~kernelCaido
    /\ consola[p] = "crear"
    /\ pcb' = [pcb EXCEPT ![p] = [pid |-> contadorIDProcesos, estado |-> "NEW",
                                  instrucciones |-> p]]
    /\ contadorIDProcesos' = ProximoPid
    /\ consola' = [consola EXCEPT ![p] = "agregarNEW"]
    /\ UNCHANGED <<contadorProcesosEnMemoria, colas, semaforos, hiloLP, hiloCP,
                   pcCQ, kernelCaido, socket>>

AgregarNEW(p) ==
    /\ ~kernelCaido
    /\ consola[p] = "agregarNEW"
    /\ colaNEW' = Append(colaNEW, p)
    /\ consola' = [consola EXCEPT ![p] = "avisar"]
    /\ UNCHANGED <<pcb, contadores, colaREADY, colaEXEC, semaforos, hiloLP,
                   hiloCP, pcCQ, kernelCaido, socket>>

AvisarLargoPlazo(p) ==
    /\ ~kernelCaido
    /\ consola[p] = "avisar"
    /\ despertarPlanificadorLargoPlazo' = despertarPlanificadorLargoPlazo + 1
    /\ consola' = [consola EXCEPT ![p] = "fin"]
    /\ UNCHANGED <<pcb, contadores, colas, semaforoProcesoREADY,
                   semaforoProcesoEXECUTING, semaforoComienzoDeQuantum, hiloLP,
                   hiloCP, pcCQ, kernelCaido, socket>>

Consola(p) == CrearPCB(p) \/ AgregarNEW(p) \/ AvisarLargoPlazo(p)

-----------------------------------------------------------------------------
(* planificadorLargoPlazo *)

EsperarDespertar ==
    /\ ~kernelCaido
    /\ pcLP = "esperar"
    /\ despertarPlanificadorLargoPlazo > 0
    /\ despertarPlanificadorLargoPlazo' = despertarPlanificadorLargoPlazo - 1
    /\ pcLP' = "evaluar"
    /\ UNCHANGED <<consola, pcb, contadores, colas, semaforoProcesoREADY,
                   semaforoProcesoEXECUTING, semaforoComienzoDeQuantum, pcbLP,
                   hiloCP, pcCQ, kernelCaido, socket>>

\* Mutants: off by one, to either side.
GradoHastaInclusive == contadorProcesosEnMemoria <= GradoMax
GradoConMargen == contadorProcesosEnMemoria + 1 < GradoMax
EvaluarGradoDeMultiprogramacion == contadorProcesosEnMemoria < GradoMax

\* When the degree is reached the wake-up is spent and nothing else happens.
EvaluarGrado ==
    /\ ~kernelCaido
    /\ pcLP = "evaluar"
    /\ pcLP' = IF EvaluarGradoDeMultiprogramacion THEN "sacarNEW" ELSE "esperar"
    /\ UNCHANGED <<consola, pcb, contadores, colas, semaforos, pcbLP, hiloCP,
                   pcCQ, kernelCaido, socket>>

\* Mutant: the last of the list, as colaREADY is served.
SacarUltimoNEW ==
    /\ ~kernelCaido
    /\ pcLP = "sacarNEW"
    /\ pcbLP' = Ultimo(colaNEW)
    /\ colaNEW' = SinUltimo(colaNEW)
    /\ kernelCaido' = (pcbLP' = Nulo)
    /\ pcLP' = "agregarREADY"
    /\ UNCHANGED <<consola, pcb, contadores, colaREADY, colaEXEC, semaforos,
                   hiloCP, pcCQ, socket>>

\* The log line under the lock dereferences the PCB taken.
SacarNEW ==
    /\ ~kernelCaido
    /\ pcLP = "sacarNEW"
    /\ pcbLP' = Primero(colaNEW)
    /\ colaNEW' = SinPrimero(colaNEW)
    /\ kernelCaido' = (pcbLP' = Nulo)
    /\ pcLP' = "agregarREADY"
    /\ UNCHANGED <<consola, pcb, contadores, colaREADY, colaEXEC, semaforos,
                   hiloCP, pcCQ, socket>>

AgregarREADY ==
    /\ ~kernelCaido
    /\ pcLP = "agregarREADY"
    /\ colaREADY' = Append(colaREADY, pcbLP)
    /\ pcLP' = "avisarREADY"
    /\ UNCHANGED <<consola, pcb, contadores, colaNEW, colaEXEC, semaforos,
                   pcbLP, hiloCP, pcCQ, kernelCaido, socket>>

AvisarREADY ==
    /\ ~kernelCaido
    /\ pcLP = "avisarREADY"
    /\ semaforoProcesoREADY' = semaforoProcesoREADY + 1
    /\ pcLP' = "sumar"
    /\ UNCHANGED <<consola, pcb, contadores, colas,
                   despertarPlanificadorLargoPlazo, semaforoProcesoEXECUTING,
                   semaforoComienzoDeQuantum, pcbLP, hiloCP, pcCQ, kernelCaido,
                   socket>>

\* Mutant: restarCantidadDeProcesosEnMemoria in its place.
RestarCantidadDeProcesosEnMemoria == contadorProcesosEnMemoria - 1
SumarCantidadDeProcesosEnMemoria == contadorProcesosEnMemoria + 1

SumarProcesoEnMemoria ==
    /\ ~kernelCaido
    /\ pcLP = "sumar"
    /\ contadorProcesosEnMemoria' = SumarCantidadDeProcesosEnMemoria
    /\ pcLP' = "cambiarEstado"
    /\ UNCHANGED <<consola, pcb, contadorIDProcesos, colas, semaforos, pcbLP,
                   hiloCP, pcCQ, kernelCaido, socket>>

\* The PCB has been in colaREADY, and announced, since AvisarREADY: the
\* short-term scheduler may already have taken it.
CambiarEstadoLP ==
    /\ ~kernelCaido
    /\ pcLP = "cambiarEstado"
    /\ pcb' = [pcb EXCEPT ![pcbLP].estado = "READY"]
    /\ pcLP' = "esperar"
    /\ UNCHANGED <<consola, contadores, colas, semaforos, pcbLP, hiloCP, pcCQ,
                   kernelCaido, socket>>

LargoPlazo ==
    \/ EsperarDespertar \/ EvaluarGrado \/ SacarNEW \/ AgregarREADY
    \/ AvisarREADY \/ SumarProcesoEnMemoria \/ CambiarEstadoLP

-----------------------------------------------------------------------------
(* planificadorCortoPlazoFIFO, planificadorCortoPlazoRR and                *)
(* planificadorCortoPlazoFeedback: the same beginning, three endings       *)

EsperarREADY ==
    /\ ~kernelCaido
    /\ pcCP = "esperarREADY"
    /\ semaforoProcesoREADY > 0
    /\ semaforoProcesoREADY' = semaforoProcesoREADY - 1
    /\ pcCP' = "esperarEXECUTING"
    /\ UNCHANGED <<consola, pcb, contadores, colas,
                   despertarPlanificadorLargoPlazo, semaforoProcesoEXECUTING,
                   semaforoComienzoDeQuantum, hiloLP, pcbCP, pcCQ, kernelCaido,
                   socket>>

EsperarEXECUTING ==
    /\ ~kernelCaido
    /\ pcCP = "esperarEXECUTING"
    /\ semaforoProcesoEXECUTING > 0
    /\ semaforoProcesoEXECUTING' = semaforoProcesoEXECUTING - 1
    /\ pcCP' = IF Algoritmo = "Feedback" THEN "revisar" ELSE "sacarREADY"
    /\ UNCHANGED <<consola, pcb, contadores, colas,
                   despertarPlanificadorLargoPlazo, semaforoProcesoREADY,
                   semaforoComienzoDeQuantum, hiloLP, pcbCP, pcCQ, kernelCaido,
                   socket>>

\* Mutant: the list of the second level when colaREADY is not empty.
RevisarAlReves ==
    /\ ~kernelCaido
    /\ pcCP = "revisar"
    /\ kernelCaido' = (colaREADY # <<>>)
    /\ pcCP' = "sacarREADY"
    /\ UNCHANGED <<consola, pcb, contadores, colas, semaforos, hiloLP, pcbCP,
                   pcCQ, socket>>

\* revisarColaDeREADY. When colaREADY is empty Feedback takes its PCB from the
\* second-level list, to which nothing in the kernel ever adds: that is NULL.
RevisarColaDeREADY ==
    /\ ~kernelCaido
    /\ pcCP = "revisar"
    /\ kernelCaido' = (colaREADY = <<>>)
    /\ pcCP' = "sacarREADY"
    /\ UNCHANGED <<consola, pcb, contadores, colas, semaforos, hiloLP, pcbCP,
                   pcCQ, socket>>

\* Mutant: list_get without the list_remove.
LeerREADYSinSacar ==
    /\ ~kernelCaido
    /\ pcCP = "sacarREADY"
    /\ pcbCP' = Ultimo(colaREADY)
    /\ kernelCaido' = (pcbCP' = Nulo)
    /\ pcCP' = "agregarEXEC"
    /\ UNCHANGED <<consola, pcb, contadores, colas, semaforos, hiloLP, pcCQ, socket>>

\* The LAST element of the list, in every algorithm.
SacarREADY ==
    /\ ~kernelCaido
    /\ pcCP = "sacarREADY"
    /\ pcbCP' = Ultimo(colaREADY)
    /\ colaREADY' = SinUltimo(colaREADY)
    /\ kernelCaido' = (pcbCP' = Nulo)
    /\ pcCP' = "agregarEXEC"
    /\ UNCHANGED <<consola, pcb, contadores, colaNEW, colaEXEC, semaforos,
                   hiloLP, pcCQ, socket>>

AgregarEXEC ==
    /\ ~kernelCaido
    /\ pcCP = "agregarEXEC"
    /\ colaEXEC' = Append(colaEXEC, pcbCP)
    /\ pcCP' = "cambiarEstado"
    /\ UNCHANGED <<consola, pcb, contadores, colaNEW, colaREADY, semaforos,
                   hiloLP, pcbCP, pcCQ, kernelCaido, socket>>

CambiarEstadoCP ==
    /\ ~kernelCaido
    /\ pcCP = "cambiarEstado"
    /\ pcb' = [pcb EXCEPT ![pcbCP].estado = "EXEC"]
    /\ pcCP' = "ejecutar"
    /\ UNCHANGED <<consola, contadores, colas, semaforos, hiloLP, pcbCP, pcCQ,
                   kernelCaido, socket>>

\* Mutant: RR goes on to sem_post without recibirPCB_Dispatch.
SinRecibirPCB ==
    CASE Algoritmo = "FIFO"     -> "esperarREADY"
      [] Algoritmo = "RR"       -> "liberar"
      [] Algoritmo = "Feedback" -> "comienzoQuantum"

\* Mutant: FIFO and Feedback receive the PCB too.
SiempreRecibir == "sacarEXEC"

\* What each scheduler does after ejecutarProceso.
TrasEjecutar ==
    CASE Algoritmo = "FIFO"     -> "esperarREADY"
      [] Algoritmo = "RR"       -> "sacarEXEC"
      [] Algoritmo = "Feedback" -> "comienzoQuantum"

\* ejecutarProceso: the PCB goes out as it is at this moment.
EjecutarProceso ==
    /\ ~kernelCaido
    /\ pcCP = "ejecutar"
    /\ aCPU' = Append(aCPU, pcb[pcbCP])
    /\ pcCP' = TrasEjecutar
    /\ UNCHANGED <<consola, pcb, contadores, colas, semaforos, hiloLP, pcbCP,
                   pcCQ, kernelCaido, deCPU>>

\* recibirPCB_Dispatch, RR only: the list first, the socket afterwards.
SacarEXEC ==
    /\ ~kernelCaido
    /\ pcCP = "sacarEXEC"
    /\ pcbCP' = Primero(colaEXEC)
    /\ colaEXEC' = SinPrimero(colaEXEC)
    /\ kernelCaido' = (pcbCP' = Nulo)
    /\ pcCP' = "recibir"
    /\ UNCHANGED <<consola, pcb, contadores, colaNEW, colaREADY, semaforos,
                   hiloLP, pcCQ, socket>>

\* Mutant: the answer is left in the socket for the next PCB.
RecibirSinConsumir ==
    /\ ~kernelCaido
    /\ pcCP = "recibir"
    /\ deCPU # <<>>
    /\ pcb' = [pcb EXCEPT ![pcbCP] = Head(deCPU)]
    /\ pcCP' = "liberar"
    /\ UNCHANGED <<consola, contadores, colas, semaforos, hiloLP, pcbCP, pcCQ,
                   kernelCaido, socket>>

\* deserializarPCB and actualizarPCB: every field of the PCB at hand is
\* overwritten by what came back, whoever it is for.
RecibirPCB ==
    /\ ~kernelCaido
    /\ pcCP = "recibir"
    /\ deCPU # <<>>
    /\ pcb' = [pcb EXCEPT ![pcbCP] = Head(deCPU)]
    /\ deCPU' = Tail(deCPU)
    /\ pcCP' = "liberar"
    /\ UNCHANGED <<consola, contadores, colas, semaforos, hiloLP, pcbCP, pcCQ,
                   kernelCaido, aCPU>>

LiberarEXECUTING ==
    /\ ~kernelCaido
    /\ pcCP = "liberar"
    /\ semaforoProcesoEXECUTING' = semaforoProcesoEXECUTING + 1
    /\ pcCP' = "comienzoQuantum"
    /\ UNCHANGED <<consola, pcb, contadores, colas,
                   despertarPlanificadorLargoPlazo, semaforoProcesoREADY,
                   semaforoComienzoDeQuantum, hiloLP, pcbCP, pcCQ, kernelCaido,
                   socket>>

\* RR goes round; Feedback waits for semaforoFinDeQuantum, which starts at 0
\* and which nothing posts: "esperarFin" has no step.
ComienzoDeQuantum ==
    /\ ~kernelCaido
    /\ pcCP = "comienzoQuantum"
    /\ semaforoComienzoDeQuantum' = semaforoComienzoDeQuantum + 1
    /\ pcCP' = IF Algoritmo = "RR" THEN "esperarREADY" ELSE "esperarFin"
    /\ UNCHANGED <<consola, pcb, contadores, colas,
                   despertarPlanificadorLargoPlazo, semaforoProcesoREADY,
                   semaforoProcesoEXECUTING, hiloLP, pcbCP, pcCQ, kernelCaido,
                   socket>>

CortoPlazo ==
    \/ EsperarREADY \/ EsperarEXECUTING \/ RevisarColaDeREADY \/ SacarREADY
    \/ AgregarEXEC \/ CambiarEstadoCP \/ EjecutarProceso \/ SacarEXEC
    \/ RecibirPCB \/ LiberarEXECUTING \/ ComienzoDeQuantum

-----------------------------------------------------------------------------
(* hiloContadorQuantum: waits, sleeps, and sends no interrupt *)

EsperarQuantum ==
    /\ ~kernelCaido
    /\ pcCQ = "esperar"
    /\ semaforoComienzoDeQuantum > 0
    /\ semaforoComienzoDeQuantum' = semaforoComienzoDeQuantum - 1
    /\ pcCQ' = "dormir"
    /\ UNCHANGED <<consola, pcb, contadores, colas,
                   despertarPlanificadorLargoPlazo, semaforoProcesoREADY,
                   semaforoProcesoEXECUTING, hiloLP, hiloCP, kernelCaido, socket>>

DormirQuantum ==
    /\ ~kernelCaido
    /\ pcCQ = "dormir"
    /\ pcCQ' = "esperar"
    /\ UNCHANGED <<consola, pcb, contadores, colas, semaforos, hiloLP, hiloCP,
                   kernelCaido, socket>>

ContadorQuantum == EsperarQuantum \/ DormirQuantum

-----------------------------------------------------------------------------
(* The CPU (atender_cliente_dispatch), as the kernel sees it *)

CPUContesta ==
    /\ aCPU # <<>>
    /\ \E pid \in PidsCPU :
          deCPU' = Append(deCPU, [Head(aCPU) EXCEPT !.pid = pid])
    /\ aCPU' = Tail(aCPU)
    /\ UNCHANGED <<consola, pcb, contadores, colas, semaforos, hiloLP, hiloCP,
                   pcCQ, kernelCaido>>

-----------------------------------------------------------------------------
Next ==
    \/ \E p \in Procesos : Consola(p)
    \/ LargoPlazo
    \/ CortoPlazo
    \/ ContadorQuantum
    \/ CPUContesta

\* Threads are scheduled by the operating system and the CPU keeps answering;
\* nothing obliges a console to connect.
Equidad ==
    /\ \A p \in Procesos : WF_vars(AgregarNEW(p) \/ AvisarLargoPlazo(p))
    /\ WF_vars(LargoPlazo)
    /\ WF_vars(CortoPlazo)
    /\ WF_vars(ContadorQuantum)
    /\ WF_vars(CPUContesta)

Spec == Init /\ [][Next]_vars
SpecJusta == Spec /\ Equidad
-----------------------------------------------------------------------------
(* Properties *)

\* Every variable has its type: queues hold processes, semaphores are natural.
TypeOK ==
    /\ consola \in [Procesos -> PasosConsola]
    /\ pcb \in [Procesos -> PCB]
    /\ contadorIDProcesos \in Nat /\ contadorProcesosEnMemoria \in Nat
    /\ colaNEW \in Seq(Procesos)
    /\ colaREADY \in Seq(Procesos)
    /\ colaEXEC \in Seq(Procesos)
    /\ despertarPlanificadorLargoPlazo \in Nat
    /\ semaforoProcesoREADY \in Nat
    /\ semaforoProcesoEXECUTING \in Nat
    /\ semaforoComienzoDeQuantum \in Nat
    /\ pcLP \in PasosLP /\ pcbLP \in Procesos \cup {Nulo}
    /\ pcCP \in PasosCP /\ pcbCP \in Procesos \cup {Nulo}
    /\ pcCQ \in {"esperar", "dormir"}
    /\ kernelCaido \in BOOLEAN
    /\ aCPU \in Seq(PCB) /\ deCPU \in Seq(PCB)

Uno(condicion) == IF condicion THEN 1 ELSE 0

\* The wake-ups of the long-term scheduler not yet spent: posted, taken by the
\* scheduler, or about to be posted by a console.
Avisando == {p \in Procesos : consola[p] = "avisar"}
AvisosPendientes ==
    despertarPlanificadorLargoPlazo + Uno(pcLP \in {"evaluar", "sacarNEW"})
        + Cardinality(Avisando)

\* The admitted: past colaNEW, wherever they are now.
Llegados == {p \in Procesos : consola[p] \in {"avisar", "fin"}}
Admitidos == Llegados \ Range(colaNEW)

\* The PCB the short-term scheduler has taken and not finished with.
EnCP == pcCP \notin {"esperarREADY", "esperarEXECUTING", "revisar", "sacarREADY",
                     "liberar", "comienzoQuantum", "esperarFin"}

\* No scheduler thread ever takes a PCB from an empty list: the kernel does not
\* check the NULL it would get (queue_pop, list_get) and would die of it.
SinCaida == ~kernelCaido

\* A process in colaNEW has a wake-up on its way as long as there is room: the
\* long-term scheduler throws wake-ups away only when the degree is reached.
\* (sem_wait, evaluarGradoDeMultiprogramacion and queue_pop are three steps.)
AvisosDeNEW ==
    /\ AvisosPendientes <= Len(colaNEW)
    /\ contadorProcesosEnMemoria < GradoMax => AvisosPendientes = Len(colaNEW)

\* semaforoProcesoREADY counts colaREADY exactly, but for the PCB just added
\* and the one a short-term scheduler has claimed and not yet taken.
AvisosDeREADY ==
    Len(colaREADY) = semaforoProcesoREADY + Uno(pcLP = "avisarREADY")
        + Uno(pcCP \in {"esperarEXECUTING", "revisar", "sacarREADY"})

\* The degree of multiprogramming is never exceeded, though the counter is read
\* three critical sections before it is incremented (planificadorLargoPlazo).
GradoRespetado == Cardinality(Admitidos) <= GradoMax

\* The CPU never holds two PCBs, nor does colaEXEC, and a PCB between the
\* dispatch and its answer is the one the short-term scheduler waits for.
UnSoloEnCPU ==
    /\ Len(aCPU) + Len(deCPU) + Uno(pcCP \in {"agregarEXEC", "cambiarEstado", "ejecutar"}) <= 1
    /\ Len(colaEXEC) <= 1
    /\ pcCP = "recibir" => Len(aCPU) + Len(deCPU) = 1

\* No PCB is in two lists, twice in one, or in a list and in a scheduler's hand.
CadaProcesoEnUnLugar ==
    /\ IsInjective(colaNEW) /\ IsInjective(colaREADY) /\ IsInjective(colaEXEC)
    /\ Range(colaNEW) \cap Range(colaREADY) = {}
    /\ Range(colaNEW) \cap Range(colaEXEC) = {}
    /\ Range(colaREADY) \cap Range(colaEXEC) = {}
    /\ pcLP = "agregarREADY" =>
          pcbLP \notin Range(colaNEW) \cup Range(colaREADY) \cup Range(colaEXEC)
    /\ EnCP => pcbCP \notin Range(colaNEW) \cup Range(colaREADY)
    /\ pcLP = "agregarREADY" /\ EnCP => pcbLP # pcbCP

\* A PCB keeps its own program across the round trip to the CPU: the answer is
\* paired with the head of colaEXEC by position, never by pid.
ProgramaConservado == \A p \in Procesos : pcb[p].instrucciones = p

-----------------------------------------------------------------------------
(* The abstract life cycle this implements *)

Fase(p) ==
    CASE consola[p] \in {"crear", "agregarNEW"} -> "fuera"
      [] p \in Range(colaNEW) -> "nuevo"
      [] p \in Range(colaREADY) \/ (pcLP = "agregarREADY" /\ pcbLP = p) -> "listo"
      [] p \in Range(colaEXEC) \/ (EnCP /\ pcbCP = p) -> "ejecutando"
      [] OTHER -> "devuelto"

\* The PCBs whose pid is still the one crearPCB gave them.
ConPid == {p \in Procesos : consola[p] # "crear" /\ Fase(p) # "devuelto"}

\* The CPU writes a pid of its own in what it returns, and actualizarPCB takes it
\* (kernel.c:774). Only the process that comes back loses its pid to that: from
\* crearPCB to the answer the pid is one the counter gave, and no two processes
\* between those points share it, wherever their threads and the lists are.
PidsDistintos ==
    /\ \A p \in ConPid : pcb[p].pid \in 0..(contadorIDProcesos - 1)
    /\ \A p, q \in ConPid : p # q => pcb[p].pid # pcb[q].pid

Ciclo == INSTANCE CicloDeVida WITH
            fase <- [p \in Procesos |-> Fase(p)], nuevos <- colaNEW

\* Every step of the kernel's threads is a step of the life cycle or changes
\* nothing of it: arrival order, degree, one at a time, no way back, no loss.
CicloSeguro == Ciclo!Spec

\* With RR the kernel keeps the life cycle's liveness too: while there is room
\* nobody waits in NEW forever, and every admitted process executes and returns.
CicloJusto == Ciclo!SpecJusta

\* FIFO and Feedback never post semaforoProcesoEXECUTING again (kernel.c:561,
\* kernel.c:678): whoever they dispatch stays in execution, and since there is
\* one in execution at most (UnSoloEnCPU) it is the only one they ever dispatch.
SoloRRDevuelve == Algoritmo # "RR" => \A p \in Procesos : Fase(p) # "devuelto"

-----------------------------------------------------------------------------
(* The inductive invariant: what each part of the state says of the others *)

\* While the kernel lives, a scheduler that holds a PCB holds a real one.
PunterosValidos ==
    ~kernelCaido =>
       /\ pcLP \in {"agregarREADY", "avisarREADY", "sumar", "cambiarEstado"} =>
             pcbLP \in Procesos
       /\ pcCP \in {"agregarEXEC", "cambiarEstado", "ejecutar", "recibir"} =>
             pcbCP \in Procesos

\* semaforoProcesoEXECUTING, the short-term scheduler, colaEXEC and the socket
\* agree on whether there is a PCB in execution and where it is.
EnVuelo == Len(aCPU) + Len(deCPU)
Exclusion ==
    /\ semaforoProcesoEXECUTING <= 1 /\ Len(colaEXEC) <= 1 /\ EnVuelo <= 1
    /\ semaforoProcesoEXECUTING = 1 =>
          pcCP \in {"esperarREADY", "esperarEXECUTING", "comienzoQuantum", "esperarFin"}
    /\ semaforoProcesoEXECUTING = 1
       \/ pcCP \in {"revisar", "sacarREADY", "agregarEXEC", "liberar"} =>
          colaEXEC = <<>> /\ EnVuelo = 0
    /\ pcCP \in {"cambiarEstado", "ejecutar"} => colaEXEC = <<pcbCP>> /\ EnVuelo = 0
    /\ pcCP = "sacarEXEC" => colaEXEC = <<pcbCP>> /\ EnVuelo = 1
    /\ pcCP = "recibir" => colaEXEC = <<>> /\ EnVuelo = 1

\* While RR waits, whatever is in the socket is the program it dispatched.
MensajePropio ==
    pcCP \in {"sacarEXEC", "recibir"} =>
       /\ \A i \in DOMAIN aCPU : aCPU[i].instrucciones = pcbCP
       /\ \A i \in DOMAIN deCPU : deCPU[i].instrucciones = pcbCP

\* Only processes whose console queued them are in the schedulers' structures.
SoloLlegados ==
    /\ Range(colaNEW) \cup Range(colaREADY) \cup Range(colaEXEC) \subseteq Llegados
    /\ pcLP = "agregarREADY" => pcbLP \in Llegados
    /\ EnCP => pcbCP \in Llegados

\* The counter lags behind the admitted by the one the long-term scheduler is
\* admitting, and that one was checked for.
CuentaAlDia ==
    /\ contadorProcesosEnMemoria + Uno(pcLP \in {"agregarREADY", "avisarREADY", "sumar"})
         = Cardinality(Admitidos)
    /\ contadorProcesosEnMemoria <= GradoMax
    /\ pcLP \in {"sacarNEW", "agregarREADY", "avisarREADY", "sumar"} =>
          contadorProcesosEnMemoria < GradoMax

Tipos == TypeOK /\ PunterosValidos
Turnos == AvisosDeNEW /\ AvisosDeREADY /\ Exclusion /\ SinCaida
Inductivo ==
    /\ Tipos /\ Turnos
    /\ ProgramaConservado /\ MensajePropio
    /\ CadaProcesoEnUnLugar /\ SoloLlegados
    /\ CuentaAlDia
    /\ PidsDistintos
=============================================================================
