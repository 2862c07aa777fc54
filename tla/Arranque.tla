-------------------------------- MODULE Arranque --------------------------------
(***************************************************************************)
(* Who finds whom when the processes are started, and what each makes of   *)
(* the end of another: inicializar_servidor, inicializar_cliente and the   *)
(* handshake (src/shared/src/shared_utils.c), main of CPU, Kernel and      *)
(* Consola, and atender_cliente. No result of connect, send or recv is     *)
(* looked at: a connect that failed shows at the first send, which kills,  *)
(* and a recv from a process that ended gives back what was in memory.     *)
(***************************************************************************)
EXTENDS Integers, Sequences, FiniteSets, Functions

CONSTANTS
    Consolas,     \* each connects once
    MaxVidas,     \* how many times Kernel and CPU may be started: a bound
    Configuraciones  \* what kernel.config may say when the kernel is started

Configuracion == [grado : Nat, algoritmo : {"FIFO", "RR", "Feedback"}]

ASSUME VidasNaturales == MaxVidas \in Nat
ASSUME ConfiguracionesConocidas == Configuraciones \subseteq Configuracion
ASSUME ConsolasFinitas == IsFiniteSet(Consolas)

VARIABLES
    pcKernel, vidaKernel,  \* where it is, and which of its lives this is
    servidor,     \* the life of the CPU its connect reached, 0 if refused
    resultado,    \* what handshakeCliente returned
    aKernel,      \* sent by the CPU on this connection and not read
    basura,       \* this life took a PCB made of uninitialized memory
    config,       \* GRADO_MAX_MULTIPROGRAMACION, ALGORITMO_PLANIFICACION
    colaNEW, despertar,  \* created; wake-ups of the long-term scheduler
    enMemoria,    \* contadorProcesosEnMemoria
    listos, enviada, devueltos,  \* processes to dispatch, dispatched, returned
    pcCPU, vidaCPU,
    pendientes,   \* connections of kernels that no accept has taken
    cliente,      \* the life of the kernel that accept took, 0 if none
    aCPU,         \* sent by each life of the kernel and not read
    basuraCPU,
    perdidos,     \* sends each process did on a connection with nobody there
    pcConsola, servidorDe, saludo,  \* of each console
    puerto,       \* this life of the kernel listens where consoles look
    cola, hilo    \* consoles not accepted; the kernel's thread of each

kernel == <<pcKernel, vidaKernel, servidor, resultado, basura>>
admision == <<config, colaNEW, despertar, enMemoria>>
despacho == <<listos, enviada, devueltos>>
procesos == <<admision, despacho>>
cpu == <<pcCPU, vidaCPU, pendientes, cliente, basuraCPU>>
socket == <<aKernel, aCPU, perdidos>>
consolas == <<pcConsola, servidorDe, saludo>>
hilos == <<puerto, cola, hilo>>
vars == <<kernel, procesos, cpu, socket, consolas, hilos>>

Vidas == 1..MaxVidas
Nadie == 0

VivoKernel(k) == k # Nadie /\ k = vidaKernel /\ pcKernel # "apagado"
VivaCPU(v) == v # Nadie /\ v = vidaCPU /\ pcCPU # "apagada"

\* Before the file is read.
SinConfig == [grado |-> 0, algoritmo |-> "RR"]

Init ==
    /\ pcKernel = "apagado" /\ vidaKernel = 0 /\ servidor = Nadie
    /\ resultado = "nada" /\ aKernel = <<>> /\ basura = FALSE
    /\ config = SinConfig /\ colaNEW = <<>> /\ despertar = 0 /\ enMemoria = 0
    /\ listos = {} /\ enviada = {} /\ devueltos = {}
    /\ pcCPU = "apagada" /\ vidaCPU = 0 /\ pendientes = <<>> /\ cliente = Nadie
    /\ aCPU = [k \in Vidas |-> <<>>] /\ basuraCPU = FALSE
    /\ perdidos = [Kernel |-> 0, CPU |-> 0]
    /\ pcConsola = [c \in Consolas |-> "apagada"]
    /\ servidorDe = [c \in Consolas |-> Nadie]
    /\ saludo = [c \in Consolas |-> "nada"]
    /\ puerto = FALSE /\ cola = <<>> /\ hilo = [c \in Consolas |-> "nada"]

-----------------------------------------------------------------------------
(* Ending and starting *)

\* The kernel ends: its variables, its connections, its threads and its PCBs
\* with it. What it had sent to the CPU can still be read.
MuereKernel ==
    /\ pcKernel' = "apagado"
    /\ config' = SinConfig /\ colaNEW' = <<>> /\ despertar' = 0 /\ enMemoria' = 0
    /\ listos' = {} /\ enviada' = {}
    /\ puerto' = FALSE /\ cola' = <<>> /\ hilo' = [c \in Consolas |-> "nada"]
    /\ servidor' = Nadie /\ resultado' = "nada" /\ basura' = FALSE
    /\ aKernel' = <<>> /\ perdidos' = [perdidos EXCEPT !.Kernel = 0]
    /\ UNCHANGED <<vidaKernel, devueltos, aCPU>>

\* The CPU ends, and with it the connections it accepted or not, and what was
\* on them to be read.
MuereCPU ==
    /\ pcCPU' = "apagada"
    /\ pendientes' = <<>> /\ cliente' = Nadie
    /\ aCPU' = [k \in Vidas |-> <<>>]
    /\ basuraCPU' = FALSE /\ perdidos' = [perdidos EXCEPT !.CPU = 0]
    /\ UNCHANGED <<vidaCPU, aKernel>>

\* Whoever runs the system stops a process, or it dies of something that is
\* not in this module.
CaerKernel ==
    /\ pcKernel # "apagado"
    /\ MuereKernel
    /\ UNCHANGED <<cpu, consolas>>

CaerCPU ==
    /\ pcCPU # "apagada"
    /\ MuereCPU
    /\ UNCHANGED <<kernel, procesos, consolas, hilos>>

LevantarKernel ==
    /\ pcKernel = "apagado" /\ vidaKernel < MaxVidas
    /\ vidaKernel' = vidaKernel + 1 /\ pcKernel' = "iniciar"
    /\ config' \in Configuraciones
    /\ UNCHANGED <<servidor, resultado, basura, colaNEW, despertar, enMemoria, despacho, cpu,
                   socket, consolas, hilos>>

LevantarCPU ==
    /\ pcCPU = "apagada" /\ vidaCPU < MaxVidas
    /\ vidaCPU' = vidaCPU + 1 /\ pcCPU' = "iniciar"
    /\ UNCHANGED <<kernel, procesos, pendientes, cliente, basuraCPU, socket, consolas, hilos>>

-----------------------------------------------------------------------------
(* The CPU: main and atender_cliente_dispatch *)

\* inicializar_servidor looks at no result: when the bind of a process started
\* again fails, because connections of the life before linger, its listen takes
\* a port that nobody knows.
PuertoPropio(vida) == IF vida > 1 THEN BOOLEAN ELSE {TRUE}

\* A connect succeeds from the listen on, accepted or not.
Escucha == pcCPU \notin {"apagada", "iniciar", "sorda"}

IniciarCPU ==
    /\ pcCPU = "iniciar"
    /\ \E propio \in PuertoPropio(vidaCPU) : pcCPU' = IF propio THEN "aceptar" ELSE "sorda"
    /\ UNCHANGED <<kernel, procesos, vidaCPU, pendientes, cliente, basuraCPU, socket, consolas, hilos>>

\* The only accept of the CPU; it does not ask whether the kernel still lives.
Aceptar ==
    /\ pcCPU = "aceptar" /\ pendientes # <<>>
    /\ cliente' = Head(pendientes) /\ pendientes' = Tail(pendientes)
    /\ pcCPU' = "saludar"
    /\ UNCHANGED <<kernel, procesos, vidaCPU, basuraCPU, socket, consolas, hilos>>

\* What a recv finds: the next message; nothing yet; or the end of the stream,
\* which leaves in the variable what was there.
Basura == "basura"
Encuentra(mensajes, otroVive) ==
    IF mensajes # <<>> THEN {Head(mensajes)}
    ELSE IF otroVive THEN {} ELSE {Basura}
SinPrimero(mensajes) == IF mensajes = <<>> THEN <<>> ELSE Tail(mensajes)

\* A send to a process that ended is lost; the answer to it is a reset, and the
\* next send kills (the sends of a process are three seconds apart).
SePierde(quien) == perdidos[quien] = 0 /\ perdidos' = [perdidos EXCEPT ![quien] = 1]

\* Mutant: MSG_NOSIGNAL, and nobody looks at the result.
EnviarSinSenal(m) ==
    /\ aKernel' = IF VivoKernel(cliente) THEN Append(aKernel, m) ELSE aKernel
    /\ UNCHANGED perdidos

EnviarAlKernel(m) ==
    \/ VivoKernel(cliente) /\ aKernel' = Append(aKernel, m) /\ UNCHANGED perdidos
    \/ ~VivoKernel(cliente) /\ SePierde("CPU") /\ UNCHANGED aKernel

\* Mutant: the identity of the other server.
EsperadoDispatch == "CPU_DISP"
Esperado == "KERNEL"
Compara(identidad) == IF identidad = Esperado THEN {"OK"}
                      ELSE IF identidad = Basura THEN {"OK", "ERROR"} ELSE {"ERROR"}

\* handshakeServidor: the kernel is told of an error, and served all the same.
AtenderSaludo ==
    /\ pcCPU = "saludar"
    /\ \E identidad \in Encuentra(aCPU[cliente], VivoKernel(cliente)) :
          \E r \in Compara(identidad) : EnviarAlKernel(r)
    /\ aCPU' = [aCPU EXCEPT ![cliente] = SinPrimero(@)]
    /\ pcCPU' = "recibir"
    /\ UNCHANGED <<kernel, procesos, vidaCPU, pendientes, cliente, basuraCPU, consolas, hilos>>

\* Mutant: a recv that does not wait.
RecibirSinEsperar ==
    /\ pcCPU = "recibir"
    /\ basuraCPU' = (basuraCPU \/ aCPU[cliente] = <<>>)
    /\ aCPU' = [aCPU EXCEPT ![cliente] = SinPrimero(@)]
    /\ pcCPU' = "responder"
    /\ UNCHANGED <<kernel, procesos, vidaCPU, pendientes, cliente, aKernel, perdidos, consolas, hilos>>

\* deserializarPCB: at the end of the stream, a PCB of whatever was in memory.
RecibirDelKernel ==
    /\ pcCPU = "recibir"
    /\ \E m \in Encuentra(aCPU[cliente], VivoKernel(cliente)) :
          basuraCPU' = (basuraCPU \/ m = Basura)
    /\ aCPU' = [aCPU EXCEPT ![cliente] = SinPrimero(@)]
    /\ pcCPU' = "responder"
    /\ UNCHANGED <<kernel, procesos, vidaCPU, pendientes, cliente, aKernel, perdidos, consolas, hilos>>

ResponderAlKernel ==
    /\ pcCPU = "responder"
    /\ EnviarAlKernel("PCB")
    /\ pcCPU' = "recibir"
    /\ UNCHANGED <<kernel, procesos, vidaCPU, pendientes, cliente, basuraCPU, aCPU, consolas, hilos>>

\* The handshake, or a PCB, to a kernel that ended: SIGPIPE.
MatarCPU ==
    /\ \/ pcCPU = "saludar" /\ Encuentra(aCPU[cliente], FALSE) # {}
       \/ pcCPU = "responder"
    /\ ~VivoKernel(cliente)
    /\ MuereCPU
    /\ UNCHANGED <<kernel, procesos, consolas, hilos>>

-----------------------------------------------------------------------------
(* The kernel: main, and the short-term scheduler once it is started *)

IniciarKernel ==
    /\ pcKernel = "iniciar"
    /\ puerto' \in PuertoPropio(vidaKernel)
    /\ pcKernel' = "conectar"
    /\ UNCHANGED <<vidaKernel, servidor, resultado, basura, procesos, cpu, socket,
                   consolas, cola, hilo>>

\* Mutant: the identity is not sent, and both wait.
ConectarSinSaludar ==
    /\ pcKernel = "conectar"
    /\ servidor' = IF Escucha THEN vidaCPU ELSE Nadie
    /\ pendientes' = IF Escucha THEN Append(pendientes, vidaKernel) ELSE pendientes
    /\ pcKernel' = IF Escucha THEN "esperarSaludo" ELSE "saludar"
    /\ UNCHANGED <<vidaKernel, resultado, basura, procesos, pcCPU, vidaCPU, cliente,
                   basuraCPU, socket, consolas, hilos>>

\* inicializar_cliente, whose failure is only logged. The interrupt port, where
\* nobody listens, and Memoria are tried too, and nothing is ever sent there.
ConectarDispatch ==
    /\ pcKernel = "conectar"
    /\ servidor' = IF Escucha THEN vidaCPU ELSE Nadie
    /\ pendientes' = IF Escucha THEN Append(pendientes, vidaKernel) ELSE pendientes
    /\ pcKernel' = "saludar"
    /\ UNCHANGED <<vidaKernel, resultado, basura, procesos, pcCPU, vidaCPU, cliente,
                   basuraCPU, socket, consolas, hilos>>

EnviarAlCPU(m) ==
    \/ /\ VivaCPU(servidor)
       /\ aCPU' = [aCPU EXCEPT ![vidaKernel] = Append(@, m)] /\ UNCHANGED perdidos
    \/ /\ ~VivaCPU(servidor) /\ servidor # Nadie
       /\ SePierde("Kernel") /\ UNCHANGED aCPU

SaludarCPU ==
    /\ pcKernel = "saludar"
    /\ EnviarAlCPU("KERNEL")
    /\ pcKernel' = "esperarSaludo"
    /\ UNCHANGED <<vidaKernel, servidor, resultado, basura, procesos, cpu, aKernel, consolas, hilos>>

\* Mutant: the result has no initial value.
RecibirSinInicial ==
    /\ pcKernel = "esperarSaludo"
    /\ resultado' \in Encuentra(aKernel, VivaCPU(servidor))
    /\ aKernel' = SinPrimero(aKernel)
    /\ pcKernel' = "planificar"
    /\ UNCHANGED <<vidaKernel, servidor, basura, procesos, cpu, aCPU, perdidos, consolas, hilos>>

\* Without an answer the result is -1, its initial value.
RecibirSaludo ==
    /\ pcKernel = "esperarSaludo"
    /\ \E r \in Encuentra(aKernel, VivaCPU(servidor)) :
          resultado' = IF r = Basura THEN "ERROR" ELSE r
    /\ aKernel' = SinPrimero(aKernel)
    /\ pcKernel' = "planificar"
    /\ UNCHANGED <<vidaKernel, servidor, basura, procesos, cpu, aCPU, perdidos, consolas, hilos>>

\* iniciar_planificadores and the thread that accepts consoles, whatever the
\* result of the handshake was.
IniciarPlanificadores ==
    /\ pcKernel = "planificar"
    /\ pcKernel' = "despachar"
    /\ UNCHANGED <<vidaKernel, servidor, resultado, basura, procesos, cpu, socket, consolas, hilos>>

EvaluarGrado == enMemoria < config.grado

\* planificadorLargoPlazo, one turn. With the degree reached the wake-up is
\* spent, and the process stays in colaNEW: nobody wakes the scheduler for it.
PlanificadorLargoPlazo ==
    /\ despertar > 0 /\ despertar' = despertar - 1
    /\ \/ /\ EvaluarGrado
          /\ colaNEW' = Tail(colaNEW) /\ listos' = listos \cup {Head(colaNEW)}
          /\ enMemoria' = enMemoria + 1
       \/ ~EvaluarGrado /\ UNCHANGED <<colaNEW, listos, enMemoria>>
    /\ UNCHANGED <<kernel, config, enviada, devueltos, cpu, socket, consolas, hilos>>

\* What each of the three short-term schedulers does next: RR receives; FIFO
\* waits for semaforoProcesoEXECUTING and Feedback for semaforoFinDeQuantum,
\* which nothing posts, and "detenido" has no step.
TrasDespachar == IF config.algoritmo = "RR" THEN "esperarPCB" ELSE "detenido"

Despachar(c) ==
    /\ pcKernel = "despachar" /\ c \in listos
    /\ EnviarAlCPU("PCB")
    /\ listos' = listos \ {c} /\ enviada' = {c}
    /\ pcKernel' = TrasDespachar
    /\ UNCHANGED <<vidaKernel, servidor, resultado, basura, admision, devueltos, cpu, aKernel,
                   consolas, hilos>>

\* Mutant: the semaphore of the process in execution is not posted.
RecibirSinSemaforo ==
    /\ pcKernel = "esperarPCB"
    /\ \E m \in Encuentra(aKernel, VivaCPU(servidor)) :
          /\ basura' = (basura \/ m = Basura)
          /\ devueltos' = IF m = Basura THEN devueltos ELSE devueltos \cup enviada
    /\ aKernel' = SinPrimero(aKernel)
    /\ enviada' = {}
    /\ UNCHANGED <<pcKernel, vidaKernel, servidor, resultado, admision, listos, cpu, aCPU,
                   perdidos, consolas, hilos>>

\* recibirPCB_Dispatch, with the same deserializarPCB.
RecibirPCB ==
    /\ pcKernel = "esperarPCB"
    /\ \E m \in Encuentra(aKernel, VivaCPU(servidor)) :
          /\ basura' = (basura \/ m = Basura)
          /\ devueltos' = IF m = Basura THEN devueltos ELSE devueltos \cup enviada
    /\ aKernel' = SinPrimero(aKernel)
    /\ enviada' = {}
    /\ pcKernel' = "despachar"
    /\ UNCHANGED <<vidaKernel, servidor, resultado, admision, listos, cpu, aCPU, perdidos,
                   consolas, hilos>>

MatarKernel ==
    /\ pcKernel = "saludar" \/ (pcKernel = "despachar" /\ listos # {})
    /\ ~VivaCPU(servidor)
    /\ MuereKernel
    /\ UNCHANGED <<cpu, consolas>>

-----------------------------------------------------------------------------
(* The consoles, and the kernel's threads that attend them *)

\* The kernel listens before it connects to the CPU, and accepts after.
Conectar(c) ==
    /\ pcConsola[c] = "apagada"
    /\ servidorDe' = [servidorDe EXCEPT ![c] = IF puerto THEN vidaKernel ELSE Nadie]
    /\ cola' = IF puerto THEN Append(cola, c) ELSE cola
    /\ pcConsola' = [pcConsola EXCEPT ![c] = "saludar"]
    /\ UNCHANGED <<kernel, procesos, cpu, socket, saludo, puerto, hilo>>

\* A send of console c; to a process that ended, it is lost or it kills.
Enviar(c, despues) ==
    \/ VivoKernel(servidorDe[c]) /\ pcConsola' = [pcConsola EXCEPT ![c] = despues]
    \/ ~VivoKernel(servidorDe[c]) /\ pcConsola' = [pcConsola EXCEPT ![c] = "muerta"]
    \/ ~VivoKernel(servidorDe[c]) /\ servidorDe[c] # Nadie
       /\ pcConsola' = [pcConsola EXCEPT ![c] = despues]

SaludarKernel(c) ==
    /\ pcConsola[c] = "saludar"
    /\ Enviar(c, "esperarSaludo")
    /\ saludo' = [saludo EXCEPT ![c] = "pedido"]
    /\ UNCHANGED <<kernel, procesos, cpu, socket, servidorDe, hilos>>

\* The result is logged, and the program is sent whatever it was.
EsperarSaludo(c) ==
    /\ pcConsola[c] = "esperarSaludo"
    /\ saludo[c] = "respondido" \/ ~VivoKernel(servidorDe[c])
    /\ pcConsola' = [pcConsola EXCEPT ![c] = "enviar"]
    /\ UNCHANGED <<kernel, procesos, cpu, socket, servidorDe, saludo, hilos>>

EnviarPrograma(c) ==
    /\ pcConsola[c] = "enviar"
    /\ Enviar(c, "fin")
    /\ UNCHANGED <<kernel, procesos, cpu, socket, servidorDe, saludo, hilos>>

Planificando == pcKernel \in {"despachar", "esperarPCB", "detenido"}

\* Mutant: one variable for the socket of every thread, which finds the last.
AceptarCompartido ==
    /\ Planificando /\ cola # <<>>
    /\ hilo' = [hilo EXCEPT ![cola[Len(cola)]] = "saludo"]
    /\ cola' = <<>>
    /\ UNCHANGED <<kernel, procesos, cpu, socket, consolas, puerto>>

AceptarConsola ==
    /\ Planificando /\ cola # <<>>
    /\ hilo' = [hilo EXCEPT ![Head(cola)] = "saludo"]
    /\ cola' = Tail(cola)
    /\ UNCHANGED <<kernel, procesos, cpu, socket, consolas, puerto>>

AtenderConsola(c) ==
    /\ hilo[c] = "saludo" /\ saludo[c] = "pedido"
    /\ saludo' = [saludo EXCEPT ![c] = "respondido"]
    /\ hilo' = [hilo EXCEPT ![c] = "recibir"]
    /\ UNCHANGED <<kernel, procesos, cpu, socket, pcConsola, servidorDe, puerto, cola>>

\* The program arrives whole (Envio has the rest); its process goes to colaNEW
\* and the long-term scheduler is woken.
CrearProceso(c) ==
    /\ hilo[c] = "recibir" /\ pcConsola[c] = "fin"
    /\ colaNEW' = Append(colaNEW, c) /\ despertar' = despertar + 1
    /\ hilo' = [hilo EXCEPT ![c] = "creado"]
    /\ UNCHANGED <<kernel, config, enMemoria, despacho, cpu, socket, consolas, puerto, cola>>

-----------------------------------------------------------------------------

SiguienteCPU == \/ IniciarCPU \/ Aceptar \/ AtenderSaludo \/ RecibirDelKernel
                \/ ResponderAlKernel \/ MatarCPU
SiguienteKernel == \/ IniciarKernel \/ ConectarDispatch \/ SaludarCPU \/ RecibirSaludo
                   \/ IniciarPlanificadores \/ (\E c \in Consolas : Despachar(c))
                   \/ RecibirPCB \/ MatarKernel
SiguienteHilo(c) == AtenderConsola(c) \/ CrearProceso(c)
SiguienteConsola(c) == SaludarKernel(c) \/ EsperarSaludo(c) \/ EnviarPrograma(c)
Operador == \/ CaerKernel \/ CaerCPU \/ LevantarKernel \/ LevantarCPU
            \/ \E c \in Consolas : Conectar(c)

Next == \/ SiguienteCPU \/ SiguienteKernel \/ PlanificadorLargoPlazo
        \/ AceptarConsola \/ Operador
        \/ \E c \in Consolas : SiguienteHilo(c) \/ SiguienteConsola(c)

\* A thread that can go on does; nobody has to start or to stop a process.
Fairness ==
    /\ WF_vars(SiguienteCPU) /\ WF_vars(SiguienteKernel)
    /\ WF_vars(PlanificadorLargoPlazo) /\ WF_vars(AceptarConsola)
    /\ \A c \in Consolas : WF_vars(SiguienteHilo(c)) /\ WF_vars(SiguienteConsola(c))

Spec == Init /\ [][Next]_vars /\ Fairness

-----------------------------------------------------------------------------
(* Properties *)

Saludos == {"nada", "OK", "ERROR"}

DelCPU == {"OK", "ERROR", "PCB"}
DelKernel == {"KERNEL", "PCB"}

TipoKernel ==
    /\ pcKernel \in {"apagado", "iniciar", "conectar", "saludar", "esperarSaludo",
                     "planificar", "despachar", "esperarPCB", "detenido"}
    /\ vidaKernel \in 0..MaxVidas /\ servidor \in 0..MaxVidas
    /\ resultado \in Saludos
TipoProcesos ==
    /\ config \in Configuracion /\ colaNEW \in Seq(Consolas)
    /\ despertar \in 0..Len(colaNEW) /\ enMemoria \in Nat
    /\ listos \subseteq Consolas /\ enviada \subseteq Consolas /\ devueltos \subseteq Consolas
TipoCPU ==
    /\ pcCPU \in {"apagada", "iniciar", "sorda", "aceptar", "saludar", "recibir", "responder"}
    /\ vidaCPU \in 0..MaxVidas /\ cliente \in 0..MaxVidas
    /\ pendientes \in Seq(Vidas)
TipoSocket ==
    /\ aKernel \in Seq(DelCPU) /\ aCPU \in [Vidas -> Seq(DelKernel)]
    /\ perdidos \in [{"Kernel", "CPU"} -> 0..1]
TipoConsolas ==
    /\ pcConsola \in [Consolas -> {"apagada", "saludar", "esperarSaludo", "enviar", "fin", "muerta"}]
    /\ servidorDe \in [Consolas -> 0..MaxVidas]
    /\ saludo \in [Consolas -> {"nada", "pedido", "respondido"}]
TipoHilos ==
    /\ cola \in Seq(Consolas)
    /\ hilo \in [Consolas -> {"nada", "saludo", "recibir", "creado"}]
TipoSiNo == basura \in BOOLEAN /\ basuraCPU \in BOOLEAN /\ puerto \in BOOLEAN

\* Where each process is, and what each connection may carry: the kernel never
\* takes a PCB, nor garbage, for the answer to its handshake.
TypeOK == /\ TipoKernel /\ TipoProcesos /\ TipoCPU /\ TipoSocket /\ TipoConsolas /\ TipoHilos
          /\ TipoSiNo

\* A PCB made of uninitialized memory is only taken from a process that ended:
\* while both live, every deserializarPCB reads what the other serialized.
SinBasura ==
    /\ basura => ~VivaCPU(servidor)
    /\ basuraCPU => ~VivoKernel(cliente)

\* The kernel never looks at the result of its handshake; all the same, when it
\* schedules and the CPU it reached lives, that CPU accepted this kernel and no
\* former one, and answered OK.
SaludoFiel ==
    pcKernel = "planificar" \/ Planificando =>
        (VivaCPU(servidor) => resultado = "OK" /\ cliente = vidaKernel)

\* A kernel that was started ends up scheduling or ends: a CPU that accepted a
\* former kernel, or has not accepted yet, does not hold it for ever.
ArranqueTermina == pcKernel = "conectar" ~> (Planificando \/ pcKernel = "apagado")

\* The CPU accepts once; what frees the port for a kernel started again is that
\* it does not outlive the kernel it accepted: a send kills it.
CPUNoSobrevive == (cliente # Nadie /\ ~VivoKernel(cliente)) ~> pcCPU = "apagada"

\* A console that was started ends, whether its kernel accepts it late, ends
\* before it answers, or never was there.
ConsolaTermina ==
    \A c \in Consolas : pcConsola[c] = "saludar" ~> pcConsola[c] \in {"fin", "muerta"}

\* Left in colaNEW, since as many as the degree were admitted before it.
SinLugar(c) == c \in Range(colaNEW) /\ enMemoria = config.grado

\* With round robin, a program that was sent to a living kernel is run by the
\* CPU and returned, unless one of them ends or the degree was filled by those
\* that were admitted before (kernel.c:473). With FIFO and Feedback no program
\* is ever returned (Planificador has why), and nothing is claimed.
ProgramaServido ==
    \A c \in Consolas :
        (pcConsola[c] = "fin" /\ VivoKernel(servidorDe[c]) /\ config.algoritmo = "RR") ~>
            (c \in devueltos \/ SinLugar(c)
             \/ ~VivoKernel(servidorDe[c]) \/ ~VivaCPU(servidor))

=============================================================================
