------------------------------ MODULE FlujoDispatch ------------------------------
(***************************************************************************)
(* socket_dispatch byte by byte, as round robin uses it. The kernel's      *)
(* short-term scheduler sends a PCB (ejecutarProceso, serializarPCB) and   *)
(* takes the answer with one recv per field (recibirPCB_Dispatch); the CPU *)
(* does the reverse (atender_cliente_dispatch). The network delivers the   *)
(* bytes in order and in pieces of any size; with MSG_WAITALL a recv       *)
(* returns when all its bytes are there.                                   *)
(***************************************************************************)
EXTENDS Flujo

CONSTANTS
    Programas,    \* the PCBs the kernel dispatches
    Respuestas,   \* the returns the CPU chooses from
    PidDeLaCPU,   \* the pid the CPU writes in the PCB
    Nulo

Segmentos == [idSegmento : Int, tamanioSegmentos : Int, indiceTablaDePaginas : Int]
Registros == [AX : Int, BX : Int, CX : Int, DX : Int]
PCBs == [pid : Nat, estado : 0..4, instrucciones : Seq(Textos), program_counter : Nat,
         registros_cpu : Registros, t_segmentos : Seq(Segmentos)]

\* A return has the operands of its reason.
EsRetorno(r) ==
    /\ r \in [motivo : Int, carga : Seq(Int \cup Textos)]
    /\ r.motivo = IO => Len(r.carga) = 2 /\ r.carga[1] \in Textos /\ r.carga[2] \in Int
    /\ r.motivo = PAGEFAULT => Len(r.carga) = 1 /\ r.carga[1] \in Int
    /\ r.motivo \notin {IO, PAGEFAULT} => r.carga = <<>>

\* What the CPU may answer.
Devueltos == {[pcb |-> [p EXCEPT !.pid = PidDeLaCPU], motivo |-> r] :
                 p \in Programas, r \in Respuestas}

ASSUME ProgramasSonPCBs == Programas \subseteq PCBs
ASSUME RespuestasSonRetornos == \A r \in Respuestas : EsRetorno(r)
ASSUME PidNatural == PidDeLaCPU \in Nat
ASSUME NuloAparte == Nulo \notin Programas \cup Devueltos

VARIABLES
    pcKernel,               \* where the short-term scheduler is
    pcbKernel,              \* the PCB it dispatched, then brought up to date
    leidosKernel,           \* the recv's done of the answer, as bytes
    redACPU, llegadoACPU,   \* bytes sent and not delivered, delivered and not read
    redAKernel, llegadoAKernel,
    pcCPU, pcbActual, leidosCPU

kernel == <<pcKernel, pcbKernel, leidosKernel>>
cpu == <<pcCPU, pcbActual, leidosCPU>>
haciaCPU == <<redACPU, llegadoACPU>>
haciaKernel == <<redAKernel, llegadoAKernel>>
vars == <<kernel, cpu, haciaCPU, haciaKernel>>

Valores(leidos) == [k \in DOMAIN leidos |-> Valor(leidos[k])]

\* A recv(..., n, MSG_WAITALL) on what was delivered.
Alcanza(llegado, n) == n > 0 /\ Len(llegado) >= n
Primeros(llegado, n) == SubSeq(llegado, 1, n)
Resto(llegado, n) == SubSeq(llegado, n + 1, Len(llegado))

Init ==
    /\ pcKernel = "ejecutar" /\ pcbKernel = Nulo /\ leidosKernel = <<>>
    /\ pcCPU = "recibir" /\ pcbActual = Nulo /\ leidosCPU = <<>>
    /\ redACPU = <<>> /\ llegadoACPU = <<>>
    /\ redAKernel = <<>> /\ llegadoAKernel = <<>>

-----------------------------------------------------------------------------
(* The kernel *)

\* ejecutarProceso
EjecutarProceso ==
    /\ pcKernel = "ejecutar"
    /\ \E p \in Programas :
          /\ pcbKernel' = p
          /\ redACPU' = redACPU \o SerializarPCB(p)
    /\ pcKernel' = "recibirPCB"
    /\ UNCHANGED <<leidosKernel, cpu, llegadoACPU, haciaKernel>>

\* One recv of deserializarPCB; actualizarPCB follows the last one, before the
\* reason is known.
RecibirCampo ==
    /\ pcKernel = "recibirPCB"
    /\ LET n == BytesDelProximo(Valores(leidosKernel))
           leidos == Append(leidosKernel, Primeros(llegadoAKernel, n))
       IN  /\ Alcanza(llegadoAKernel, n)
           /\ llegadoAKernel' = Resto(llegadoAKernel, n)
           /\ leidosKernel' = leidos
           /\ IF PCBCompleto(Valores(leidos))
              THEN /\ pcbKernel' = PCBLeido(Valores(leidos))
                   /\ pcKernel' = "recibirMotivo"
              ELSE UNCHANGED <<pcbKernel, pcKernel>>
    /\ UNCHANGED <<cpu, haciaCPU, redAKernel>>

\* What has been read after the PCB: the reason and its operands.
TrasPCB(l) == SubSeq(l, HastaPCB(l) + 1, Len(l))

\* Mutant: the page of a page fault is not read.
OperandosSinPagina(motivo) == IF motivo = IO THEN 3 ELSE 0

\* The recv's each branch of recibirPCB_Dispatch does.
Operandos(motivo) ==
    CASE motivo = IO -> 3
      [] motivo = PAGEFAULT -> 1
      [] OTHER -> 0

MotivoCompleto(m) == m # <<>> /\ Len(m) = 1 + Operandos(m[1])

\* In an IO the second recv is the length of the third.
BytesDelMotivo(m) ==
    IF Len(m) = 2 /\ m[1] = IO THEN m[2] ELSE TamanioInt

RecibirMotivo ==
    /\ pcKernel = "recibirMotivo"
    /\ LET n == BytesDelMotivo(TrasPCB(Valores(leidosKernel)))
           leidos == Append(leidosKernel, Primeros(llegadoAKernel, n))
       IN  /\ Alcanza(llegadoAKernel, n)
           /\ llegadoAKernel' = Resto(llegadoAKernel, n)
           /\ leidosKernel' = leidos
           /\ pcKernel' = IF MotivoCompleto(TrasPCB(Valores(leidos)))
                          THEN "liberar" ELSE "recibirMotivo"
    /\ UNCHANGED <<pcbKernel, cpu, haciaCPU, redAKernel>>

\* The end of recibirPCB_Dispatch and of the scheduler's round.
Liberar ==
    /\ pcKernel = "liberar"
    /\ pcKernel' = "ejecutar"
    /\ pcbKernel' = Nulo
    /\ leidosKernel' = <<>>
    /\ UNCHANGED <<cpu, haciaCPU, haciaKernel>>

-----------------------------------------------------------------------------
(* The CPU *)

RecibirCampoCPU ==
    /\ pcCPU = "recibir"
    /\ LET n == BytesDelProximo(Valores(leidosCPU))
           leidos == Append(leidosCPU, Primeros(llegadoACPU, n))
       IN  /\ Alcanza(llegadoACPU, n)
           /\ llegadoACPU' = Resto(llegadoACPU, n)
           /\ IF PCBCompleto(Valores(leidos))
              THEN /\ pcbActual' = PCBLeido(Valores(leidos))
                   /\ leidosCPU' = <<>>
                   /\ pcCPU' = "responder"
              ELSE /\ leidosCPU' = leidos
                   /\ UNCHANGED <<pcbActual, pcCPU>>
    /\ UNCHANGED <<kernel, redACPU, haciaKernel>>

\* "pcbActual->pid = 23", then one serializer and one send.
Responder ==
    /\ pcCPU = "responder"
    /\ pcbActual' = [pcbActual EXCEPT !.pid = PidDeLaCPU]
    /\ \E r \in Respuestas : redAKernel' = redAKernel \o Devolver(pcbActual', r)
    /\ pcCPU' = "recibir"
    /\ UNCHANGED <<kernel, leidosCPU, haciaCPU, llegadoAKernel>>

-----------------------------------------------------------------------------
(* The network: a piece of any size is some number of these steps *)

EntregarACPU ==
    /\ redACPU # <<>>
    /\ llegadoACPU' = Append(llegadoACPU, Head(redACPU))
    /\ redACPU' = Tail(redACPU)
    /\ UNCHANGED <<kernel, cpu, haciaKernel>>

EntregarAKernel ==
    /\ redAKernel # <<>>
    /\ llegadoAKernel' = Append(llegadoAKernel, Head(redAKernel))
    /\ redAKernel' = Tail(redAKernel)
    /\ UNCHANGED <<kernel, cpu, haciaCPU>>

Next ==
    \/ EjecutarProceso \/ RecibirCampo \/ RecibirMotivo \/ Liberar
    \/ RecibirCampoCPU \/ Responder
    \/ EntregarACPU \/ EntregarAKernel

\* TCP delivers what was sent, and neither end stops reading.
Spec ==
    /\ Init /\ [][Next]_vars
    /\ WF_vars(RecibirCampo \/ RecibirMotivo)
    /\ WF_vars(RecibirCampoCPU \/ Responder)
    /\ WF_vars(EntregarACPU) /\ WF_vars(EntregarAKernel)
-----------------------------------------------------------------------------
(* Properties *)

\* Every PCB that either side holds is one: no pid, state or instruction made
\* of the bytes of another field.
TypeOK ==
    /\ pcKernel \in {"ejecutar", "recibirPCB", "recibirMotivo", "liberar"}
    /\ pcCPU \in {"recibir", "responder"}
    /\ pcbKernel \in PCBs \cup {Nulo}
    /\ pcbActual \in PCBs \cup {Nulo}

\* No recv ever returns half a field, or pieces of two, however the network
\* cuts the stream.
CamposEnteros ==
    /\ \A k \in DOMAIN leidosKernel : EsUnCampo(leidosKernel[k])
    /\ \A k \in DOMAIN leidosCPU : EsUnCampo(leidosCPU[k])

\* When one side has finished with a message nothing of it is left in the
\* stream, to be taken for the beginning of the next.
SinSobrantes ==
    /\ pcKernel \in {"ejecutar", "liberar"} => llegadoAKernel \o redAKernel = <<>>
    /\ pcCPU = "responder" => llegadoACPU \o redACPU = <<>>

\* The PCB, or the answer, of which those bytes are the message.
Mensajes == [p \in Programas |-> SerializarPCB(p)]
Mensaje(bytes) == CHOOSE p \in Programas : Mensajes[p] = bytes
BytesACPU == Concatenar(leidosCPU) \o llegadoACPU \o redACPU
BytesAKernel ==
    (IF pcKernel \in {"recibirPCB", "recibirMotivo"} THEN Concatenar(leidosKernel) ELSE <<>>)
        \o llegadoAKernel \o redAKernel
Devoluciones == [d \in Devueltos |-> Devolver(d.pcb, d.motivo)]
Devolucion(bytes) == CHOOSE d \in Devueltos : Devoluciones[d] = bytes

\* The answer the kernel read, from the values of its recv's.
MotivoLeido ==
    LET m == TrasPCB(Valores(leidosKernel))
    IN  [motivo |-> m[1],
         carga |-> CASE m[1] = IO -> <<m[3], m[4]>>
                     [] m[1] = PAGEFAULT -> <<m[2]>>
                     [] OTHER -> <<>>]

Canal == INSTANCE Dispatch WITH
            enCPU <- IF pcCPU = "responder" THEN pcbActual
                     ELSE IF BytesACPU = <<>> THEN Nulo ELSE Mensaje(BytesACPU),
            devuelto <- IF BytesAKernel = <<>> THEN Nulo
                        ELSE Devolucion(BytesAKernel),
            recibido <- IF pcKernel = "liberar"
                        THEN [pcb |-> pcbKernel, motivo |-> MotivoLeido] ELSE Nulo

\* Byte by byte, the two processes exchange whole PCBs: what the CPU executes
\* is what the kernel dispatched, what the kernel keeps is what the CPU
\* returned with the reason and operands the CPU chose, and every PCB that is
\* dispatched comes back.
ImplementaDispatch == Canal!Spec

\* Its safety half.
DispatchSeguro == Canal!Seguro
=============================================================================
