--------------------------------- MODULE Flujo ---------------------------------
(***************************************************************************)
(* A PCB as the bytes that cross socket_dispatch: what the serializers of  *)
(* src/shared/src/shared_utils.c put in a message, and what deserializarPCB*)
(* takes out of the stream, one recv at a time. A TCP stream has no        *)
(* messages: both ends agree on where a PCB begins and ends only as long   *)
(* as every recv asks for exactly the bytes of the field it is about.      *)
(***************************************************************************)
EXTENDS Integers, Sequences, SequencesExt

CONSTANTS
    Textos,   \* the strings that travel: instructions and device names
    Largo     \* strlen + 1 of each

ASSUME LargosPositivos == Largo \in [Textos -> Nat \ {0}]

\* sizeof(int), sizeof(uint32_t) and the size of every enum.
TamanioInt == 4

\* op_code and motivo
PCB == 2
QUANTUM == 2
PAGEFAULT == 3
IO == 4
FINALIZAR == 5

\* A byte is a value and its place in the field, 0 for the last one, so a field
\* that is read from the wrong place, or only a part of it, is told apart from
\* every value.
Bytes(valor, n) == [k \in 1..(n - 1) |-> <<valor, k>>] \o << <<valor, 0>> >>
Entero(n) == Bytes(n, TamanioInt)
Texto(t) == Bytes(t, Largo[t])

\* All the bytes of one field, from its first to its last.
EsUnCampo(trozo) == trozo = Bytes(trozo[1][1], Len(trozo))

\* The value of a field read as those bytes; Basura, some int that no field was
\* given, when they are not the bytes of one field.
Basura == -99
Valor(trozo) == IF EsUnCampo(trozo) THEN trozo[1][1] ELSE Basura

-----------------------------------------------------------------------------
(* Serializers *)

\* The length of the string, then its characters, the final zero with them.
Instruccion(t) == Entero(Largo[t]) \o Texto(t)

Segmento(s) == Entero(s.idSegmento) \o Entero(s.tamanioSegmentos)
                   \o Entero(s.indiceTablaDePaginas)

Concatenar(trozos) == FlattenSeq(trozos)

\* What the four serializers have in common, written out in each of them.
CamposPCB(p) ==
    Entero(PCB) \o Entero(p.pid) \o Entero(p.estado)
        \o Entero(Len(p.instrucciones))
        \o Concatenar([i \in DOMAIN p.instrucciones |-> Instruccion(p.instrucciones[i])])
        \o Entero(p.program_counter)
        \o Entero(p.registros_cpu.AX) \o Entero(p.registros_cpu.BX)
        \o Entero(p.registros_cpu.CX) \o Entero(p.registros_cpu.DX)
        \o Entero(Len(p.t_segmentos))
        \o Concatenar([i \in DOMAIN p.t_segmentos |-> Segmento(p.t_segmentos[i])])

\* Kernel to CPU.
SerializarPCB(p) == CamposPCB(p)

\* CPU to kernel: the reason comes after the PCB, and its operands after it.
DevolverConMotivo(p, motivo) == CamposPCB(p) \o Entero(motivo)

DevolverPorIO(p, dispositivo, cantidad) ==
    CamposPCB(p) \o Entero(IO) \o Instruccion(dispositivo) \o Entero(cantidad)

DevolverPorPAGEFAULT(p, pagina) ==
    CamposPCB(p) \o Entero(PAGEFAULT) \o Entero(pagina)

\* The serializer for each reason; a return is its reason and its operands.
Devolver(p, r) ==
    CASE r.motivo = IO -> DevolverPorIO(p, r.carga[1], r.carga[2])
      [] r.motivo = PAGEFAULT -> DevolverPorPAGEFAULT(p, r.carga[1])
      [] OTHER -> DevolverConMotivo(p, r.motivo)

-----------------------------------------------------------------------------
(* deserializarPCB: a sequence of recv, where the counts and lengths that   *)
(* arrived say how many follow and how long they are. "l" is what has been  *)
(* received of the message so far, a value for each recv.                   *)

Vueltas(n) == IF n > 0 THEN n ELSE 0

\* After op_code, pid, estado and cantInstr come a length and a text for each
\* instruction, the program counter, four registers and cantSegmentos, and
\* three ints for each segment.
HastaCantInstr == 4
HastaInstrucciones(l) == HastaCantInstr + 2 * Vueltas(l[HastaCantInstr])
HastaCantSegmentos(l) == HastaInstrucciones(l) + 6
HastaPCB(l) == HastaCantSegmentos(l) + 3 * Vueltas(l[HastaCantSegmentos(l)])

PCBCompleto(l) ==
    /\ Len(l) >= HastaCantInstr
    /\ Len(l) >= HastaCantSegmentos(l)
    /\ Len(l) = HastaPCB(l)

\* The next recv is the text of an instruction: its length has just arrived.
SigueTexto(l) ==
    /\ Len(l) > HastaCantInstr
    /\ Len(l) < HastaInstrucciones(l)
    /\ (Len(l) - HastaCantInstr) % 2 = 1

\* Mutant: strlen bytes of a text that was sent with its final zero.
BytesSinElCero(l) == IF SigueTexto(l) THEN l[Len(l)] - 1 ELSE TamanioInt
BytesDelProximo(l) == IF SigueTexto(l) THEN l[Len(l)] ELSE TamanioInt

\* Mutant: the lengths in the place of the texts.
LargosLeidos(l) ==
    [k \in 1..Vueltas(l[HastaCantInstr]) |-> l[HastaCantInstr + 2 * k - 1]]
InstruccionesLeidas(l) ==
    [k \in 1..Vueltas(l[HastaCantInstr]) |-> l[HastaCantInstr + 2 * k]]

\* Mutant: the last two registers exchanged.
RegistrosCruzados(l) ==
    LET i == HastaInstrucciones(l)
    IN  [AX |-> l[i + 2], BX |-> l[i + 3], CX |-> l[i + 5], DX |-> l[i + 4]]
RegistrosLeidos(l) ==
    LET i == HastaInstrucciones(l)
    IN  [AX |-> l[i + 2], BX |-> l[i + 3], CX |-> l[i + 4], DX |-> l[i + 5]]

SegmentosLeidos(l) ==
    LET s == HastaCantSegmentos(l)
    IN  [k \in 1..Vueltas(l[s]) |->
            [idSegmento |-> l[s + 3 * k - 2], tamanioSegmentos |-> l[s + 3 * k - 1],
             indiceTablaDePaginas |-> l[s + 3 * k]]]

\* The PCB those values make. The op_code is read and not looked at.
PCBLeido(l) ==
    [pid |-> l[2], estado |-> l[3],
     instrucciones |-> InstruccionesLeidas(l),
     program_counter |-> l[HastaInstrucciones(l) + 1],
     registros_cpu |-> RegistrosLeidos(l),
     t_segmentos |-> SegmentosLeidos(l)]
=============================================================================
