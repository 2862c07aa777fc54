--------------------------------- MODULE Envio ---------------------------------
(***************************************************************************)
(* A console hands its program to the kernel: src/Consola/src/consola.c    *)
(* reads the file and sends one message, a thread of the kernel            *)
(* (atender_consola) makes a process out of it. The console reserves and   *)
(* sends a number of bytes it estimates, not the ones it writes; the       *)
(* kernel reads without MSG_WAITALL and looks at no result. Bytes are      *)
(* counted, not represented: a field has a place and a width, and a recv   *)
(* gives a value back when it takes all of one field and nothing else.     *)
(***************************************************************************)
EXTENDS Integers, Sequences

CONSTANTS
    Archivos,         \* programs: the length of each line, without its newline
    SaltosFinales,    \* whether the last line may end in a newline, or not
    LargoSegmentos,   \* strlen of SEGMENTOS in the console's configuration
    Cortados,         \* the programs whose messages the network cuts anywhere,
                      \* inside a field too; the others, only between fields
    Restos            \* what an int may hold when nobody gave it a value

ASSUME ArchivosDeLineas == Archivos \subseteq Seq(Nat) /\ SaltosFinales \subseteq BOOLEAN
ASSUME LargoNatural == LargoSegmentos \in Nat
ASSUME CortadosEntreArchivos == Cortados \subseteq Archivos
ASSUME RestosEnteros == Restos \subseteq Int

VARIABLES
    archivo, saltoFinal,      \* the file, which nobody changes
    pcConsola, renglon, columna, instr,
    reserva, buffer, escritos,  \* the message while it is written
    saludo,                   \* the handshake of this connection
    enviado, llegado, cerrado,  \* bytes sent, bytes delivered, end of stream
    pcHilo, pos, cant, largo, lista, pcb

fuente == <<archivo, saltoFinal>>
lectura == <<renglon, columna, instr>>
mensaje == <<reserva, buffer, escritos>>
red == <<enviado, llegado, cerrado>>
hilo == <<pcHilo, pos, cant, largo, lista, pcb>>
vars == <<fuente, pcConsola, lectura, mensaje, saludo, red, hilo>>

\* sizeof(int), op_code and uint32_t; sizeof a pointer and of a size_t.
TamanioInt == 4
TamanioPuntero == 8
TamanioSizeT == 8
\* The size readFile gives to fgets.
TamanioLinea == 30
INSTR == 1

\* A string: the line it comes from, where it begins in it, and its strlen.
Texto(linea, desde, n) == [linea |-> linea, desde |-> desde, strlen |-> n]
Segmentos == Texto(0, 0, LargoSegmentos)
NULL == Texto(-1, 0, 0)
Basura == Texto(-2, 0, 0)      \* characters nobody wrote as a string
LargoDe(t) == t.strlen + 1

Menor(a, b) == IF a <= b THEN a ELSE b

Init ==
    /\ archivo \in Archivos /\ saltoFinal \in SaltosFinales
    /\ pcConsola = "leer" /\ renglon = 1 /\ columna = 0 /\ instr = <<>>
    /\ reserva = 0 /\ buffer = <<>> /\ escritos = 0
    /\ saludo = "nada"
    /\ enviado = 0 /\ llegado = 0 /\ cerrado = FALSE
    /\ pcHilo = "saludo" /\ pos = 0 /\ cant = 0 /\ largo = 0 /\ lista = <<>> /\ pcb = <<>>

-----------------------------------------------------------------------------
(* The console: readFile *)

HaySalto == renglon < Len(archivo) \/ saltoFinal
\* Mutant: 30 characters, and no room for the final zero.
PedidoDeMas == TamanioLinea
\* fgets gives at most this many characters, the newline counted.
Pedido == TamanioLinea - 1
Faltan == archivo[renglon] - columna

\* One fgets, and strtok to take the newline off. A string that is only a
\* newline has no token: strtok gives NULL and NULL goes into the list.
LeerTrozo ==
    /\ pcConsola = "leer" /\ renglon <= Len(archivo)
    /\ LET quedan == Faltan + (IF HaySalto THEN 1 ELSE 0)
       IN  IF quedan > Pedido
           THEN /\ instr' = Append(instr, Texto(renglon, columna, Pedido))
                /\ columna' = columna + Pedido
                /\ UNCHANGED renglon
           ELSE /\ instr' = IF quedan = 0 THEN instr
                            ELSE IF Faltan = 0 THEN Append(instr, NULL)
                            ELSE Append(instr, Texto(renglon, columna, Faltan))
                /\ renglon' = renglon + 1
                /\ columna' = 0
    /\ UNCHANGED <<fuente, pcConsola, mensaje, saludo, red, hilo>>

-----------------------------------------------------------------------------
(* The console: handshake, message, end *)

\* handshakeCliente: a send, then a recv that waits for the answer.
Saludar ==
    /\ pcConsola = "leer" /\ renglon > Len(archivo)
    /\ saludo' = "pedido"
    /\ pcConsola' = "saludando"
    /\ UNCHANGED <<fuente, lectura, mensaje, red, hilo>>

\* Mutant: pointers and lengths of 4 bytes.
ReservaCorta(n) == 2 * TamanioInt + 8 * n + TamanioSizeT + LargoSegmentos

\* serializar_instrucciones adds sizeof(strlen(temp)) + sizeof(temp) for every
\* instruction, whatever its length, and for SEGMENTOS a size_t and its strlen.
Reserva(n) ==
    2 * TamanioInt + (TamanioSizeT + TamanioPuntero) * n
        + TamanioSizeT + LargoSegmentos

\* The result of the handshake is only logged.
RecibirSaludo ==
    /\ pcConsola = "saludando" /\ saludo = "respondido"
    /\ reserva' = Reserva(Len(instr))
    /\ pcConsola' = "serializar"
    /\ UNCHANGED <<fuente, lectura, buffer, escritos, saludo, red, hilo>>

\* The fields of the message: how many strings, the code, and for each
\* instruction, and then for SEGMENTOS, its length and its characters.
Textos == Append(instr, Segmentos)
CantidadDeCampos == 2 + 2 * Len(Textos)
Entero(v) == [clase |-> "entero", ancho |-> TamanioInt, valor |-> v]
Cadena(t) == [clase |-> "texto", ancho |-> LargoDe(t), valor |-> t]

\* Mutant: the count leaves SEGMENTOS out.
CampoSinSegmentos(j) ==
    IF j = 1 THEN Entero(Len(instr))
    ELSE IF j = 2 THEN Entero(INSTR)
    ELSE IF j % 2 = 1 THEN Entero(LargoDe(Textos[(j - 1) \div 2]))
    ELSE Cadena(Textos[(j - 2) \div 2])
Campo(j) ==
    IF j = 1 THEN Entero(Len(instr) + 1)
    ELSE IF j = 2 THEN Entero(INSTR)
    ELSE IF j % 2 = 1 THEN Entero(LargoDe(Textos[(j - 1) \div 2]))
    ELSE Cadena(Textos[(j - 2) \div 2])

\* The next memcpy writes the length of this string: strlen(NULL) kills.
TextoDelCampo(j) == Textos[(j - 1) \div 2]
MideNULL(j) == j > 2 /\ j % 2 = 1 /\ TextoDelCampo(j) = NULL

\* One memcpy, inside the reserve or past it.
EscribirCampo ==
    /\ pcConsola = "serializar"
    /\ Len(buffer) < CantidadDeCampos
    /\ LET j == Len(buffer) + 1
       IN  /\ ~MideNULL(j)
           /\ buffer' = Append(buffer, [campo |-> Campo(j), desde |-> escritos])
           /\ escritos' = escritos + Campo(j).ancho
    /\ UNCHANGED <<fuente, pcConsola, lectura, reserva, saludo, red, hilo>>

MorirPorNULL ==
    /\ pcConsola = "serializar"
    /\ Len(buffer) < CantidadDeCampos
    /\ MideNULL(Len(buffer) + 1)
    /\ pcConsola' = "muerta" /\ cerrado' = TRUE
    /\ UNCHANGED <<fuente, lectura, mensaje, saludo, enviado, llegado, hilo>>

\* A write past the reserve may have broken the heap.
MorirPorDesborde ==
    /\ pcConsola = "serializar" /\ escritos > reserva
    /\ pcConsola' = "muerta" /\ cerrado' = TRUE
    /\ UNCHANGED <<fuente, lectura, mensaje, saludo, enviado, llegado, hilo>>

\* Mutant: the bytes written, without the last zero.
EnviarEscritos ==
    /\ pcConsola = "serializar" /\ Len(buffer) = CantidadDeCampos
    /\ enviado' = escritos - 1 /\ pcConsola' = "enviado"
    /\ UNCHANGED <<fuente, lectura, mensaje, saludo, llegado, cerrado, hilo>>

\* enviar_instr sends the reserve: what is left over of it is sent too, what
\* was written past it is not.
Enviar ==
    /\ pcConsola = "serializar"
    /\ Len(buffer) = CantidadDeCampos
    /\ enviado' = reserva
    /\ pcConsola' = "enviado"
    /\ UNCHANGED <<fuente, lectura, mensaje, saludo, llegado, cerrado, hilo>>

\* Mutant: the console stays to wait for messages of the kernel.
NoSalir == pcConsola = "enviado" /\ UNCHANGED vars

\* main ends; its socket is closed with it.
Salir ==
    /\ pcConsola = "enviado"
    /\ pcConsola' = "fin"
    /\ cerrado' = TRUE
    /\ UNCHANGED <<fuente, lectura, mensaje, saludo, enviado, llegado, hilo>>

-----------------------------------------------------------------------------
(* The network *)

Cortes == archivo \in Cortados
FinDeCampo(j) == buffer[j].desde + buffer[j].campo.ancho
Fronteras == {FinDeCampo(j) : j \in DOMAIN buffer} \cup {enviado}

Entregar ==
    /\ llegado < enviado
    /\ \E n \in (llegado + 1)..enviado :
          /\ Cortes \/ n \in Fronteras
          /\ llegado' = n
    /\ UNCHANGED <<fuente, pcConsola, lectura, mensaje, saludo, enviado, cerrado, hilo>>

-----------------------------------------------------------------------------
(* The kernel: recv(socket, x, n, 0) *)

FinDelFlujo == cerrado /\ llegado = enviado /\ pos = llegado
\* It returns as soon as there is a byte, or at the end of the stream.
Vuelve == llegado > pos \/ FinDelFlujo
\* It takes what there is, up to n. A negative n fails and takes nothing.
Recibidos(n) == IF n <= 0 THEN 0 ELSE Menor(n, llegado - pos)

\* The n bytes at this place are a field of that kind.
EsCampo(j, clase, n) ==
    /\ buffer[j].campo.clase = clase
    /\ buffer[j].desde = pos /\ buffer[j].campo.ancho = n

\* What is in the variable after the recv: the field it was sent, or anything.
Recibe(clase, n, valor, otros) ==
    IF \E j \in DOMAIN buffer : EsCampo(j, clase, n) /\ Recibidos(n) = n
    THEN \E j \in DOMAIN buffer : EsCampo(j, clase, n) /\ valor = buffer[j].campo.valor
    ELSE valor \in otros

\* handshakeServidor: the CONSOLA it expects, and the answer.
AtenderSaludo ==
    /\ pcHilo = "saludo" /\ saludo = "pedido"
    /\ saludo' = "respondido"
    /\ pcHilo' = "cant"
    /\ UNCHANGED <<fuente, pcConsola, lectura, mensaje, red, pos, cant, largo, lista, pcb>>

RecibirCant ==
    /\ pcHilo = "cant" /\ Vuelve
    /\ \E v \in Restos \cup {Len(instr), Len(instr) + 1} :
          Recibe("entero", TamanioInt, v, Restos) /\ cant' = v
    /\ pos' = pos + Recibidos(TamanioInt)
    /\ pcHilo' = "operacion"
    /\ UNCHANGED <<fuente, pcConsola, lectura, mensaje, saludo, red, largo, lista, pcb>>

\* The loop of recibir_instrucciones, or what follows it.
SiguienteVuelta(n) == IF n < cant THEN "largo" ELSE "crear"

\* The op_code is only logged.
RecibirOperacion ==
    /\ pcHilo = "operacion" /\ Vuelve
    /\ pos' = pos + Recibidos(TamanioInt)
    /\ pcHilo' = SiguienteVuelta(0)
    /\ UNCHANGED <<fuente, pcConsola, lectura, mensaje, saludo, red, cant, largo, lista, pcb>>

LargosPosibles == Restos \cup {buffer[j].campo.valor : j \in
                      {k \in DOMAIN buffer : buffer[k].campo.clase = "entero"}}

RecibirLargo ==
    /\ pcHilo = "largo" /\ Vuelve
    /\ \E v \in LargosPosibles :
          Recibe("entero", TamanioInt, v, Restos) /\ largo' = v
    /\ pos' = pos + Recibidos(TamanioInt)
    /\ pcHilo' = "texto"
    /\ UNCHANGED <<fuente, pcConsola, lectura, mensaje, saludo, red, cant, lista, pcb>>

\* malloc of a negative length gives NULL.
SinMensaje == IF largo < 0 THEN {NULL} ELSE {Basura}
TextosPosibles == {NULL, Basura} \cup {Textos[k] : k \in DOMAIN Textos}

RecibirTexto ==
    /\ pcHilo = "texto" /\ Vuelve
    /\ \E t \in TextosPosibles :
          Recibe("texto", largo, t, SinMensaje) /\ lista' = Append(lista, t)
    /\ pos' = pos + Recibidos(largo)
    /\ pcHilo' = SiguienteVuelta(Len(lista'))
    /\ UNCHANGED <<fuente, pcConsola, lectura, mensaje, saludo, red, cant, largo, pcb>>

\* separarSegmentoDeInstrucciones takes the last string, list_get(-1) of an
\* empty list is NULL, and borrarElementosCadena(NULL) kills the kernel.
HaySegmentos == lista # <<>> /\ lista[Len(lista)] # NULL

\* Mutant: the segments stay among the instructions.
CrearSinQuitar ==
    /\ pcHilo = "crear" /\ HaySegmentos
    /\ pcb' = <<[instrucciones |-> lista, segmentos |-> lista[Len(lista)]]>>
    /\ pcHilo' = "creado"
    /\ UNCHANGED <<fuente, pcConsola, lectura, mensaje, saludo, red, pos, cant, largo, lista>>

\* list_remove of the last one, crearPCB, agregar_PCB_NEW_Queue and close.
CrearProceso ==
    /\ pcHilo = "crear" /\ HaySegmentos
    /\ pcb' = <<[instrucciones |-> SubSeq(lista, 1, Len(lista) - 1),
                 segmentos |-> lista[Len(lista)]]>>
    /\ pcHilo' = "creado"
    /\ UNCHANGED <<fuente, pcConsola, lectura, mensaje, saludo, red, pos, cant, largo, lista>>

\* Mutant: 4 bytes for each length, as are written, and 8 for each string.
ReservaPCBCorta(n) == (TamanioInt + TamanioPuntero) * n
\* What serializarPCB, and the serializers of the CPU, reserve for n
\* instructions; every other field of a PCB has its own size reserved.
ReservaPCB(n) == (TamanioSizeT + TamanioPuntero) * n

\* And what they write of them.
EscritosPCB(instrucciones) ==
    LET hasta[k \in 0..Len(instrucciones)] ==
            IF k = 0 THEN 0
            ELSE hasta[k - 1] + TamanioInt + LargoDe(instrucciones[k])
    IN  hasta[Len(instrucciones)]

MorirKernel ==
    /\ pcHilo = "crear" /\ ~HaySegmentos
    /\ pcHilo' = "muerto"
    /\ UNCHANGED <<fuente, pcConsola, lectura, mensaje, saludo, red, pos, cant, largo, lista, pcb>>

-----------------------------------------------------------------------------
Consola ==
    \/ LeerTrozo \/ Saludar \/ RecibirSaludo \/ EscribirCampo \/ Enviar \/ Salir
    \/ MorirPorNULL \/ MorirPorDesborde
Hilo ==
    \/ AtenderSaludo \/ RecibirCant \/ RecibirOperacion \/ RecibirLargo \/ RecibirTexto
    \/ CrearProceso \/ MorirKernel
Fin == pcHilo \in {"creado", "muerto"} /\ cerrado /\ llegado = enviado /\ UNCHANGED vars

Next == Consola \/ Entregar \/ Hilo \/ Fin

\* The scheduler runs the console and the thread, TCP delivers what was sent.
Spec == Init /\ [][Next]_vars /\ WF_vars(Consola) /\ WF_vars(Entregar) /\ WF_vars(Hilo)
-----------------------------------------------------------------------------
(* Properties *)

EnterosDelProtocolo == Restos \cup {Len(instr) + 1, INSTR} \cup
                           {LargoDe(Textos[k]) : k \in DOMAIN Textos}

TypeOK ==
    /\ pcConsola \in {"leer", "saludando", "serializar", "enviado", "fin", "muerta"}
    /\ pcHilo \in {"saludo", "cant", "operacion", "largo", "texto", "crear",
                   "creado", "muerto"}
    /\ pos \in 0..llegado /\ llegado \in 0..enviado /\ enviado \in {0, reserva}
    /\ \A k \in DOMAIN instr : instr[k] = NULL \/ LargoDe(instr[k]) \in 2..TamanioLinea
    /\ pcHilo = "texto" => largo \in EnterosDelProtocolo
    /\ \A k \in DOMAIN lista : lista[k] \in {NULL, Basura} \cup {Textos[i] : i \in DOMAIN Textos}

\* The console wrote its message inside the bytes it had reserved.
Cabe == Len(buffer) = CantidadDeCampos /\ escritos <= reserva

\* A program that fits in what the console reserves, and whose fields the
\* network delivers whole, arrives as it is: the process has its instructions,
\* in order, and its segments apart from them, although nothing tells the
\* kernel where the message ends (kernel.c:307).
ProgramaFiel ==
    pcHilo = "creado" /\ Cabe /\ ~Cortes =>
        pcb = <<[instrucciones |-> instr, segmentos |-> Segmentos]>>

\* And the kernel, which looks at no result and checks no pointer, survives it.
KernelVivo == pcHilo = "muerto" => ~Cabe \/ Cortes

\* The estimate of serializar_instrucciones is enough for every program whose
\* instructions have at most 11 characters, however many they are.
ReservaAlcanza ==
    pcConsola \in {"serializar", "enviado"}
        /\ (\A k \in DOMAIN instr : LargoDe(instr[k]) <= 12)
        => escritos <= reserva

\* The PCB of a process that arrived whole is written inside its buffer if its
\* instructions have at most 11 characters; if all that is known is that the
\* message fitted in the console's reserve, up to 3 bytes past it.
PCBCabe ==
    pcHilo = "creado" /\ Cabe /\ ~Cortes =>
        LET l == pcb[1].instrucciones
        IN  /\ EscritosPCB(l) <= ReservaPCB(Len(l)) + 3
            /\ (\A k \in DOMAIN l : LargoDe(l[k]) <= 12) =>
                   EscritosPCB(l) <= ReservaPCB(Len(l))

\* Every line is one instruction, whole and in its place, exactly when no line
\* is empty and none has more than 28 characters; 29 for the last one if no
\* newline follows it. Otherwise lines are cut in two, or become NULL.
RenglonEntra(k) ==
    archivo[k] \in 1..(IF k < Len(archivo) \/ saltoFinal THEN 28 ELSE 29)
Renglones == [k \in DOMAIN archivo |-> Texto(k, 0, archivo[k])]
RenglonesFieles ==
    pcConsola # "leer" =>
        (instr = Renglones <=> \A k \in DOMAIN archivo : RenglonEntra(k))

\* A console that gets as far as its message makes the kernel's thread end,
\* in a process or in a crash: no recv waits for ever, whatever was cut,
\* truncated or left unsent.
HiloTermina ==
    pcConsola \in {"enviado", "muerta"} ~> pcHilo \in {"creado", "muerto"}

\* A program that fits, in whole fields, becomes a process.
SeCrea == Cabe /\ ~Cortes /\ pcConsola = "enviado" ~> pcHilo = "creado"

\* What the kernel's log says of the message: every process has the
\* instructions of the console that sent it.
ProcesoFiel == pcHilo = "creado" => pcb[1].instrucciones = instr
=============================================================================
