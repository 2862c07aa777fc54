---------------------------- MODULE CicloInstruccion ----------------------------
(***************************************************************************)
(* The instruction cycle of the CPU (src/CPU/src/cpu.c): fetch, decode,    *)
(* execute, until EXIT or an instruction it does not know. The code has    *)
(* it, and its only call is commented out (cpu.c:367): this module says    *)
(* what it does for any PCBs it is called with, one after the other.       *)
(*                                                                         *)
(* A line is the sequence of its words; case is ignored by the code and    *)
(* left out here. An access outside of registros, or through a pointer     *)
(* nobody wrote, kills or does not.                                        *)
(***************************************************************************)
EXTENDS Integers, Sequences, SequencesExt

CONSTANTS
    Programas,   \* the lists of instructions a PCB may bring
    Numeros,     \* word made of digits |-> its value
    Tope,        \* how many values a register has: 2^32
    MaxPCBs      \* how many PCBs the CPU takes: a bound

ASSUME ProgramasSonLineas == Programas \subseteq Seq(Seq(STRING))
ASSUME NumerosNaturales == \A p \in DOMAIN Numeros : Numeros[p] \in Nat
ASSUME Cotas == Tope \in Nat \ {0} /\ MaxPCBs \in Nat

VARIABLES
    etapa, instrucciones, programCounter, instruccion,
    registros,    \* global: a new PCB finds those of the one before
    alEntrar,     \* what this PCB found in them
    respuestas,   \* what was sent to the kernel for this PCB
    atendidos

vars == <<etapa, instrucciones, programCounter, instruccion, registros, alEntrar,
          respuestas, atendidos>>

Registro == 0..3
Nombres == <<"ax", "bx", "cx", "dx">>
ASSUME NombresNoSonNumeros == Range(Nombres) \cap DOMAIN Numeros = {}
\* Mutant: registers wider than those the kernel and the PCB have.
SinAncho(n) == n
Mod(n) == n % Tope
SinIniciar == [tipo |-> "basura"]

Init ==
    /\ etapa = "espera" /\ instrucciones = <<>> /\ programCounter = 0
    /\ instruccion = SinIniciar
    /\ registros = [r \in Registro |-> 0] /\ alEntrar = registros
    /\ respuestas = <<>> /\ atendidos = 0

-----------------------------------------------------------------------------
(* Decoding *)

deducirTipo(parte) ==
    IF parte \in {"set", "add", "mov_in", "mov_out", "i/o", "exit"} THEN parte ELSE "ind"

Valor(tipo, v) == [tipoParam |-> tipo, valor |-> v]
deducirParametro(param) ==
    IF param \in DOMAIN Numeros THEN Valor("NUM", Numeros[param])
    ELSE IF param \in Range(Nombres)
    THEN Valor("REGISTRO", (CHOOSE i \in 1..4 : Nombres[i] = param) - 1)
    ELSE IF param = "teclado" THEN Valor("IO_P", 0)
    ELSE IF param = "pantalla" THEN Valor("IO_P", 1)
    ELSE Valor("IND", 0)

\* The words are popped from the end: a fourth one is never looked at, and the
\* type is then that of the second.
Palabra(linea, i) == linea[Len(linea) - i]

decode(linea) ==
    IF linea = <<"exit">> THEN [tipo |-> "exit"]
    ELSE [tipo |-> deducirTipo(Palabra(linea, 2)),
          param1 |-> deducirParametro(Palabra(linea, 1)),
          param2 |-> deducirParametro(Palabra(linea, 0))]

\* With fewer words than three, decode compares a NULL.
Decodificable(linea) == linea = <<"exit">> \/ Len(linea) >= 3

-----------------------------------------------------------------------------
(* The cycle *)

Llamar(programa) ==
    /\ etapa = "espera" /\ atendidos < MaxPCBs
    /\ instrucciones' = programa /\ programCounter' = 0
    /\ instruccion' = SinIniciar /\ alEntrar' = registros
    /\ respuestas' = <<>> /\ atendidos' = atendidos + 1
    /\ etapa' = "condicion"
    /\ UNCHANGED registros

\* The first time, instruccion is whatever its stack slot held: reading it may
\* kill, leave the cycle at once, or enter it.
Condicion ==
    /\ etapa = "condicion"
    /\ etapa' \in IF instruccion = SinIniciar THEN {"fetch", "espera", "muerta"}
                  ELSE IF instruccion.tipo \in {"exit", "ind"} THEN {"espera"}
                  ELSE {"fetch"}
    /\ UNCHANGED <<instrucciones, programCounter, instruccion, registros, alEntrar,
                   respuestas, atendidos>>

\* list_get gives NULL after the last one, and decode compares it.
FetchDecode ==
    /\ etapa = "fetch"
    /\ LET hay == programCounter < Len(instrucciones)
                  /\ Decodificable(instrucciones[programCounter + 1])
       IN /\ etapa' = IF hay THEN "execute" ELSE "muerta"
          /\ instruccion' = IF hay THEN decode(instrucciones[programCounter + 1])
                            ELSE instruccion
    /\ UNCHANGED <<instrucciones, programCounter, registros, alEntrar, respuestas, atendidos>>

\* Mutant: without the increment.
RepetirCiclo ==
    /\ etapa' = "condicion"
    /\ UNCHANGED <<programCounter, instrucciones, instruccion, alEntrar, atendidos>>

Avanzar ==
    /\ etapa' = "condicion" /\ programCounter' = programCounter + 1
    /\ UNCHANGED <<instrucciones, instruccion, alEntrar, atendidos>>

En(tipos) == etapa = "execute" /\ instruccion.tipo \in tipos

executeSET ==
    /\ En({"set"})
    /\ LET destino == instruccion.param1  origen == instruccion.param2
       IN registros' = IF destino.tipoParam = "REGISTRO" /\ origen.tipoParam = "NUM"
                       THEN [registros EXCEPT ![destino.valor] = Mod(origen.valor)]
                       ELSE registros
    /\ Avanzar /\ UNCHANGED respuestas

\* a == b == REGISTRO compares 1 with a == b: two operands of one type, whatever
\* it is, are taken for two registers.
Sumables == instruccion.param1.tipoParam = instruccion.param2.tipoParam
Fuera == ~(instruccion.param1.valor \in Registro /\ instruccion.param2.valor \in Registro)

\* Mutant: the sum takes the old value of the origin alone.
SumarOrigen ==
    /\ En({"add"}) /\ Sumables /\ ~Fuera
    /\ registros' = [registros EXCEPT ![instruccion.param1.valor] =
                        registros[instruccion.param2.valor]]
    /\ Avanzar /\ UNCHANGED respuestas

executeADD ==
    /\ En({"add"}) /\ Sumables /\ ~Fuera
    /\ registros' = [registros EXCEPT ![instruccion.param1.valor] =
                        Mod(@ + registros[instruccion.param2.valor])]
    /\ Avanzar /\ UNCHANGED respuestas

SumarFuera ==
    /\ En({"add"}) /\ Sumables /\ Fuera
    /\ IF instruccion.param1.valor \in Registro
       THEN \E basura \in 0..(Tope - 1) :
                registros' = [registros EXCEPT ![instruccion.param1.valor] = basura]
       ELSE UNCHANGED registros
    /\ Avanzar /\ UNCHANGED respuestas

MorirPorADD ==
    /\ En({"add"}) /\ Sumables /\ Fuera
    /\ etapa' = "muerta"
    /\ UNCHANGED <<instrucciones, programCounter, instruccion, registros, alEntrar,
                   respuestas, atendidos>>

\* An ADD it rejects, MOV_IN, MOV_OUT, I/O, and what it does not know.
SinEfecto ==
    /\ En({"mov_in", "mov_out", "i/o", "ind"}) \/ (En({"add"}) /\ ~Sumables)
    /\ Avanzar /\ UNCHANGED <<registros, respuestas>>

\* Mutant: the case of T_IO without its break.
ResponderIO ==
    /\ En({"exit", "i/o"})
    /\ respuestas' = Append(respuestas, [programCounter |-> programCounter, motivo |-> "EXIT"])
    /\ Avanzar /\ UNCHANGED registros

\* The PCB that is sent still has the counter of EXIT itself, and the motive is
\* an estado_proceso: its 4 is what the kernel calls IO.
executeEXIT ==
    /\ En({"exit"})
    /\ respuestas' = Append(respuestas, [programCounter |-> programCounter, motivo |-> "EXIT"])
    /\ Avanzar /\ UNCHANGED registros

Ciclo == \/ Condicion \/ FetchDecode
         \/ executeSET \/ executeADD \/ SumarFuera \/ MorirPorADD \/ SinEfecto \/ executeEXIT
Next == Ciclo \/ \E programa \in Programas : Llamar(programa)

\* Nobody has to send a PCB; a cycle that started goes on.
Spec == Init /\ [][Next]_vars /\ WF_vars(Ciclo)

-----------------------------------------------------------------------------
(* Properties *)

\* The registers hold their width, and each stage has what it uses.
TypeOK ==
    /\ etapa \in {"espera", "condicion", "fetch", "execute", "muerta"}
    /\ instrucciones \in Programas \cup {<<>>}
    /\ programCounter \in 0..Len(instrucciones)
    /\ registros \in [Registro -> 0..(Tope - 1)]
    /\ alEntrar \in [Registro -> 0..(Tope - 1)]
    /\ respuestas \in Seq([programCounter : Nat, motivo : {"EXIT"}])
    /\ atendidos \in 0..MaxPCBs

\* What the instruction set of the program in cpu.c (9-22) means, read from left
\* to right: an instruction has its name, a register, and a number or register.
Indice(r) == (CHOOSE i \in 1..4 : Nombres[i] = r) - 1
EsInstruccion(linea) ==
    \/ linea = <<"exit">>
    \/ /\ Len(linea) = 3
       /\ \/ linea[1] = "set" /\ linea[2] \in Range(Nombres) /\ linea[3] \in DOMAIN Numeros
          \/ linea[1] = "add" /\ linea[2] \in Range(Nombres) /\ linea[3] \in Range(Nombres)
          \/ linea[1] \in {"mov_in", "mov_out", "i/o"}
Efecto(regs, linea) ==
    IF linea[1] = "set" THEN [regs EXCEPT ![Indice(linea[2])] = Mod(Numeros[linea[3]])]
    ELSE IF linea[1] = "add"
    THEN [regs EXCEPT ![Indice(linea[2])] = Mod(@ + regs[Indice(linea[3])])]
    ELSE regs
Resultado(programa, n, regs) ==
    LET tras[i \in 0..n] == IF i = 0 THEN regs ELSE Efecto(tras[i - 1], programa[i])
    IN tras[n]

Correcto(programa) ==
    /\ \A i \in 1..Len(programa) : EsInstruccion(programa[i])
    /\ \E i \in 1..Len(programa) : programa[i] = <<"exit">>

\* A program of known instructions does to the registers what its lines say,
\* at every turn of the cycle, from the values it found there.
RegistrosFieles ==
    etapa = "condicion" /\ Correcto(instrucciones) =>
        registros = Resultado(instrucciones, programCounter, alEntrar)

\* No instruction of this PCB was taken: either it has just come, or the loop's
\* first test, which reads a pointer nobody wrote (cpu.c:157), skipped the whole
\* program or killed the CPU.
NadaTomado == instruccion = SinIniciar

\* The answer has the counter of the program's first EXIT.
DelPrimerExit(respuesta) ==
    /\ instrucciones[respuesta.programCounter + 1] = <<"exit">>
    /\ \A k \in 1..respuesta.programCounter : instrucciones[k] # <<"exit">>

\* A program of known instructions that has an EXIT is answered at most once and
\* by its first EXIT, never before it. Once its first instruction was taken the
\* CPU survives and the answer is sent before the cycle is left. If the first
\* test skips the program instead, nobody is answered and no register changes.
UnaRespuesta ==
    Correcto(instrucciones) =>
        /\ \A i \in DOMAIN respuestas : i = 1 /\ DelPrimerExit(respuestas[i])
        /\ etapa \in {"fetch", "execute"} => respuestas = <<>>
        /\ etapa = "espera" /\ ~NadaTomado => respuestas # <<>>
        /\ etapa = "muerta" => NadaTomado
        /\ NadaTomado => respuestas = <<>> /\ registros = alEntrar

\* Every PCB, of any program, leaves the cycle or kills the CPU.
CicloTermina == etapa = "condicion" ~> etapa \in {"espera", "muerta"}

=============================================================================
