------------------------- MODULE CicloInstruccionProofs -------------------------
(***************************************************************************)
(* The instruction cycle computes what the program says: for programs of   *)
(* any length, any words for numbers and registers of any width.           *)
(*                                                                         *)
(* The reference, Resultado, is recursive: Induccion gives the registers   *)
(* after each line, and ResultadoPasoAPaso unfolds one line of it, which   *)
(* is what a turn of the cycle does (EjecucionFiel).                       *)
(***************************************************************************)
EXTENDS CicloInstruccion, Induccion

\* What a register holds, and the registers together.
Valores == 0..(Tope - 1)
Banco == [Registro -> Valores]

\* Mod keeps the width of a register.
LEMMA ModTipo == \A n \in Nat : Mod(n) \in Valores
BY Cotas DEF Mod, Valores

\* A name of Nombres is a register's, and no number.
LEMMA Nombrados ==
    /\ \A r \in Range(Nombres) : Indice(r) \in Registro
    /\ \A r \in Range(Nombres) : r \notin DOMAIN Numeros
<1>1. ASSUME NEW r \in Range(Nombres) PROVE Indice(r) \in Registro
  <2>1. Range(Nombres) = {Nombres[i] : i \in 1..4}
    BY DEF Nombres, Range
  <2>2. \E i \in 1..4 : Nombres[i] = r
    BY <2>1
  <2>3. PICK i : i = CHOOSE j \in 1..4 : Nombres[j] = r
    BY Zenon
  <2>4. i \in 1..4
    BY <2>2, <2>3, Zenon
  <2>5. i - 1 \in 0..3
    BY <2>4
  <2> QED BY <2>3, <2>5, Zenon DEF Indice, Registro
<1> QED BY <1>1, NombresNoSonNumeros

\* What deducirParametro returns.
EsOperando(v) == v.valor \in Nat /\ (v.tipoParam = "REGISTRO" => v.valor \in Registro)

\* The two members of a parameter.
LEMMA ValorEs == \A t, v : Valor(t, v).tipoParam = t /\ Valor(t, v).valor = v
BY DEF Valor

\* deducirParametro tells registers from numbers, and whatever the word is gives
\* a value that a register's index can be compared with.
LEMMA Parametros ==
    /\ \A r \in Range(Nombres) : deducirParametro(r) = Valor("REGISTRO", Indice(r))
    /\ \A n \in DOMAIN Numeros : deducirParametro(n) = Valor("NUM", Numeros[n])
    /\ \A p : EsOperando(deducirParametro(p))
<1>1. \A r \in Range(Nombres) : deducirParametro(r) = Valor("REGISTRO", Indice(r))
  BY Nombrados, Zenon DEF deducirParametro, Indice
<1>2. \A n \in DOMAIN Numeros : deducirParametro(n) = Valor("NUM", Numeros[n])
  BY Zenon DEF deducirParametro
<1>3. ASSUME NEW p PROVE EsOperando(deducirParametro(p))
  <2>1. CASE p \in DOMAIN Numeros
    <3>1. Numeros[p] \in Nat /\ "NUM" # "REGISTRO"
      BY <2>1, NumerosNaturales
    <3>2. deducirParametro(p) = Valor("NUM", Numeros[p])
      BY <1>2, <2>1, Zenon
    <3> QED BY <3>1, <3>2, ValorEs, Zenon DEF EsOperando
  <2>2. CASE p \in Range(Nombres)
    <3>1. Indice(p) \in Registro /\ Indice(p) \in Nat
      BY <2>2, Nombrados DEF Registro
    <3>2. deducirParametro(p) = Valor("REGISTRO", Indice(p))
      BY <1>1, <2>2, Zenon
    <3> QED BY <3>1, <3>2, ValorEs, Zenon DEF EsOperando
  <2>3. CASE p \notin DOMAIN Numeros /\ p \notin Range(Nombres)
    <3>1. PICK t, n : t # "REGISTRO" /\ n \in Nat /\ deducirParametro(p) = Valor(t, n)
      <4>1. \/ deducirParametro(p) = Valor("IO_P", 0) \/ deducirParametro(p) = Valor("IO_P", 1)
            \/ deducirParametro(p) = Valor("IND", 0)
        BY <2>3, Zenon DEF deducirParametro
      <4>2. "IO_P" # "REGISTRO" /\ "IND" # "REGISTRO" /\ 0 \in Nat /\ 1 \in Nat
        OBVIOUS
      <4> QED BY <4>1, <4>2, Zenon
    <3>2. deducirParametro(p).tipoParam = t /\ deducirParametro(p).valor = n
      BY <3>1, ValorEs, Zenon
    <3> QED BY <3>1, <3>2, Zenon DEF EsOperando
  <2> QED BY <2>1, <2>2, <2>3, Zenon
<1> QED BY <1>1, <1>2, <1>3, Zenon

\* The same, member by member.
LEMMA CamposDelParametro ==
    /\ \A r \in Range(Nombres) :
          /\ deducirParametro(r).tipoParam = "REGISTRO"
          /\ deducirParametro(r).valor = Indice(r) /\ Indice(r) \in Registro
    /\ \A n \in DOMAIN Numeros :
          deducirParametro(n).tipoParam = "NUM" /\ deducirParametro(n).valor = Numeros[n]
<1>1. ASSUME NEW r \in Range(Nombres)
      PROVE  /\ deducirParametro(r).tipoParam = "REGISTRO"
             /\ deducirParametro(r).valor = Indice(r) /\ Indice(r) \in Registro
  <2>1. deducirParametro(r) = Valor("REGISTRO", Indice(r)) /\ Indice(r) \in Registro
    BY Parametros, Nombrados, Zenon
  <2> QED BY <2>1, ValorEs
<1>2. ASSUME NEW n \in DOMAIN Numeros
      PROVE  deducirParametro(n).tipoParam = "NUM" /\ deducirParametro(n).valor = Numeros[n]
  <2>1. deducirParametro(n) = Valor("NUM", Numeros[n])
    BY Parametros, Zenon
  <2> QED BY <2>1, ValorEs
<1> QED BY <1>1, <1>2, Zenon

\* EXIT is one word.
LEMMA DecodeExit == decode(<<"exit">>) = [tipo |-> "exit"] /\ decode(<<"exit">>).tipo = "exit"
<1>1. decode(<<"exit">>) = [tipo |-> "exit"]
  BY Zenon DEF decode
<1>2. [tipo |-> "exit"].tipo = "exit"
  OBVIOUS
<1> QED BY <1>1, <1>2, Zenon

\* The type and the parameters of what decode returns.
LEMMA DecodeTipos ==
    ASSUME NEW linea
    PROVE  /\ decode(linea) # SinIniciar
           /\ decode(linea).tipo # "exit" =>
                 EsOperando(decode(linea).param1) /\ EsOperando(decode(linea).param2)
<1>1. CASE linea = <<"exit">>
  <2>1. SinIniciar.tipo = "basura" /\ "basura" # "exit"
    BY DEF SinIniciar
  <2> QED BY <1>1, <2>1, DecodeExit, Zenon
<1>2. CASE linea # <<"exit">>
  <2>1. PICK t, a, b : /\ t = deducirTipo(Palabra(linea, 2))
                       /\ a = deducirParametro(Palabra(linea, 1))
                       /\ b = deducirParametro(Palabra(linea, 0))
    BY Zenon
  <2>2. decode(linea) = [tipo |-> t, param1 |-> a, param2 |-> b]
    BY <1>2, <2>1, Zenon DEF decode
  <2>3. decode(linea).tipo = t /\ decode(linea).param1 = a /\ decode(linea).param2 = b
    BY <2>2
  <2>4. EsOperando(a) /\ EsOperando(b)
    BY <2>1, Parametros, Zenon
  <2>5. t # "basura"
    BY <2>1 DEF deducirTipo
  <2>6. SinIniciar.tipo = "basura"
    BY DEF SinIniciar
  <2> QED BY <2>3, <2>4, <2>5, <2>6, Zenon
<1> QED BY <1>1, <1>2

\* decode of an instruction of the comment in cpu.c (9-22) is that instruction:
\* its name first, its two operands in order, although the code pops the words
\* from the end.
LEMMA DecodeInstruccion ==
    ASSUME NEW linea, EsInstruccion(linea), linea # <<"exit">>
    PROVE  /\ Decodificable(linea)
           /\ decode(linea).tipo = linea[1] /\ linea[1] \in {"set", "add", "mov_in", "mov_out", "i/o"}
           /\ decode(linea).param1 = deducirParametro(linea[2])
           /\ decode(linea).param2 = deducirParametro(linea[3])
           /\ linea[1] = "set" => linea[2] \in Range(Nombres) /\ linea[3] \in DOMAIN Numeros
           /\ linea[1] = "add" => linea[2] \in Range(Nombres) /\ linea[3] \in Range(Nombres)
<1>1. /\ Len(linea) = 3
      /\ \/ linea[1] = "set" /\ linea[2] \in Range(Nombres) /\ linea[3] \in DOMAIN Numeros
         \/ linea[1] = "add" /\ linea[2] \in Range(Nombres) /\ linea[3] \in Range(Nombres)
         \/ linea[1] \in {"mov_in", "mov_out", "i/o"}
  BY Zenon DEF EsInstruccion
<1>2. 3 - 2 = 1 /\ 3 - 1 = 2 /\ 3 - 0 = 3 /\ 3 >= 3
  OBVIOUS
<1>3. Palabra(linea, 2) = linea[1] /\ Palabra(linea, 1) = linea[2] /\ Palabra(linea, 0) = linea[3]
  BY <1>1, <1>2, Zenon DEF Palabra
<1>4. PICK uno, dos, tres : uno = linea[1] /\ dos = linea[2] /\ tres = linea[3]
  BY Zenon
<1>5. /\ \/ uno = "set" /\ dos \in Range(Nombres) /\ tres \in DOMAIN Numeros
         \/ uno = "add" /\ dos \in Range(Nombres) /\ tres \in Range(Nombres)
         \/ uno \in {"mov_in", "mov_out", "i/o"}
  BY <1>1, <1>4, Zenon
<1>6. /\ deducirTipo(uno) = uno /\ uno \in {"set", "add", "mov_in", "mov_out", "i/o"}
      /\ uno = "set" => dos \in Range(Nombres) /\ tres \in DOMAIN Numeros
      /\ uno = "add" => dos \in Range(Nombres) /\ tres \in Range(Nombres)
  BY <1>5 DEF deducirTipo
<1>7. PICK a, b : a = deducirParametro(dos) /\ b = deducirParametro(tres)
  BY Zenon
<1>8. decode(linea) = [tipo |-> uno, param1 |-> a, param2 |-> b]
  BY <1>3, <1>4, <1>6, <1>7, Zenon DEF decode
<1>9. decode(linea).tipo = uno /\ decode(linea).param1 = a /\ decode(linea).param2 = b
  BY <1>8
<1>10. Decodificable(linea)
  BY <1>1, <1>2, Zenon DEF Decodificable
<1> QED BY <1>4, <1>6, <1>7, <1>9, <1>10, Zenon

\* An instruction leaves registers of their width.
LEMMA EfectoTipo ==
    ASSUME NEW linea, EsInstruccion(linea), NEW regs \in Banco
    PROVE  Efecto(regs, linea) \in Banco
<1>1. CASE linea = <<"exit">>
  <2>1. linea[1] = "exit" /\ "exit" # "set" /\ "exit" # "add"
    BY <1>1
  <2> QED BY <2>1, Zenon DEF Efecto
<1>2. CASE linea # <<"exit">>
  <2>1. PICK uno, dos, tres : uno = linea[1] /\ dos = linea[2] /\ tres = linea[3]
    BY Zenon
  <2>2. /\ uno \in {"set", "add", "mov_in", "mov_out", "i/o"}
        /\ uno = "set" => dos \in Range(Nombres) /\ tres \in DOMAIN Numeros
        /\ uno = "add" => dos \in Range(Nombres) /\ tres \in Range(Nombres)
    BY <1>2, <2>1, DecodeInstruccion, Zenon
  <2>3. CASE uno = "set"
    <3>1. PICK i, v : i = Indice(dos) /\ v = Mod(Numeros[tres])
      BY Zenon
    <3>2. i \in Registro /\ v \in Valores
      BY <2>2, <2>3, <3>1, Nombrados, NumerosNaturales, ModTipo, Zenon
    <3>3. Efecto(regs, linea) = [regs EXCEPT ![i] = v]
      BY <2>1, <2>3, <3>1, Zenon DEF Efecto
    <3>4. [regs EXCEPT ![i] = v] \in Banco
      BY <3>2 DEF Banco
    <3> QED BY <3>3, <3>4, Zenon
  <2>4. CASE uno = "add"
    <3>1. PICK i, j : i = Indice(dos) /\ j = Indice(tres)
      BY Zenon
    <3>2. i \in Registro /\ j \in Registro
      BY <2>2, <2>4, <3>1, Nombrados, Zenon
    <3>3. Efecto(regs, linea) = [regs EXCEPT ![i] = Mod(regs[i] + regs[j])]
      <4>1. uno # "set"
        BY <2>4
      <4> QED BY <2>1, <2>4, <3>1, <4>1, Zenon DEF Efecto
    <3>4. regs[i] + regs[j] \in Nat
      BY <3>2, Cotas DEF Banco, Valores
    <3>5. PICK v \in Valores : v = Mod(regs[i] + regs[j])
      BY <3>4, ModTipo, Zenon
    <3>6. [regs EXCEPT ![i] = v] \in Banco
      BY <3>2 DEF Banco
    <3> QED BY <3>3, <3>5, <3>6, Zenon
  <2>5. CASE uno # "set" /\ uno # "add"
    BY <2>1, <2>5, Zenon DEF Efecto
  <2> QED BY <2>3, <2>4, <2>5, Zenon
<1> QED BY <1>1, <1>2

-----------------------------------------------------------------------------
(* Resultado, line by line *)

\* g are the registers after each line of the program.
Tras(g, programa, n, regs) ==
    /\ g \in [0..n -> Banco] /\ g[0] = regs
    /\ \A k \in 1..n : g[k] = Efecto(g[k - 1], programa[k])

\* The registers after each line of a program exist: by induction over its
\* lines.
LEMMA TrasExiste ==
    ASSUME NEW programa, NEW n \in Nat, \A k \in 1..n : EsInstruccion(programa[k]),
           NEW regs \in Banco
    PROVE  \E g : Tras(g, programa, n, regs)
<1> DEFINE paso == [k \in 1..n |-> [v \in Banco |-> Efecto(v, programa[k])]]
<1>1. EsPaso(paso, n, Banco)
  <2>1. \A k \in 1..n : \A v \in Banco : Efecto(v, programa[k]) \in Banco
    BY EfectoTipo, Zenon
  <2> QED BY <2>1 DEF EsPaso
<1>2. PICK g : EsRecursion(g, n, Banco, regs, paso)
  <2> HIDE DEF paso
  <2> QED BY <1>1, Recursion, Zenon
<1>3. g \in [0..n -> Banco] /\ g[0] = regs
  <2> HIDE DEF paso
  <2> QED BY <1>2, Zenon DEF EsRecursion
<1>4. ASSUME NEW k \in 1..n PROVE g[k] = Efecto(g[k - 1], programa[k])
  <2>1. g[k] = paso[k][g[k - 1]]
    <3> HIDE DEF paso
    <3> QED BY <1>2, Zenon DEF EsRecursion
  <2>2. k - 1 \in 0..n
    OBVIOUS
  <2>3. g[k - 1] \in Banco
    BY <1>3, <2>2, Zenon
  <2> QED BY <2>1, <2>3, Zenon
<1> QED BY <1>3, <1>4, Zenon DEF Tras

\* The reference definition, recursive, computes them.
LEMMA ResultadoEs ==
    ASSUME NEW programa, NEW n \in Nat, NEW regs, NEW g, Tras(g, programa, n, regs),
           NEW m \in Nat, m <= n
    PROVE  Resultado(programa, m, regs) = g[m]
<1> DEFINE E(f) == [i \in 0..m |-> IF i = 0 THEN regs ELSE Efecto(f[i - 1], programa[i])]
           F == CHOOSE f : f = E(f)
           h == [i \in 0..m |-> g[i]]
<1>1. h = E(h)
  <2> SUFFICES ASSUME NEW i \in 0..m
               PROVE  g[i] = IF i = 0 THEN regs ELSE Efecto(h[i - 1], programa[i])
    BY Zenon
  <2>1. CASE i = 0
    BY <2>1, Zenon DEF Tras
  <2>2. CASE i # 0
    <3>1. i - 1 \in 0..m /\ i \in 1..n
      BY <2>2
    <3>2. h[i - 1] = g[i - 1]
      BY <3>1, Zenon
    <3>3. g[i] = Efecto(g[i - 1], programa[i])
      BY <3>1, Zenon DEF Tras
    <3> QED BY <2>2, <3>2, <3>3, Zenon
  <2> QED BY <2>1, <2>2
<1>2. F = E(F)
  <2> HIDE DEF h, E
  <2> QED BY <1>1
<1>3. Resultado(programa, m, regs) = F[m]
  BY Zenon DEF Resultado
<1>4. \A i \in 0..m : F[i] = IF i = 0 THEN regs ELSE Efecto(F[i - 1], programa[i])
  <2> HIDE DEF F
  <2> QED BY <1>2, Zenon
<1> HIDE DEF F
<1> DEFINE T == {i \in Nat : i <= m => F[i] = g[i]}
<1>5. 0 \in T
  <2>1. 0 \in 0..m
    OBVIOUS
  <2>2. F[0] = regs /\ g[0] = regs
    BY <1>4, <2>1, Zenon DEF Tras
  <2> QED BY <2>2
<1>6. ASSUME NEW i \in Nat, i \in T PROVE i + 1 \in T
  <2> SUFFICES ASSUME i + 1 <= m PROVE F[i + 1] = g[i + 1]
    OBVIOUS
  <2>1. F[i] = g[i]
    BY <1>6
  <2>2. i + 1 \in 0..m /\ i + 1 # 0 /\ (i + 1) - 1 = i /\ i + 1 \in 1..n
    OBVIOUS
  <2>3. F[i + 1] = Efecto(F[i], programa[i + 1])
    BY <1>4, <2>2, Zenon
  <2>4. g[i + 1] = Efecto(g[i], programa[i + 1])
    BY <2>2, Zenon DEF Tras
  <2> QED BY <2>1, <2>3, <2>4, Zenon
<1>7. m \in T /\ m <= m
  <2> HIDE DEF T
  <2>1. Nat \subseteq T
    BY <1>5, <1>6, InduccionNat
  <2> QED BY <2>1
<1> QED BY <1>3, <1>7

\* One line more is the effect of that line: the recursion unfolded, for a
\* program of any length.
LEMMA ResultadoPasoAPaso ==
    ASSUME NEW programa, NEW n \in Nat, \A k \in 1..n : EsInstruccion(programa[k]),
           NEW regs \in Banco
    PROVE  /\ Resultado(programa, 0, regs) = regs
           /\ \A m \in Nat : m < n =>
                 Resultado(programa, m + 1, regs)
                     = Efecto(Resultado(programa, m, regs), programa[m + 1])
<1>1. PICK g : Tras(g, programa, n, regs)
  BY TrasExiste
<1>2. 0 \in Nat /\ 0 <= n
  OBVIOUS
<1>3. Resultado(programa, 0, regs) = regs
  <2>1. Resultado(programa, 0, regs) = g[0]
    BY <1>1, <1>2, ResultadoEs
  <2> QED BY <1>1, <2>1, Zenon DEF Tras
<1>4. ASSUME NEW m \in Nat, m < n
      PROVE  Resultado(programa, m + 1, regs)
                 = Efecto(Resultado(programa, m, regs), programa[m + 1])
  <2>1. PICK k \in Nat : k = m + 1 /\ k <= n /\ k \in 1..n /\ k - 1 = m /\ m <= n
    BY <1>4
  <2>2. Resultado(programa, k, regs) = g[k]
    BY <1>1, <2>1, ResultadoEs
  <2>3. Resultado(programa, m, regs) = g[m]
    BY <1>1, <2>1, ResultadoEs
  <2>4. g[k] = Efecto(g[m], programa[k])
    BY <1>1, <2>1, Zenon DEF Tras
  <2> QED BY <2>1, <2>2, <2>3, <2>4, Zenon
<1> QED BY <1>3, <1>4, Zenon

-----------------------------------------------------------------------------
(* The invariant *)

\* instruccion is what decode made of the line n.
Tomada(n) == n \in 1..Len(instrucciones) /\ instruccion = decode(instrucciones[n])

\* Where instruccion comes from at each stage.
Curso ==
    /\ etapa = "execute" => Tomada(programCounter + 1)
    /\ etapa \in {"condicion", "fetch"} =>
          (instruccion = SinIniciar /\ programCounter = 0) \/ Tomada(programCounter)

\* RegistrosFieles, in the middle of a turn as well.
FielesEnCurso ==
    etapa \in {"condicion", "fetch", "execute"} /\ Correcto(instrucciones) =>
        registros = Resultado(instrucciones, programCounter, alEntrar)

\* No line up to the n-th is an EXIT.
SinExit(n) == \A k \in 1..n : instrucciones[k] # <<"exit">>

\* The line just executed is the first EXIT, and it was answered.
Terminada ==
    /\ programCounter \in 1..Len(instrucciones) /\ instrucciones[programCounter] = <<"exit">>
    /\ SinExit(programCounter - 1)
    /\ respuestas = <<[programCounter |-> programCounter - 1, motivo |-> "EXIT"]>>

\* UnaRespuesta, at every stage: the first EXIT is the only answer.
Contestada ==
    Correcto(instrucciones) =>
        /\ etapa \in {"fetch", "execute"} => respuestas = <<>> /\ SinExit(programCounter)
        /\ etapa = "condicion" =>
              \/ respuestas = <<>> /\ SinExit(programCounter)
              \/ Terminada /\ instruccion = decode(<<"exit">>)
        /\ etapa = "espera" => instruccion = SinIniciar \/ Terminada
        /\ etapa = "muerta" => instruccion = SinIniciar

\* While no instruction was taken, nothing was done.
Intacto == NadaTomado => respuestas = <<>> /\ registros = alEntrar

\* The inductive invariant.
IInv == TypeOK /\ Curso /\ FielesEnCurso /\ Contestada /\ Intacto

\* The invariant holds before the first PCB.
LEMMA InitIInv == Init => IInv
<1> SUFFICES ASSUME Init PROVE IInv
  OBVIOUS
<1>1. /\ etapa = "espera" /\ instrucciones = <<>> /\ programCounter = 0 /\ instruccion = SinIniciar
      /\ registros = [r \in Registro |-> 0] /\ alEntrar = registros
      /\ respuestas = <<>> /\ atendidos = 0
  BY Zenon DEF Init
<1>2. TypeOK
  BY <1>1, Cotas DEF TypeOK
<1>3. Curso /\ FielesEnCurso
  BY <1>1 DEF Curso, FielesEnCurso
<1>4. Contestada
  <2>1. etapa \notin {"fetch", "execute"} /\ etapa # "condicion" /\ etapa # "muerta"
    BY <1>1
  <2> QED BY <1>1, <2>1, Zenon DEF Contestada
<1>5. Intacto
  BY <1>1, Zenon DEF Intacto
<1> QED BY <1>2, <1>3, <1>4, <1>5 DEF IInv

\* What TypeOK says of counter and registers.
LEMMA Largos ==
    ASSUME TypeOK
    PROVE  /\ Len(instrucciones) \in Nat /\ programCounter \in Nat
           /\ programCounter <= Len(instrucciones)
           /\ registros \in Banco /\ alEntrar \in Banco
<1>1. instrucciones \in Seq(Seq(STRING))
  <2>1. \A X : <<>> \in Seq(X)
    OBVIOUS
  <2>2. instrucciones \in Programas \/ instrucciones = <<>>
    BY DEF TypeOK
  <2>3. \A p \in Programas : p \in Seq(Seq(STRING))
    BY ProgramasSonLineas, Zenon
  <2> QED BY <2>1, <2>2, <2>3, Zenon
<1>2. Len(instrucciones) \in Nat
  BY <1>1
<1>3. programCounter \in 0..Len(instrucciones)
  BY DEF TypeOK
<1> QED BY <1>2, <1>3 DEF TypeOK, Banco, Valores

\* What any instruction may do: registers of their width, and one step forward.
LEMMA TipoEjecucion ==
    ASSUME TypeOK, Tomada(programCounter + 1), etapa = "execute", Avanzar,
           registros' \in Banco,
           \/ respuestas' = respuestas
           \/ respuestas' = Append(respuestas, [programCounter |-> programCounter, motivo |-> "EXIT"])
    PROVE  TypeOK'
<1>1. programCounter + 1 \in 1..Len(instrucciones)
  BY Zenon DEF Tomada
<1>2. /\ etapa' = "condicion" /\ programCounter' = programCounter + 1
      /\ instrucciones' = instrucciones /\ alEntrar' = alEntrar /\ atendidos' = atendidos
  BY Zenon DEF Avanzar
<1>3. Len(instrucciones) \in Nat /\ programCounter \in Nat
  BY Largos
<1>4. programCounter' \in 0..Len(instrucciones')
  BY <1>1, <1>2, <1>3
<1>5. respuestas' \in Seq([programCounter : Nat, motivo : {"EXIT"}])
  <2>1. respuestas \in Seq([programCounter : Nat, motivo : {"EXIT"}])
    BY DEF TypeOK
  <2>2. [programCounter |-> programCounter, motivo |-> "EXIT"] \in [programCounter : Nat, motivo : {"EXIT"}]
    BY <1>3
  <2>3. \A X : \A s \in Seq(X) : \A x \in X : Append(s, x) \in Seq(X)
    OBVIOUS
  <2> QED BY <2>1, <2>2, <2>3, Zenon
<1>6. registros' \in [Registro -> 0..(Tope - 1)]
  BY Zenon DEF Banco, Valores
<1> QED BY <1>2, <1>4, <1>5, <1>6, Zenon DEF TypeOK

\* Every step keeps the types. Curso is needed: an instruction may advance the
\* counter because there is a line under it.
LEMMA TipoPaso == TypeOK /\ Curso /\ Next => TypeOK'
<1> SUFFICES ASSUME TypeOK, Curso, Next PROVE TypeOK'
  OBVIOUS
<1>l. /\ Len(instrucciones) \in Nat /\ programCounter \in Nat
      /\ programCounter <= Len(instrucciones) /\ registros \in Banco /\ alEntrar \in Banco
  BY Largos
<1>e. etapa = "execute" => Tomada(programCounter + 1)
  BY Zenon DEF Curso
<1>o. etapa = "execute" /\ instruccion.tipo # "exit" =>
          EsOperando(instruccion.param1) /\ EsOperando(instruccion.param2)
  <2> SUFFICES ASSUME etapa = "execute", instruccion.tipo # "exit"
               PROVE  EsOperando(instruccion.param1) /\ EsOperando(instruccion.param2)
    OBVIOUS
  <2>1. PICK linea : instruccion = decode(linea)
    BY <1>e, Zenon DEF Tomada
  <2> QED BY <2>1, DecodeTipos, Zenon
<1>1. CASE Condicion
  <2>1. etapa' \in {"fetch", "espera", "muerta"}
    BY <1>1, Zenon DEF Condicion
  <2> QED BY <1>1, <2>1 DEF Condicion, TypeOK
<1>2. CASE FetchDecode
  <2>1. etapa' \in {"execute", "muerta"}
    BY <1>2, Zenon DEF FetchDecode
  <2>2. UNCHANGED <<instrucciones, programCounter, registros, alEntrar, respuestas, atendidos>>
    BY <1>2, Zenon DEF FetchDecode
  <2> QED BY <2>1, <2>2 DEF TypeOK
<1>3. CASE executeSET
  <2>1. PICK i, n, t, u : /\ i = instruccion.param1.valor /\ n = instruccion.param2.valor
                          /\ t = instruccion.param1.tipoParam /\ u = instruccion.param2.tipoParam
    BY Zenon
  <2>2. /\ etapa = "execute" /\ instruccion.tipo = "set" /\ Avanzar /\ respuestas' = respuestas
        /\ registros' = IF t = "REGISTRO" /\ u = "NUM"
                        THEN [registros EXCEPT ![i] = Mod(n)] ELSE registros
    BY <1>3, <2>1, Zenon DEF executeSET, En
  <2>3. n \in Nat /\ (t = "REGISTRO" => i \in Registro)
    <3>1. "set" # "exit"
      OBVIOUS
    <3> QED BY <1>o, <2>1, <2>2, <3>1, Zenon DEF EsOperando
  <2>4. PICK m \in Valores : m = Mod(n)
    BY <2>3, ModTipo, Zenon
  <2>5. registros' \in Banco
    <3>1. i \in Registro => [registros EXCEPT ![i] = m] \in Banco
      BY <1>l DEF Banco
    <3> QED BY <1>l, <2>2, <2>3, <2>4, <3>1, Zenon
  <2> QED BY <1>e, <2>2, <2>5, TipoEjecucion, Zenon
<1>4. CASE executeADD
  <2>1. PICK i, j : i = instruccion.param1.valor /\ j = instruccion.param2.valor
    BY Zenon
  <2>2. /\ etapa = "execute" /\ Avanzar /\ respuestas' = respuestas
        /\ i \in Registro /\ j \in Registro
        /\ registros' = [registros EXCEPT ![i] = Mod(registros[i] + registros[j])]
    BY <1>4, <2>1, Zenon DEF executeADD, En, Fuera
  <2>3. registros[i] + registros[j] \in Nat
    BY <1>l, <2>2, Cotas DEF Banco, Valores
  <2>4. PICK m \in Valores : m = Mod(registros[i] + registros[j])
    BY <2>3, ModTipo, Zenon
  <2>5. registros' \in Banco
    <3>1. [registros EXCEPT ![i] = m] \in Banco
      BY <1>l, <2>2 DEF Banco
    <3> QED BY <2>2, <2>4, <3>1, Zenon
  <2> QED BY <1>e, <2>2, <2>5, TipoEjecucion, Zenon
<1>5. CASE SumarFuera
  <2>1. etapa = "execute" /\ Avanzar /\ respuestas' = respuestas
    BY <1>5, Zenon DEF SumarFuera, En
  <2>2. PICK i : i = instruccion.param1.valor
    BY Zenon
  <2>3. \/ registros' = registros
        \/ i \in Registro /\ \E m \in Valores : registros' = [registros EXCEPT ![i] = m]
    BY <1>5, <2>2, Zenon DEF SumarFuera, Valores
  <2>4. registros' \in Banco
    BY <1>l, <2>3 DEF Banco
  <2> QED BY <1>e, <2>1, <2>4, TipoEjecucion, Zenon
<1>6. CASE MorirPorADD
  BY <1>6 DEF MorirPorADD, TypeOK
<1>7. CASE SinEfecto
  <2>1. etapa = "execute" /\ Avanzar /\ respuestas' = respuestas /\ registros' = registros
    BY <1>7, Zenon DEF SinEfecto, En
  <2> QED BY <1>e, <1>l, <2>1, TipoEjecucion, Zenon
<1>8. CASE executeEXIT
  <2>1. /\ etapa = "execute" /\ Avanzar /\ registros' = registros
        /\ respuestas' = Append(respuestas, [programCounter |-> programCounter, motivo |-> "EXIT"])
    BY <1>8, Zenon DEF executeEXIT, En
  <2> QED BY <1>e, <1>l, <2>1, TipoEjecucion, Zenon
<1>9. ASSUME NEW programa \in Programas, Llamar(programa) PROVE TypeOK'
  <2>1. /\ atendidos < MaxPCBs /\ instrucciones' = programa /\ programCounter' = 0
        /\ alEntrar' = registros /\ respuestas' = <<>> /\ atendidos' = atendidos + 1
        /\ etapa' = "condicion" /\ registros' = registros
    BY <1>9, Zenon DEF Llamar
  <2>2. Len(programa) \in Nat
    BY ProgramasSonLineas
  <2>3. atendidos' \in 0..MaxPCBs
    BY <2>1, Cotas DEF TypeOK
  <2>4. programCounter' \in 0..Len(instrucciones')
    BY <2>1, <2>2
  <2> QED BY <2>1, <2>3, <2>4 DEF TypeOK
<1> QED BY <1>1, <1>2, <1>3, <1>4, <1>5, <1>6, <1>7, <1>8, <1>9, Zenon DEF Next, Ciclo

\* instruccion always comes from the line the counter says, or nobody wrote it
\* since the PCB came.
LEMMA CursoPaso == TypeOK /\ Curso /\ Next => Curso'
<1> SUFFICES ASSUME TypeOK, Curso, Next PROVE Curso'
  OBVIOUS
<1>l. Len(instrucciones) \in Nat /\ programCounter \in Nat
  BY Largos
<1>e. /\ etapa = "execute" => Tomada(programCounter + 1)
      /\ etapa = "condicion" \/ etapa = "fetch" =>
            (instruccion = SinIniciar /\ programCounter = 0) \/ Tomada(programCounter)
  BY Zenon DEF Curso
<1>1. CASE Condicion
  <2>1. /\ etapa = "condicion" /\ etapa' \in {"fetch", "espera", "muerta"}
        /\ instrucciones' = instrucciones /\ programCounter' = programCounter
        /\ instruccion' = instruccion
    BY <1>1, Zenon DEF Condicion
  <2>2. etapa' # "execute"
    BY <2>1
  <2> QED BY <1>e, <2>1, <2>2, Zenon DEF Curso, Tomada
<1>2. CASE FetchDecode
  <2>1. PICK hay : hay <=> programCounter < Len(instrucciones)
                               /\ Decodificable(instrucciones[programCounter + 1])
    BY Zenon
  <2>2. /\ hay => etapa' = "execute" /\ instruccion' = decode(instrucciones[programCounter + 1])
        /\ ~hay => etapa' = "muerta"
        /\ instrucciones' = instrucciones /\ programCounter' = programCounter
    BY <1>2, <2>1, Zenon DEF FetchDecode
  <2>3. CASE hay
    <3>1. programCounter < Len(instrucciones)
      BY <2>1, <2>3
    <3>2. programCounter + 1 \in 1..Len(instrucciones)
      BY <1>l, <3>1
    <3>3. etapa' = "execute" /\ etapa' \notin {"condicion", "fetch"}
      BY <2>2, <2>3
    <3> QED BY <2>2, <2>3, <3>2, <3>3, Zenon DEF Curso, Tomada
  <2>4. CASE ~hay
    <3>1. etapa' # "execute" /\ etapa' \notin {"condicion", "fetch"}
      BY <2>2, <2>4
    <3> QED BY <3>1, Zenon DEF Curso
  <2> QED BY <2>3, <2>4
<1>3. CASE executeSET \/ executeADD \/ SumarFuera \/ SinEfecto \/ executeEXIT
  <2>1. etapa = "execute" /\ Avanzar
    BY <1>3, Zenon DEF executeSET, executeADD, SumarFuera, SinEfecto, executeEXIT, En
  <2>2. /\ etapa' = "condicion" /\ programCounter' = programCounter + 1
        /\ instrucciones' = instrucciones /\ instruccion' = instruccion
    BY <2>1, Zenon DEF Avanzar
  <2>3. etapa' # "execute"
    BY <2>2
  <2> QED BY <1>e, <2>1, <2>2, <2>3, Zenon DEF Curso, Tomada
<1>4. CASE MorirPorADD
  <2>1. etapa' = "muerta"
    BY <1>4, Zenon DEF MorirPorADD
  <2> QED BY <2>1 DEF Curso
<1>5. ASSUME NEW programa \in Programas, Llamar(programa) PROVE Curso'
  <2>1. etapa' = "condicion" /\ programCounter' = 0 /\ instruccion' = SinIniciar
    BY <1>5, Zenon DEF Llamar
  <2> QED BY <2>1 DEF Curso
<1> QED BY <1>1, <1>2, <1>3, <1>4, <1>5, Zenon DEF Next, Ciclo

\* An instruction of a right program does what its line says, and only EXIT is
\* answered.
LEMMA Fiel ==
    ASSUME NEW linea, EsInstruccion(linea), instruccion = decode(linea), registros \in Banco,
           executeSET \/ executeADD \/ SumarFuera \/ MorirPorADD \/ SinEfecto \/ executeEXIT
    PROVE  /\ Avanzar /\ registros' = Efecto(registros, linea)
           /\ linea # <<"exit">> => respuestas' = respuestas
           /\ linea = <<"exit">> => respuestas' =
                 Append(respuestas, [programCounter |-> programCounter, motivo |-> "EXIT"])
<1>1. CASE linea = <<"exit">>
  <2>1. instruccion.tipo = "exit"
    BY <1>1, DecodeExit, Zenon
  <2>2. ~executeSET /\ ~executeADD /\ ~SumarFuera /\ ~MorirPorADD /\ ~SinEfecto
    <3>1. instruccion.tipo \notin {"set"} /\ instruccion.tipo \notin {"add"}
          /\ instruccion.tipo \notin {"mov_in", "mov_out", "i/o", "ind"}
      BY <2>1
    <3> QED BY <3>1, Zenon DEF executeSET, executeADD, SumarFuera, MorirPorADD, SinEfecto, En
  <2>3. executeEXIT
    BY <2>2, Zenon
  <2>4. /\ Avanzar /\ registros' = registros
        /\ respuestas' = Append(respuestas, [programCounter |-> programCounter, motivo |-> "EXIT"])
    BY <2>3, Zenon DEF executeEXIT
  <2>5. Efecto(registros, linea) = registros
    <3>1. linea[1] # "set" /\ linea[1] # "add"
      BY <1>1
    <3> QED BY <3>1, Zenon DEF Efecto
  <2> QED BY <1>1, <2>4, <2>5, Zenon
<1>2. CASE linea # <<"exit">>
  <2>1. PICK uno, dos, tres : uno = linea[1] /\ dos = linea[2] /\ tres = linea[3]
    BY Zenon
  <2>2. /\ instruccion.tipo = uno /\ uno \in {"set", "add", "mov_in", "mov_out", "i/o"}
        /\ instruccion.param1 = deducirParametro(dos) /\ instruccion.param2 = deducirParametro(tres)
        /\ uno = "set" => dos \in Range(Nombres) /\ tres \in DOMAIN Numeros
        /\ uno = "add" => dos \in Range(Nombres) /\ tres \in Range(Nombres)
    BY <1>2, <2>1, DecodeInstruccion, Zenon
  <2>3. /\ uno \notin {"exit"} /\ uno \notin {"ind"}
        /\ uno \in {"set"} => uno \notin {"add"} /\ uno \notin {"mov_in", "mov_out", "i/o", "ind"}
        /\ uno \in {"add"} => uno \notin {"set"} /\ uno \notin {"mov_in", "mov_out", "i/o", "ind"}
                                 /\ uno # "set"
    BY <2>2
  <2>4. ~executeEXIT
    BY <2>2, <2>3, Zenon DEF executeEXIT, En
  <2>5. CASE uno = "set"
    <3>1. executeSET
      BY <2>2, <2>3, <2>4, <2>5, Zenon DEF executeADD, SumarFuera, MorirPorADD, SinEfecto, En
    <3>2. /\ instruccion.param1.tipoParam = "REGISTRO" /\ instruccion.param1.valor = Indice(dos)
          /\ instruccion.param2.tipoParam = "NUM" /\ instruccion.param2.valor = Numeros[tres]
      BY <2>2, <2>5, CamposDelParametro, Zenon
    <3>3. /\ Avanzar /\ respuestas' = respuestas
          /\ registros' = [registros EXCEPT ![Indice(dos)] = Mod(Numeros[tres])]
      BY <3>1, <3>2, Zenon DEF executeSET
    <3>4. Efecto(registros, linea) = [registros EXCEPT ![Indice(dos)] = Mod(Numeros[tres])]
      BY <2>1, <2>5, Zenon DEF Efecto
    <3> QED BY <1>2, <3>3, <3>4, Zenon
  <2>6. CASE uno = "add"
    <3>1. /\ instruccion.param1.tipoParam = "REGISTRO" /\ instruccion.param1.valor = Indice(dos)
          /\ instruccion.param2.tipoParam = "REGISTRO" /\ instruccion.param2.valor = Indice(tres)
          /\ Indice(dos) \in Registro /\ Indice(tres) \in Registro
      BY <2>2, <2>6, CamposDelParametro, Zenon
    <3>2. Sumables /\ ~Fuera
      BY <3>1, Zenon DEF Sumables, Fuera
    <3>3. executeADD
      BY <2>2, <2>3, <2>4, <2>6, <3>2, Zenon DEF executeSET, SumarFuera, MorirPorADD, SinEfecto, En
    <3>4. /\ Avanzar /\ respuestas' = respuestas
          /\ registros' = [registros EXCEPT ![Indice(dos)] =
                              Mod(registros[Indice(dos)] + registros[Indice(tres)])]
      BY <3>1, <3>3, Zenon DEF executeADD
    <3>5. Efecto(registros, linea) =
              [registros EXCEPT ![Indice(dos)] =
                  Mod(registros[Indice(dos)] + registros[Indice(tres)])]
      BY <2>1, <2>3, <2>6, Zenon DEF Efecto
    <3> QED BY <1>2, <3>4, <3>5, Zenon
  <2>7. CASE uno \notin {"set"} /\ uno \notin {"add"}
    <3>1. SinEfecto
      BY <2>2, <2>4, <2>7, Zenon DEF executeSET, executeADD, SumarFuera, MorirPorADD, En
    <3>2. Avanzar /\ respuestas' = respuestas /\ registros' = registros
      BY <3>1, Zenon DEF SinEfecto
    <3>3. uno # "set" /\ uno # "add"
      BY <2>7
    <3>4. Efecto(registros, linea) = registros
      BY <2>1, <3>3, Zenon DEF Efecto
    <3> QED BY <1>2, <3>2, <3>4, Zenon
  <2>8. uno = "set" \/ uno = "add" \/ (uno \notin {"set"} /\ uno \notin {"add"})
    OBVIOUS
  <2> QED BY <2>5, <2>6, <2>7, <2>8, Zenon
<1> QED BY <1>1, <1>2

\* What a right program is.
LEMMA CorrectoDice ==
    ASSUME Correcto(instrucciones)
    PROVE  /\ \A k \in 1..Len(instrucciones) : EsInstruccion(instrucciones[k])
           /\ \E k \in 1..Len(instrucciones) : instrucciones[k] = <<"exit">>
BY Zenon DEF Correcto

\* Any of the instructions, in a right program.
Ejecucion == executeSET \/ executeADD \/ SumarFuera \/ MorirPorADD \/ SinEfecto \/ executeEXIT

\* In a right program, executing a line has the effect of the line, with the
\* checks of the code (the chained comparison of executeADD among them).
LEMMA EjecucionFiel ==
    ASSUME TypeOK, Curso, Correcto(instrucciones), Ejecucion
    PROVE  LET linea == instrucciones[programCounter + 1]
           IN  /\ etapa = "execute" /\ Tomada(programCounter + 1) /\ EsInstruccion(linea)
               /\ Avanzar /\ registros' = Efecto(registros, linea)
               /\ linea # <<"exit">> => respuestas' = respuestas
               /\ linea = <<"exit">> => respuestas' =
                     Append(respuestas, [programCounter |-> programCounter, motivo |-> "EXIT"])
<1>1. etapa = "execute"
  BY Zenon DEF Ejecucion, executeSET, executeADD, SumarFuera, MorirPorADD, SinEfecto, executeEXIT, En
<1>2. Tomada(programCounter + 1)
  BY <1>1, Zenon DEF Curso
<1>3. PICK linea : linea = instrucciones[programCounter + 1]
  BY Zenon
<1>4. EsInstruccion(linea) /\ instruccion = decode(linea)
  BY <1>2, <1>3, CorrectoDice, Zenon DEF Tomada
<1>5. registros \in Banco
  BY Largos
<1>6. /\ Avanzar /\ registros' = Efecto(registros, linea)
      /\ linea # <<"exit">> => respuestas' = respuestas
      /\ linea = <<"exit">> => respuestas' =
            Append(respuestas, [programCounter |-> programCounter, motivo |-> "EXIT"])
  BY <1>4, <1>5, Fiel DEF Ejecucion
<1> QED BY <1>1, <1>2, <1>3, <1>4, <1>6, Zenon

\* Every step keeps the registers those of the reference.
LEMMA FielPaso == TypeOK /\ Curso /\ FielesEnCurso /\ Next => FielesEnCurso'
<1> SUFFICES ASSUME TypeOK, Curso, FielesEnCurso, Next PROVE FielesEnCurso'
  OBVIOUS
<1>l. /\ Len(instrucciones) \in Nat /\ programCounter \in Nat
      /\ registros \in Banco /\ alEntrar \in Banco
  BY Largos
<1>1. CASE Condicion \/ FetchDecode
  <2>1. /\ etapa \in {"condicion", "fetch", "execute"}
        /\ instrucciones' = instrucciones /\ programCounter' = programCounter
        /\ registros' = registros /\ alEntrar' = alEntrar
    BY <1>1, Zenon DEF Condicion, FetchDecode
  <2> QED BY <2>1, Zenon DEF FielesEnCurso
<1>2. CASE Ejecucion
  <2> SUFFICES ASSUME etapa' \in {"condicion", "fetch", "execute"}, Correcto(instrucciones)'
               PROVE  registros' = Resultado(instrucciones', programCounter', alEntrar')
    BY Zenon DEF FielesEnCurso
  <2>1. instrucciones' = instrucciones /\ alEntrar' = alEntrar
    BY <1>2, Zenon DEF Ejecucion, executeSET, executeADD, SumarFuera, MorirPorADD, SinEfecto,
                       executeEXIT, Avanzar
  <2>2. Correcto(instrucciones)
    BY <2>1, Zenon DEF Correcto
  <2>3. /\ etapa = "execute" /\ Tomada(programCounter + 1) /\ Avanzar
        /\ registros' = Efecto(registros, instrucciones[programCounter + 1])
    BY <1>2, <2>2, EjecucionFiel
  <2>4. programCounter + 1 \in 1..Len(instrucciones)
    BY <2>3, Zenon DEF Tomada
  <2>5. programCounter < Len(instrucciones)
    BY <1>l, <2>4
  <2>6. Resultado(instrucciones, programCounter + 1, alEntrar)
            = Efecto(Resultado(instrucciones, programCounter, alEntrar),
                     instrucciones[programCounter + 1])
    BY <1>l, <2>2, <2>5, CorrectoDice, ResultadoPasoAPaso
  <2>7. registros = Resultado(instrucciones, programCounter, alEntrar)
    BY <2>2, <2>3, Zenon DEF FielesEnCurso
  <2> QED BY <2>1, <2>3, <2>6, <2>7, Zenon DEF Avanzar
<1>3. ASSUME NEW programa \in Programas, Llamar(programa) PROVE FielesEnCurso'
  <2>1. programCounter' = 0 /\ alEntrar' = registros /\ registros' = registros
    BY <1>3, Zenon DEF Llamar
  <2>2. Resultado(instrucciones', 0, registros) = registros
    <3>1. PICK p : p = instrucciones'
      BY Zenon
    <3>2. 0 \in Nat /\ \A k \in 1..0 : EsInstruccion(p[k])
      OBVIOUS
    <3>3. Resultado(p, 0, registros) = registros
      BY <1>l, <3>2, ResultadoPasoAPaso
    <3> QED BY <3>1, <3>3, Zenon
  <2> QED BY <2>1, <2>2, Zenon DEF FielesEnCurso
<1> QED BY <1>1, <1>2, <1>3, Zenon DEF Next, Ciclo, Ejecucion

\* A right program has an EXIT to execute while none was.
LEMMA FaltaElExit ==
    ASSUME TypeOK, Correcto(instrucciones), SinExit(programCounter)
    PROVE  /\ programCounter < Len(instrucciones)
           /\ Decodificable(instrucciones[programCounter + 1])
<1>1. Len(instrucciones) \in Nat /\ programCounter \in Nat
  BY Largos
<1>2. PICK k \in 1..Len(instrucciones) : instrucciones[k] = <<"exit">>
  BY CorrectoDice
<1>3. k \notin 1..programCounter
  BY <1>2, Zenon DEF SinExit
<1>4. programCounter < Len(instrucciones) /\ programCounter + 1 \in 1..Len(instrucciones)
  BY <1>1, <1>2, <1>3
<1>5. PICK linea : linea = instrucciones[programCounter + 1]
  BY Zenon
<1>6. EsInstruccion(linea)
  BY <1>4, <1>5, CorrectoDice, Zenon
<1>7. CASE linea = <<"exit">>
  BY <1>4, <1>5, <1>7, Zenon DEF Decodificable
<1>8. CASE linea # <<"exit">>
  BY <1>4, <1>5, <1>6, <1>8, DecodeInstruccion, Zenon
<1> QED BY <1>7, <1>8

\* The instruction that was just executed, when it was not EXIT, goes on.
LEMMA SigueElCiclo ==
    ASSUME Correcto(instrucciones), NEW n, Tomada(n), instrucciones[n] # <<"exit">>
    PROVE  instruccion # SinIniciar /\ instruccion.tipo \notin {"exit", "ind"}
<1>1. PICK linea : linea = instrucciones[n]
  BY Zenon
<1>2. EsInstruccion(linea) /\ linea # <<"exit">> /\ instruccion = decode(linea)
  BY <1>1, CorrectoDice, Zenon DEF Tomada
<1>3. instruccion # SinIniciar
  BY <1>2, DecodeTipos, Zenon
<1>4. instruccion.tipo \in {"set", "add", "mov_in", "mov_out", "i/o"}
  BY <1>2, DecodeInstruccion, Zenon
<1>5. instruccion.tipo \notin {"exit", "ind"}
  BY <1>4
<1> QED BY <1>3, <1>5

\* Every step keeps the only answer that of the first EXIT.
LEMMA RespuestaPaso == TypeOK /\ Curso /\ Contestada /\ Next => Contestada'
<1> SUFFICES ASSUME TypeOK, Curso, Contestada, Next, Correcto(instrucciones)'
             PROVE  /\ etapa' \in {"fetch", "execute"} => respuestas' = <<>> /\ SinExit(programCounter)'
                    /\ etapa' = "condicion" =>
                          \/ respuestas' = <<>> /\ SinExit(programCounter)'
                          \/ Terminada' /\ instruccion' = decode(<<"exit">>)
                    /\ etapa' = "espera" => instruccion' = SinIniciar \/ Terminada'
                    /\ etapa' = "muerta" => instruccion' = SinIniciar
  BY Zenon DEF Contestada
<1>l. Len(instrucciones) \in Nat /\ programCounter \in Nat
  BY Largos
<1>d. \A e \in {"espera", "condicion", "fetch", "execute", "muerta"} :
          /\ e \in {"fetch", "execute"} => e # "condicion" /\ e # "espera" /\ e # "muerta"
          /\ e = "condicion" => e \notin {"fetch", "execute"} /\ e # "espera" /\ e # "muerta"
          /\ e = "espera" => e \notin {"fetch", "execute"} /\ e # "condicion" /\ e # "muerta"
          /\ e = "muerta" => e \notin {"fetch", "execute"} /\ e # "condicion" /\ e # "espera"
  OBVIOUS
<1>1. CASE Condicion
  <2>1. /\ etapa = "condicion"
        /\ etapa' \in IF instruccion = SinIniciar THEN {"fetch", "espera", "muerta"}
                      ELSE IF instruccion.tipo \in {"exit", "ind"} THEN {"espera"}
                      ELSE {"fetch"}
        /\ instrucciones' = instrucciones /\ programCounter' = programCounter
        /\ instruccion' = instruccion /\ respuestas' = respuestas
    BY <1>1, Zenon DEF Condicion
  <2>2. Correcto(instrucciones)
    BY <2>1, Zenon DEF Correcto
  <2>3. \/ respuestas = <<>> /\ SinExit(programCounter)
        \/ Terminada /\ instruccion = decode(<<"exit">>)
    BY <2>1, <2>2, Zenon DEF Contestada
  <2>4. (instruccion = SinIniciar /\ programCounter = 0) \/ Tomada(programCounter)
    BY <2>1, Zenon DEF Curso
  <2>5. SinExit(programCounter)' <=> SinExit(programCounter)
    BY <2>1, Zenon DEF SinExit
  <2>6. CASE respuestas = <<>> /\ SinExit(programCounter)
    <3>1. CASE instruccion = SinIniciar
      <4>1. etapa' = "fetch" \/ etapa' = "espera" \/ etapa' = "muerta"
        BY <2>1, <3>1, Zenon
      <4>2. etapa' # "condicion"
        BY <4>1
      <4> QED BY <2>1, <2>5, <2>6, <3>1, <4>2, Zenon
    <3>2. CASE Tomada(programCounter) /\ instruccion # SinIniciar
      <4>1. programCounter \in 1..programCounter
        <5>1. programCounter \in 1..Len(instrucciones)
          BY <3>2, Zenon DEF Tomada
        <5> QED BY <1>l, <5>1
      <4>2. instrucciones[programCounter] # <<"exit">>
        BY <2>6, <4>1, Zenon DEF SinExit
      <4>3. instruccion.tipo \notin {"exit", "ind"}
        BY <2>2, <3>2, <4>2, SigueElCiclo, Zenon
      <4>4. etapa' = "fetch"
        BY <2>1, <3>2, <4>3, Zenon
      <4>5. etapa' # "condicion" /\ etapa' # "espera" /\ etapa' # "muerta"
        BY <4>4
      <4> QED BY <2>1, <2>5, <2>6, <4>5, Zenon
    <3> QED BY <2>4, <3>1, <3>2, Zenon
  <2>7. CASE Terminada /\ instruccion = decode(<<"exit">>)
    <3>1. instruccion # SinIniciar /\ instruccion.tipo \in {"exit", "ind"}
      BY <2>7, DecodeExit, DecodeTipos, Zenon
    <3>2. etapa' = "espera"
      BY <2>1, <3>1, Zenon
    <3>3. etapa' # "condicion" /\ etapa' \notin {"fetch", "execute"} /\ etapa' # "muerta"
      BY <3>2
    <3>4. Terminada'
      BY <2>1, <2>7, Zenon DEF Terminada, SinExit
    <3> QED BY <3>3, <3>4, Zenon
  <2> QED BY <2>3, <2>6, <2>7
<1>2. CASE FetchDecode
  <2>1. PICK n : n = programCounter
    BY Zenon
  <2>2. /\ etapa = "fetch" /\ instrucciones' = instrucciones /\ programCounter' = programCounter
        /\ respuestas' = respuestas
        /\ etapa' = IF programCounter < Len(instrucciones)
                          /\ Decodificable(instrucciones[programCounter + 1])
                    THEN "execute" ELSE "muerta"
    BY <1>2, Zenon DEF FetchDecode
  <2>3. Correcto(instrucciones)
    BY <2>2, Zenon DEF Correcto
  <2>4. respuestas = <<>> /\ SinExit(programCounter)
    <3>1. etapa \in {"fetch", "execute"}
      BY <2>2
    <3> QED BY <2>3, <3>1, Zenon DEF Contestada
  <2>5. etapa' = "execute"
    BY <2>2, <2>3, <2>4, FaltaElExit, Zenon
  <2>6. etapa' # "condicion" /\ etapa' # "espera" /\ etapa' # "muerta"
    BY <2>5
  <2>7. SinExit(programCounter)'
    BY <2>2, <2>4, Zenon DEF SinExit
  <2> QED BY <2>2, <2>4, <2>6, <2>7, Zenon
<1>3. CASE Ejecucion
  <2>1. instrucciones' = instrucciones
    BY <1>3, Zenon DEF Ejecucion, executeSET, executeADD, SumarFuera, MorirPorADD, SinEfecto,
                       executeEXIT, Avanzar
  <2>2. Correcto(instrucciones)
    BY <2>1, Zenon DEF Correcto
  <2>3. PICK linea : linea = instrucciones[programCounter + 1]
    BY Zenon
  <2>4. /\ etapa = "execute" /\ Tomada(programCounter + 1) /\ Avanzar
        /\ linea # <<"exit">> => respuestas' = respuestas
        /\ linea = <<"exit">> => respuestas' =
              Append(respuestas, [programCounter |-> programCounter, motivo |-> "EXIT"])
    BY <1>3, <2>2, <2>3, EjecucionFiel
  <2>5. /\ etapa' = "condicion" /\ programCounter' = programCounter + 1
        /\ instruccion' = instruccion
    BY <2>4, Zenon DEF Avanzar
  <2>6. etapa' # "espera" /\ etapa' # "muerta" /\ etapa' \notin {"fetch", "execute"}
    BY <2>5
  <2>7. respuestas = <<>> /\ SinExit(programCounter)
    <3>1. etapa \in {"fetch", "execute"}
      BY <2>4
    <3> QED BY <2>2, <3>1, Zenon DEF Contestada
  <2>8. CASE linea # <<"exit">>
    <3>1. \A k \in 1..(programCounter + 1) : k \in 1..programCounter \/ k = programCounter + 1
      BY <1>l
    <3>2. SinExit(programCounter)'
      BY <2>1, <2>3, <2>5, <2>7, <2>8, <3>1, Zenon DEF SinExit
    <3> QED BY <2>4, <2>6, <2>7, <2>8, <3>2, Zenon
  <2>9. CASE linea = <<"exit">>
    <3>1. instruccion' = decode(<<"exit">>)
      BY <2>3, <2>4, <2>5, <2>9, Zenon DEF Tomada
    <3>2. (programCounter + 1) - 1 = programCounter
      BY <1>l
    <3>3. PICK r : r = [programCounter |-> programCounter, motivo |-> "EXIT"]
      BY Zenon
    <3>4. Append(<<>>, r) = <<r>>
      OBVIOUS
    <3>5. respuestas' = <<[programCounter |-> programCounter' - 1, motivo |-> "EXIT"]>>
      BY <2>4, <2>5, <2>7, <2>9, <3>2, <3>3, <3>4, Zenon
    <3>6. programCounter' \in 1..Len(instrucciones') /\ instrucciones'[programCounter'] = <<"exit">>
      BY <2>1, <2>3, <2>4, <2>5, <2>9, Zenon DEF Tomada
    <3>8. programCounter' - 1 = programCounter
      BY <1>l, <2>5
    <3>9. SinExit(programCounter - 1)'
      BY <2>1, <2>7, <3>8, Zenon DEF SinExit
    <3>7. Terminada'
      BY <3>5, <3>6, <3>9, Zenon DEF Terminada
    <3> QED BY <2>6, <3>1, <3>7, Zenon
  <2> QED BY <2>8, <2>9
<1>4. ASSUME NEW programa \in Programas, Llamar(programa)
      PROVE  /\ etapa' = "condicion" /\ respuestas' = <<>> /\ SinExit(programCounter)'
             /\ etapa' # "espera" /\ etapa' # "muerta" /\ etapa' \notin {"fetch", "execute"}
  <2>1. etapa' = "condicion" /\ respuestas' = <<>> /\ programCounter' = 0
    BY <1>4, Zenon DEF Llamar
  <2>2. etapa' # "espera" /\ etapa' # "muerta" /\ etapa' \notin {"fetch", "execute"}
    BY <2>1
  <2>3. SinExit(programCounter)'
    <3>1. \A k \in 1..0 : FALSE
      OBVIOUS
    <3> QED BY <2>1, <3>1, Zenon DEF SinExit
  <2> QED BY <2>1, <2>2, <2>3
<1> QED BY <1>1, <1>2, <1>3, <1>4, Zenon DEF Next, Ciclo, Ejecucion

\* Until an instruction is taken nothing is answered and no register is written.
LEMMA IntactoPaso == Curso /\ Intacto /\ Next => Intacto'
<1> SUFFICES ASSUME Curso, Intacto, Next PROVE Intacto'
  OBVIOUS
<1>1. CASE Condicion
  BY <1>1, Zenon DEF Condicion, Intacto, NadaTomado
<1>2. CASE FetchDecode
  <2>1. PICK linea : linea = instrucciones[programCounter + 1]
    BY Zenon
  <2>2. /\ instruccion' = instruccion \/ instruccion' = decode(linea)
        /\ registros' = registros /\ alEntrar' = alEntrar /\ respuestas' = respuestas
    BY <1>2, <2>1, Zenon DEF FetchDecode
  <2>3. decode(linea) # SinIniciar
    BY DecodeTipos, Zenon
  <2> QED BY <2>2, <2>3, Zenon DEF Intacto, NadaTomado
<1>3. CASE Ejecucion
  <2>1. etapa = "execute" /\ instruccion' = instruccion
    BY <1>3, Zenon DEF Ejecucion, executeSET, executeADD, SumarFuera, MorirPorADD, SinEfecto,
                       executeEXIT, Avanzar, En
  <2>2. PICK linea : instruccion = decode(linea)
    BY <2>1, Zenon DEF Curso, Tomada
  <2>3. instruccion' # SinIniciar
    BY <2>1, <2>2, DecodeTipos, Zenon
  <2> QED BY <2>3, Zenon DEF Intacto, NadaTomado
<1>4. CASE \E programa \in Programas : Llamar(programa)
  BY <1>4, Zenon DEF Llamar, Intacto
<1> QED BY <1>1, <1>2, <1>3, <1>4, Zenon DEF Next, Ciclo, Ejecucion

\* Every step keeps the invariant.
LEMMA IInvPaso == IInv /\ [Next]_vars => IInv'
<1> SUFFICES ASSUME IInv, [Next]_vars PROVE IInv'
  OBVIOUS
<1>1. CASE Next
  BY <1>1, TipoPaso, CursoPaso, FielPaso, RespuestaPaso, IntactoPaso, Zenon DEF IInv
<1>2. CASE UNCHANGED vars
  <2>1. /\ etapa' = etapa /\ instrucciones' = instrucciones /\ programCounter' = programCounter
        /\ instruccion' = instruccion /\ registros' = registros /\ alEntrar' = alEntrar
        /\ respuestas' = respuestas /\ atendidos' = atendidos
    BY <1>2, Zenon DEF vars
  <2>2. TypeOK'
    BY <2>1, Zenon DEF IInv, TypeOK
  <2>3. Curso'
    BY <2>1, Zenon DEF IInv, Curso, Tomada
  <2>4. FielesEnCurso'
    BY <2>1, Zenon DEF IInv, FielesEnCurso
  <2>5. Contestada'
    BY <2>1, Zenon DEF IInv, Contestada, SinExit, Terminada
  <2>6. Intacto'
    BY <2>1, Zenon DEF IInv, Intacto, NadaTomado
  <2> QED BY <2>2, <2>3, <2>4, <2>5, <2>6 DEF IInv
<1> QED BY <1>1, <1>2

\* The invariant of the instruction cycle, for all programs, values and widths
\* of the registers, and any number of PCBs.
THEOREM InvarianteDelCiclo == Spec => []IInv
<1> QED BY InitIInv, IInvPaso, PTL DEF Spec

\* Type correctness: the counter never leaves the list of instructions and a
\* register never leaves its width.
THEOREM TipoDelCiclo == Spec => []TypeOK
<1>1. IInv => TypeOK
  BY DEF IInv
<1> QED BY <1>1, InvarianteDelCiclo, PTL

\* RegistrosFieles: a program of known instructions, of any length, does to the
\* registers what its lines say, from whatever values the PCB before it left
\* there: fetch, decode and execute are right together, wrap-around included.
THEOREM LosRegistrosSonFieles == Spec => []RegistrosFieles
<1>1. IInv => RegistrosFieles
  <2>1. etapa = "condicion" => etapa \in {"condicion", "fetch", "execute"}
    OBVIOUS
  <2> QED BY <2>1, Zenon DEF IInv, FielesEnCurso, RegistrosFieles
<1> QED BY <1>1, InvarianteDelCiclo, PTL

\* What was answered, when the first EXIT was executed.
LEMMA TerminadaDice ==
    ASSUME TypeOK, Terminada
    PROVE  /\ respuestas # <<>>
           /\ \A i \in DOMAIN respuestas : i = 1 /\ DelPrimerExit(respuestas[i])
<1>1. PICK r : r = [programCounter |-> programCounter - 1, motivo |-> "EXIT"]
  BY Zenon
<1>2. programCounter \in Nat
  BY Largos
<1>3. r.programCounter = programCounter - 1 /\ r.programCounter + 1 = programCounter
  BY <1>1, <1>2
<1>4. /\ respuestas = <<r>> /\ instrucciones[programCounter] = <<"exit">>
      /\ SinExit(programCounter - 1)
  BY <1>1, Zenon DEF Terminada
<1>5. DelPrimerExit(r)
  BY <1>3, <1>4, Zenon DEF DelPrimerExit, SinExit
<1>6. <<r>> # <<>> /\ \A i \in DOMAIN <<r>> : i = 1 /\ <<r>>[i] = r
  OBVIOUS
<1> QED BY <1>4, <1>5, <1>6, Zenon

\* UnaRespuesta: such a program is answered at most once, by its first EXIT and
\* by nothing before; with an instruction taken it is answered before the cycle
\* is left, and cannot kill the CPU; with none, nothing was done.
THEOREM RespondeUnaVez == Spec => []UnaRespuesta
<1>1. IInv => UnaRespuesta
  <2> SUFFICES ASSUME IInv, Correcto(instrucciones)
               PROVE  /\ \A i \in DOMAIN respuestas : i = 1 /\ DelPrimerExit(respuestas[i])
                      /\ etapa \in {"fetch", "execute"} => respuestas = <<>>
                      /\ etapa = "espera" /\ ~NadaTomado => respuestas # <<>>
                      /\ etapa = "muerta" => NadaTomado
                      /\ NadaTomado => respuestas = <<>> /\ registros = alEntrar
    BY Zenon DEF UnaRespuesta
  <2>1. /\ etapa \in {"fetch", "execute"} => respuestas = <<>>
        /\ etapa = "condicion" => respuestas = <<>> \/ Terminada
        /\ etapa = "espera" => NadaTomado \/ Terminada
        /\ etapa = "muerta" => NadaTomado
    BY Zenon DEF IInv, Contestada, NadaTomado
  <2>2. NadaTomado => respuestas = <<>> /\ registros = alEntrar
    BY Zenon DEF IInv, Intacto
  <2>3. \/ etapa \in {"fetch", "execute"} \/ etapa = "condicion"
        \/ etapa = "espera" \/ etapa = "muerta"
    BY DEF IInv, TypeOK
  <2>4. respuestas = <<>> \/ Terminada
    BY <2>1, <2>2, <2>3, Zenon
  <2>5. Terminada => /\ respuestas # <<>>
                     /\ \A i \in DOMAIN respuestas : i = 1 /\ DelPrimerExit(respuestas[i])
    BY TerminadaDice, Zenon DEF IInv
  <2>6. respuestas = <<>> =>
            \A i \in DOMAIN respuestas : i = 1 /\ DelPrimerExit(respuestas[i])
    <3>1. \A i \in DOMAIN <<>> : FALSE
      OBVIOUS
    <3> QED BY <3>1, Zenon
  <2> QED BY <2>1, <2>2, <2>4, <2>5, <2>6, Zenon
<1> QED BY <1>1, InvarianteDelCiclo, PTL
=============================================================================
