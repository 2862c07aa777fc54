------------------------------- MODULE EnvioProofs -------------------------------
(***************************************************************************)
(* From the lines of the file to the process. The list the console reads   *)
(* is the program exactly when every line fits in an fgets; a program that *)
(* fits in the console's reserve reaches its process as it is, whatever    *)
(* the program, as long as the network cuts the message only between       *)
(* fields; which programs fit; and by how much the PCB the kernel          *)
(* serializes then may not fit in its own buffer. Types hold for every     *)
(* program and every cut.                                                  *)
(***************************************************************************)
EXTENDS Envio, Induccion

TextoT == [linea : Int, desde : Nat, strlen : Nat]
CampoT == [clase : {"entero", "texto"}, ancho : Nat \ {0}, valor : Int \cup TextoT]
EntradaT == [campo : CampoT, desde : Nat]

\* What the console knows, and the shape of its message: its fields one after
\* the other from the first byte to "escritos".
ConsolaInv ==
    /\ archivo \in Seq(Nat) /\ saltoFinal \in BOOLEAN
    /\ pcConsola \in {"leer", "saludando", "serializar", "enviado", "fin", "muerta"}
    /\ renglon \in Nat \ {0} /\ columna \in Nat
    /\ renglon <= Len(archivo) => columna <= archivo[renglon]
    /\ instr \in Seq(TextoT)
    /\ escritos \in Nat
    /\ pcConsola \in {"leer", "saludando"} => buffer = <<>>
    /\ pcConsola \notin {"leer", "saludando"} => reserva = Reserva(Len(instr))

BufferInv ==
    /\ buffer \in Seq(EntradaT)
    /\ Len(buffer) <= CantidadDeCampos
    /\ buffer = <<>> => escritos = 0
    /\ buffer # <<>> => buffer[1].desde = 0 /\ escritos = FinDeCampo(Len(buffer))
    /\ \A j \in 1..Len(buffer) : buffer[j].campo = Campo(j)
    /\ \A j \in 1..Len(buffer) : FinDeCampo(j) <= escritos
    /\ \A j \in 1..Len(buffer) : j > 1 => buffer[j].desde = FinDeCampo(j - 1)
    /\ \A i, j \in 1..Len(buffer) : i < j => FinDeCampo(i) <= buffer[j].desde

\* What was sent and delivered: nothing, or the reserve up to the end of some
\* field; and what the end of the stream says of the console.
RedInv ==
    /\ enviado = IF pcConsola \in {"enviado", "fin"} THEN reserva ELSE 0
    /\ pcConsola \in {"enviado", "fin"} => Len(buffer) = CantidadDeCampos
    /\ pcConsola = "muerta" => ~Cabe
    /\ cerrado <=> pcConsola \in {"fin", "muerta"}
    /\ \/ llegado = 0 \/ llegado = enviado
       \/ pcConsola \in {"enviado", "fin"} /\ \E j \in 1..Len(buffer) : llegado = FinDeCampo(j)

\* The fields the kernel's thread has read.
Leidos ==
    CASE pcHilo \in {"saludo", "cant"} -> 0
      [] pcHilo = "operacion" -> 1
      [] pcHilo = "largo" -> 2 + 2 * Len(lista)
      [] pcHilo = "texto" -> 3 + 2 * Len(lista)
      [] OTHER -> CantidadDeCampos

\* The thread is at the end of a field, with the values of the ones before it.
EnFase ==
    /\ pcHilo \in {"saludo", "cant", "operacion", "largo", "texto", "crear", "creado"}
    /\ pos = IF Leidos = 0 THEN 0 ELSE FinDeCampo(Leidos)
    /\ lista \in Seq(TextoT) /\ Len(lista) <= Len(Textos)
    /\ \A k \in 1..Len(lista) : lista[k] = Textos[k]
    /\ pcHilo \in {"saludo", "cant", "operacion"} => lista = <<>>
    /\ pcHilo \notin {"saludo", "cant"} => cant = Len(Textos)
    /\ pcHilo \in {"largo", "texto"} => Len(lista) < Len(Textos)
    /\ pcHilo \in {"crear", "creado"} => Len(lista) = Len(Textos)
    /\ pcHilo = "texto" => largo = LargoDe(Textos[Len(lista) + 1])
    /\ pcHilo = "creado" => pcb = <<[instrucciones |-> instr, segmentos |-> Segmentos]>>

HiloInv ==
    /\ pcConsola \notin {"enviado", "fin", "muerta"} =>
           pcHilo \in {"saludo", "cant"} /\ pos = 0 /\ lista = <<>>
    /\ Cabe => EnFase

IInv == ConsolaInv /\ BufferInv /\ RedInv /\ HiloInv
-----------------------------------------------------------------------------
(* Fields *)

\* The strings of the message are strings, and the last is SEGMENTOS.
LEMMA TextosTipo ==
    ASSUME instr \in Seq(TextoT)
    PROVE  /\ Textos \in Seq(TextoT)
           /\ Len(Textos) = Len(instr) + 1
           /\ Textos[Len(instr) + 1] = Segmentos
           /\ \A k \in 1..Len(instr) : Textos[k] = instr[k]
           /\ CantidadDeCampos = 4 + 2 * Len(instr)
<1>1. Segmentos \in TextoT
  BY LargoNatural DEF Segmentos, Texto, TextoT
<1> QED BY <1>1 DEF Textos, CantidadDeCampos

\* The length of a string is an odd field, its characters the next one.
LEMMA CampoDeTexto ==
    ASSUME NEW k \in Nat \ {0}
    PROVE  /\ Campo(2 * k + 1) = Entero(LargoDe(Textos[k]))
           /\ Campo(2 * k + 2) = Cadena(Textos[k])
<1> USE DEF Campo
<1>1. /\ 2 * k + 1 # 1 /\ 2 * k + 1 # 2 /\ (2 * k + 1) % 2 = 1
      /\ ((2 * k + 1) - 1) \div 2 = k
  OBVIOUS
<1>2. /\ 2 * k + 2 # 1 /\ 2 * k + 2 # 2 /\ (2 * k + 2) % 2 # 1
      /\ ((2 * k + 2) - 2) \div 2 = k
  OBVIOUS
<1> HIDE DEF Campo
<1>3. Campo(2 * k + 1) = Entero(LargoDe(Textos[k]))
  BY <1>1, Zenon DEF Campo
<1>4. Campo(2 * k + 2) = Cadena(Textos[k])
  BY <1>2, Zenon DEF Campo
<1> QED BY <1>3, <1>4

\* Every field of the message is a value with at least one byte.
LEMMA CampoTipo ==
    ASSUME instr \in Seq(TextoT), NEW j \in 1..CantidadDeCampos
    PROVE  Campo(j) \in CampoT
<1>1. \A t \in TextoT : LargoDe(t) \in Nat \ {0}
  BY DEF LargoDe, TextoT
<1>2. CASE j = 1 \/ j = 2
  BY <1>2, TextosTipo DEF Campo, Entero, TamanioInt, INSTR, CampoT
<1>3. CASE j > 2
  <2>1. PICK k \in 1..Len(Textos) : j = 2 * k + 1 \/ j = 2 * k + 2
    <3>1. PICK n \in Nat : n = Len(Textos) /\ CantidadDeCampos = 2 + 2 * n
      BY TextosTipo
    <3>2. /\ j \in 1..(2 + 2 * n) /\ j > 2
          /\ j % 2 = 1 => (j - 1) \div 2 \in 1..n /\ j = 2 * ((j - 1) \div 2) + 1
          /\ j % 2 # 1 => (j - 2) \div 2 \in 1..n /\ j = 2 * ((j - 2) \div 2) + 2
      BY <1>3, <3>1
    <3> QED BY <3>1, <3>2
  <2>2. Textos[k] \in TextoT
    BY TextosTipo
  <2>3. k \in Nat \ {0}
    BY TextosTipo
  <2>4. /\ Entero(LargoDe(Textos[k])) \in CampoT
        /\ Cadena(Textos[k]) \in CampoT
    BY <1>1, <2>2 DEF Entero, Cadena, TamanioInt, CampoT
  <2> QED BY <2>1, <2>3, <2>4, CampoDeTexto
<1> QED BY <1>2, <1>3, TextosTipo
-----------------------------------------------------------------------------
(* The console *)

\* At the start the console has read nothing.
LEMMA ConsolaInicio == Init => ConsolaInv
BY ArchivosDeLineas DEF Init, ConsolaInv

\* Every step keeps what the console knows.
LEMMA ConsolaPaso == ConsolaInv /\ [Next]_vars => ConsolaInv'
<1> SUFFICES ASSUME ConsolaInv, [Next]_vars PROVE ConsolaInv'
  OBVIOUS
<1> USE DEF ConsolaInv
<1>1. CASE LeerTrozo
  <2>1. /\ renglon \in 1..Len(archivo) /\ archivo[renglon] \in Nat
        /\ Faltan \in Nat /\ Pedido = 29 /\ pcConsola = "leer"
        /\ columna \in Nat /\ renglon \in Nat
    BY <1>1 DEF LeerTrozo, Faltan, Pedido, TamanioLinea
  <2>2. /\ Texto(renglon, columna, Pedido) \in TextoT
        /\ Texto(renglon, columna, Faltan) \in TextoT
        /\ NULL \in TextoT
    BY <2>1 DEF Texto, TextoT, NULL
  <2> DEFINE quedan == Faltan + (IF HaySalto THEN 1 ELSE 0)
  <2>3. CASE quedan > Pedido
    <3>1. Faltan >= Pedido
      BY <2>1, <2>3
    <3>2. /\ instr' = Append(instr, Texto(renglon, columna, Pedido))
          /\ columna' = columna + Pedido /\ renglon' = renglon
          /\ UNCHANGED <<archivo, saltoFinal, pcConsola, escritos, buffer, reserva>>
      BY <1>1, <2>3 DEF LeerTrozo, fuente, mensaje
    <3>3. columna' <= archivo[renglon]
      BY <3>1, <3>2, <2>1 DEF Faltan
    <3> QED BY <2>1, <2>2, <3>2, <3>3
  <2>4. CASE ~(quedan > Pedido)
    <3>1. /\ renglon' = renglon + 1 /\ columna' = 0
          /\ \/ instr' = instr \/ instr' = Append(instr, NULL)
             \/ instr' = Append(instr, Texto(renglon, columna, Faltan))
          /\ UNCHANGED <<archivo, saltoFinal, pcConsola, escritos, buffer, reserva>>
      BY <1>1, <2>4 DEF LeerTrozo, fuente, mensaje
    <3>2. instr' \in Seq(TextoT)
      <4>1. instr \in Seq(TextoT)
        OBVIOUS
      <4> HIDE DEF ConsolaInv
      <4> QED BY <4>1, <2>2, <3>1
    <3>3. renglon' <= Len(archivo) => columna' <= archivo[renglon']
      BY <3>1, <2>1
    <3> QED BY <2>1, <3>1, <3>2, <3>3
  <2> QED BY <2>3, <2>4
<1>2. CASE Saludar
  BY <1>2 DEF Saludar, fuente, lectura, mensaje
<1>3. CASE RecibirSaludo
  BY <1>3 DEF RecibirSaludo, fuente, lectura
<1>4. CASE EscribirCampo
  <2>1. Campo(Len(buffer) + 1).ancho \in Nat
    <3>1. Len(buffer) + 1 \in 1..CantidadDeCampos
      BY <1>4, TextosTipo DEF EscribirCampo
    <3> QED BY <3>1, CampoTipo DEF CampoT
  <2> QED BY <1>4, <2>1 DEF EscribirCampo, fuente, lectura
<1>5. CASE Enviar
  BY <1>5 DEF Enviar, fuente, lectura, mensaje
<1>6. CASE Salir
  BY <1>6 DEF Salir, fuente, lectura, mensaje
<1>7. CASE MorirPorNULL
  BY <1>7 DEF MorirPorNULL, fuente, lectura, mensaje
<1>8. CASE MorirPorDesborde
  BY <1>8 DEF MorirPorDesborde, fuente, lectura, mensaje
<1>9. CASE UNCHANGED <<fuente, pcConsola, lectura, mensaje>>
  BY <1>9 DEF fuente, lectura, mensaje
<1>10. Entregar \/ Hilo \/ UNCHANGED vars => UNCHANGED <<fuente, pcConsola, lectura, mensaje>>
  BY DEF Entregar, Hilo, AtenderSaludo, RecibirCant, RecibirOperacion, RecibirLargo,
         RecibirTexto, CrearProceso, MorirKernel, vars
<1> QED
  BY <1>1, <1>2, <1>3, <1>4, <1>5, <1>6, <1>7, <1>8, <1>9, <1>10 DEF Next, Consola, Fin


\* While the list of instructions stays, so does what the message will be.
LEMMA CamposIguales ==
    ASSUME UNCHANGED instr
    PROVE  /\ Textos' = Textos /\ CantidadDeCampos' = CantidadDeCampos
           /\ \A j : Campo(j)' = Campo(j)
<1>1. Textos' = Textos
  BY DEF Textos
<1>2. CantidadDeCampos' = CantidadDeCampos
  BY <1>1 DEF CantidadDeCampos
<1>3. ASSUME NEW j PROVE Campo(j)' = Campo(j)
  BY <1>1 DEF Campo, Entero, Cadena, LargoDe
<1> QED BY <1>1, <1>2, <1>3

\* A step that leaves list and buffer leaves the shape of the message.
LEMMA BufferIgual ==
    ASSUME BufferInv, UNCHANGED <<instr, buffer, escritos>>
    PROVE  BufferInv'
<1>1. /\ CantidadDeCampos' = CantidadDeCampos
      /\ \A j : Campo(j)' = Campo(j)
  BY CamposIguales
<1>2. \A j : FinDeCampo(j)' = FinDeCampo(j)
  BY DEF FinDeCampo
<1> QED BY <1>1, <1>2 DEF BufferInv

\* An empty buffer has the shape of a message.
LEMMA BufferVacio ==
    ASSUME buffer = <<>>, escritos = 0, CantidadDeCampos \in Nat
    PROVE  BufferInv
BY DEF BufferInv

\* A field written after the others keeps the shape of the message.
LEMMA BufferCrece ==
    ASSUME ConsolaInv, BufferInv, EscribirCampo
    PROVE  BufferInv'
<1>0. PICK m \in Nat : m = Len(buffer)
  BY DEF BufferInv
<1>1. /\ instr \in Seq(TextoT) /\ escritos \in Nat /\ CantidadDeCampos \in Nat
  BY TextosTipo DEF ConsolaInv
<1>2. /\ m \in Nat /\ m < CantidadDeCampos
      /\ buffer \in Seq(EntradaT)
      /\ UNCHANGED instr
  BY <1>0, <1>1 DEF EscribirCampo, BufferInv, lectura
<1>3. Campo(m + 1) \in CampoT
  BY <1>1, <1>2, CampoTipo
<1>4. PICK c \in CampoT : c = Campo(m + 1)
  BY <1>3
<1>5. /\ buffer' = Append(buffer, [campo |-> c, desde |-> escritos])
      /\ escritos' = escritos + c.ancho
  BY <1>0, <1>4 DEF EscribirCampo
<1>6. c.ancho \in Nat \ {0}
  BY DEF CampoT
<1>7. /\ CantidadDeCampos' = CantidadDeCampos
      /\ \A j : Campo(j)' = Campo(j)
  BY <1>2, CamposIguales
<1>8. /\ buffer' \in Seq(EntradaT)
      /\ Len(buffer') = m + 1
      /\ \A j \in 1..m : buffer'[j] = buffer[j]
      /\ buffer'[m + 1] = [campo |-> c, desde |-> escritos]
  <2>1. PICK e \in EntradaT : e = [campo |-> c, desde |-> escritos]
    BY <1>1 DEF EntradaT
  <2>2. buffer' = Append(buffer, e)
    BY <1>5, <2>1
  <2> QED BY <1>0, <1>2, <2>1, <2>2
<1>9. /\ \A j \in 1..m : FinDeCampo(j)' = FinDeCampo(j)
      /\ FinDeCampo(m + 1)' = escritos'
  BY <1>5, <1>8 DEF FinDeCampo
<1>10. \A j \in 1..m : FinDeCampo(j) \in Nat /\ FinDeCampo(j) <= escritos
  <2> SUFFICES ASSUME NEW j \in 1..m PROVE FinDeCampo(j) \in Nat
    BY <1>0 DEF BufferInv
  <2>1. buffer[j] \in EntradaT
    BY <1>0, <1>2
  <2> QED BY <2>1 DEF FinDeCampo, CampoT, EntradaT
<1>11. \A j \in 1..(m + 1) : buffer'[j].campo = Campo(j)'
  BY <1>0, <1>4, <1>7, <1>8, <1>2 DEF BufferInv
<1>12. \A j \in 1..(m + 1) : FinDeCampo(j)' <= escritos'
  BY <1>9, <1>10, <1>5, <1>6, <1>1, <1>2
<1>13. \A j \in 1..(m + 1) : j > 1 => buffer'[j].desde = FinDeCampo(j - 1)'
  <2> SUFFICES ASSUME NEW j \in 1..(m + 1), j > 1
               PROVE  buffer'[j].desde = FinDeCampo(j - 1)'
    BY <1>2
  <2>1. CASE j = m + 1
    <3>1. buffer # <<>> /\ j - 1 = m /\ m \in 1..m
      BY <2>1, <1>0, <1>2
    <3> QED BY <1>0, <2>1, <3>1, <1>8, <1>9 DEF BufferInv
  <2>2. CASE j # m + 1
    <3>1. j \in 1..m /\ j - 1 \in 1..m
      BY <2>2, <1>2
    <3> QED BY <1>0, <3>1, <1>8, <1>9 DEF BufferInv
  <2> QED BY <2>1, <2>2
<1>14. \A i, j \in 1..(m + 1) : i < j => FinDeCampo(i)' <= buffer'[j].desde
  <2> SUFFICES ASSUME NEW i \in 1..(m + 1), NEW j \in 1..(m + 1), i < j
               PROVE  FinDeCampo(i)' <= buffer'[j].desde
    BY <1>2
  <2>1. i \in 1..m
    BY <1>2
  <2>2. CASE j = m + 1
    BY <2>1, <2>2, <1>8, <1>9, <1>10
  <2>3. CASE j # m + 1
    <3>1. j \in 1..m
      BY <2>3, <1>2
    <3> QED BY <1>0, <2>1, <3>1, <1>8, <1>9 DEF BufferInv
  <2> QED BY <2>2, <2>3
<1>15. buffer'[1].desde = 0
  <2>1. CASE m = 0
    BY <2>1, <1>0, <1>8, <1>2 DEF BufferInv
  <2>2. CASE m # 0
    BY <2>2, <1>0, <1>8, <1>2 DEF BufferInv
  <2> QED BY <2>1, <2>2
<1>16. buffer' # <<>>
  BY <1>8, <1>2
<1>17. /\ (\A j \in 1..Len(buffer) : buffer[j].campo = Campo(j))'
      /\ (\A j \in 1..Len(buffer) : FinDeCampo(j) <= escritos)'
      /\ (\A j \in 1..Len(buffer) : j > 1 => buffer[j].desde = FinDeCampo(j - 1))'
      /\ (\A i, j \in 1..Len(buffer) : i < j => FinDeCampo(i) <= buffer[j].desde)'
  BY <1>8, <1>11, <1>12, <1>13, <1>14
<1>18. /\ (buffer # <<>> => buffer[1].desde = 0 /\ escritos = FinDeCampo(Len(buffer)))'
      /\ Len(buffer') <= CantidadDeCampos'
  BY <1>1, <1>2, <1>7, <1>8, <1>9, <1>15
<1> QED BY <1>8, <1>16, <1>17, <1>18 DEF BufferInv

\* Every step keeps the shape of the message.
LEMMA BufferPaso == ConsolaInv /\ BufferInv /\ [Next]_vars => BufferInv'
<1> SUFFICES ASSUME ConsolaInv, BufferInv, [Next]_vars PROVE BufferInv'
  OBVIOUS
<1>1. CASE EscribirCampo
  BY <1>1, BufferCrece
<1>2. CASE LeerTrozo
  <2>1. buffer = <<>> /\ UNCHANGED mensaje /\ instr' \in Seq(TextoT)
    BY <1>2, ConsolaPaso DEF LeerTrozo, ConsolaInv
  <2>2. (CantidadDeCampos \in Nat)'
    BY <2>1 DEF CantidadDeCampos, Textos, Segmentos, Texto
  <2>3. buffer' = <<>> /\ escritos' = 0
    BY <2>1 DEF mensaje, BufferInv
  <2> QED BY <2>2, <2>3 DEF BufferInv
<1>3. CASE UNCHANGED <<instr, buffer, escritos>>
  BY <1>3, BufferIgual
<1>4. ~EscribirCampo /\ ~LeerTrozo => UNCHANGED <<instr, buffer, escritos>>
  BY DEF Next, Consola, Saludar, RecibirSaludo, Enviar, Salir, MorirPorNULL,
         MorirPorDesborde, Entregar, Hilo, AtenderSaludo, RecibirCant, RecibirOperacion,
         RecibirLargo, RecibirTexto, CrearProceso, MorirKernel, Fin, vars, lectura, mensaje
<1> QED BY <1>1, <1>2, <1>3, <1>4
-----------------------------------------------------------------------------
(* The network *)

\* Whether a program fits depends on its list and the reserve.
LEMMA CabeIgual ==
    ASSUME UNCHANGED <<instr, buffer, escritos, reserva>>
    PROVE  Cabe' = Cabe /\ \A j : FinDeCampo(j)' = FinDeCampo(j)
BY CamposIguales DEF Cabe, FinDeCampo

\* Every step keeps what was sent and delivered, in whole fields.
LEMMA RedPaso ==
    ASSUME ~Cortes, ConsolaInv, BufferInv, RedInv, [Next]_vars
    PROVE  RedInv'
<1>1. CASE LeerTrozo \/ Saludar \/ RecibirSaludo \/ EscribirCampo
  BY <1>1 DEF LeerTrozo, Saludar, RecibirSaludo, EscribirCampo, RedInv, red
<1>2. CASE Enviar
  <2>1. UNCHANGED <<instr, buffer, escritos, reserva, llegado, cerrado>>
    BY <1>2 DEF Enviar, lectura, mensaje
  <2> QED BY <1>2, <2>1, CamposIguales DEF Enviar, RedInv
<1>3. CASE Salir
  <2>1. UNCHANGED <<instr, buffer, escritos, reserva, llegado, enviado>>
    BY <1>3 DEF Salir, lectura, mensaje
  <2> QED BY <1>3, <2>1, CamposIguales, CabeIgual DEF Salir, RedInv
<1>4. CASE MorirPorNULL \/ MorirPorDesborde
  <2>1. /\ UNCHANGED <<instr, buffer, escritos, reserva, llegado, enviado>>
        /\ pcConsola = "serializar" /\ pcConsola' = "muerta" /\ cerrado' = TRUE
    BY <1>4 DEF MorirPorNULL, MorirPorDesborde, lectura, mensaje
  <2>2. ~Cabe
    <3>1. escritos \in Nat /\ reserva \in Nat /\ CantidadDeCampos \in Nat
      BY <2>1, LargoNatural, TextosTipo
         DEF ConsolaInv, Reserva, TamanioInt, TamanioSizeT, TamanioPuntero
    <3> QED BY <1>4, <3>1 DEF MorirPorNULL, MorirPorDesborde, Cabe
  <2> QED BY <2>1, <2>2, CabeIgual DEF RedInv
<1>5. CASE Entregar
  <2>1. /\ UNCHANGED <<instr, buffer, escritos, reserva, enviado, cerrado, pcConsola>>
        /\ llegado' \in Fronteras /\ llegado < enviado
    BY <1>5 DEF Entregar, lectura, mensaje
  <2>2. enviado # 0 /\ llegado' # 0 => pcConsola \in {"enviado", "fin"}
    BY DEF RedInv
  <2>3. \/ llegado' = enviado
        \/ \E j \in 1..Len(buffer) : llegado' = FinDeCampo(j)
    BY <2>1 DEF Fronteras, BufferInv
  <2>4. enviado # 0
    <3>1. pcConsola \in {"enviado", "fin"} => reserva # 0
      BY LargoNatural
         DEF ConsolaInv, Reserva, TamanioInt, TamanioSizeT, TamanioPuntero
    <3>2. enviado = 0 => llegado = 0
      BY <3>1 DEF RedInv
    <3> QED BY <3>2, <2>1
  <2> QED BY <2>1, <2>2, <2>3, <2>4, CamposIguales, CabeIgual DEF RedInv
<1>6. CASE UNCHANGED <<instr, buffer, escritos, reserva, enviado, cerrado, pcConsola, llegado>>
  BY <1>6, CamposIguales, CabeIgual DEF RedInv
<1>7. Hilo \/ Fin \/ UNCHANGED vars =>
          UNCHANGED <<instr, buffer, escritos, reserva, enviado, cerrado, pcConsola, llegado>>
  BY DEF Hilo, AtenderSaludo, RecibirCant, RecibirOperacion, RecibirLargo, RecibirTexto,
         CrearProceso, MorirKernel, Fin, vars, lectura, mensaje, red
<1> QED BY <1>1, <1>2, <1>3, <1>4, <1>5, <1>6, <1>7 DEF Next, Consola

-----------------------------------------------------------------------------
(* The thread *)

\* A recv at the beginning of a field, with the width of the field, waits for
\* it and takes all of it.
LEMMA RecvExacto ==
    ASSUME ConsolaInv, BufferInv, RedInv, Cabe, Vuelve,
           NEW r \in 1..CantidadDeCampos, pos = buffer[r].desde
    PROVE  /\ Recibidos(Campo(r).ancho) = Campo(r).ancho
           /\ pos + Campo(r).ancho = FinDeCampo(r)
           /\ \A valor, otros :
                  Recibe(Campo(r).clase, Campo(r).ancho, valor, otros)
                      => valor = Campo(r).valor
<1>1. /\ instr \in Seq(TextoT) /\ Len(buffer) = CantidadDeCampos
      /\ CantidadDeCampos \in Nat
  BY TextosTipo DEF ConsolaInv, Cabe
<1>2. PICK c \in CampoT : c = Campo(r)
  BY <1>1, CampoTipo
<1>3. c.ancho \in Nat \ {0}
  BY DEF CampoT
<1>4. \A j \in 1..Len(buffer) : buffer[j] \in EntradaT
  BY DEF BufferInv
<1>5. /\ \A j \in 1..Len(buffer) : FinDeCampo(j) \in Nat /\ buffer[j].desde \in Nat
                                       /\ buffer[j].desde < FinDeCampo(j)
      /\ pos \in Nat
  BY <1>1, <1>4 DEF FinDeCampo, EntradaT, CampoT
<1>6. buffer[r].campo = c /\ FinDeCampo(r) = pos + c.ancho
  BY <1>1, <1>2 DEF BufferInv, FinDeCampo
<1>7. FinDeCampo(r) <= escritos /\ escritos <= reserva /\ escritos \in Nat /\ reserva \in Nat
  BY <1>1, LargoNatural
     DEF BufferInv, Cabe, ConsolaInv, Reserva, TamanioInt, TamanioSizeT, TamanioPuntero
<1>8. pcConsola \in {"enviado", "fin"} /\ enviado = reserva
  <2>1. CASE llegado > pos
    BY <2>1, <1>5 DEF RedInv
  <2>2. CASE FinDelFlujo
    BY <2>2 DEF FinDelFlujo, RedInv
  <2> QED BY <2>1, <2>2 DEF Vuelve, RedInv
<1>9. llegado > pos
  BY <1>3, <1>5, <1>6, <1>7, <1>8 DEF Vuelve, FinDelFlujo
<1>10. llegado >= FinDeCampo(r) /\ llegado \in Nat
  <2>1. CASE llegado = enviado
    BY <2>1, <1>7, <1>8, <1>5, <1>1
  <2>2. CASE llegado # enviado
    <3>1. PICK j \in 1..Len(buffer) : llegado = FinDeCampo(j)
      BY <2>2, <1>9, <1>5 DEF RedInv
    <3>2. ~(j < r)
      BY <3>1, <1>9, <1>1, <1>5 DEF BufferInv
    <3>3. CASE r < j
      <4>1. FinDeCampo(r) <= buffer[j].desde
        BY <3>3, <1>1 DEF BufferInv
      <4> QED BY <3>1, <4>1, <1>1, <1>5
    <3>4. CASE r = j
      BY <3>1, <3>4, <1>5
    <3> QED BY <3>2, <3>3, <3>4, <1>1
  <2> QED BY <2>1, <2>2
<1>11. Recibidos(c.ancho) = c.ancho
  BY <1>3, <1>5, <1>6, <1>10 DEF Recibidos, Menor
<1>12. EsCampo(r, c.clase, c.ancho)
  BY <1>6 DEF EsCampo
<1>13. \A j \in 1..Len(buffer) : buffer[j].desde = pos => j = r
  <2> SUFFICES ASSUME NEW j \in 1..Len(buffer), buffer[j].desde = pos PROVE j = r
    OBVIOUS
  <2>1. ~(j < r)
    BY <1>1, <1>5 DEF BufferInv
  <2>2. ~(r < j)
    BY <1>1, <1>5 DEF BufferInv
  <2> QED BY <2>1, <2>2, <1>1
<1>14. DOMAIN buffer = 1..Len(buffer)
  BY DEF BufferInv
<1>15. ASSUME NEW valor, NEW otros, Recibe(c.clase, c.ancho, valor, otros)
       PROVE  valor = c.valor
  <2>1. \E j \in DOMAIN buffer : EsCampo(j, c.clase, c.ancho) /\ Recibidos(c.ancho) = c.ancho
    BY <1>11, <1>12, <1>14, <1>1
  <2>2. PICK j \in DOMAIN buffer :
            EsCampo(j, c.clase, c.ancho) /\ valor = buffer[j].campo.valor
    BY <2>1, <1>15 DEF Recibe
  <2>3. j = r
    BY <2>2, <1>13, <1>14 DEF EsCampo
  <2> QED BY <2>2, <2>3, <1>6
<1> QED BY <1>2, <1>6, <1>11, <1>15

\* Steps of the console and the network leave the thread where it was, and it
\* has nothing to be late for until the message is whole and sent.
LEMMA HiloQuieto ==
    ASSUME ConsolaInv, BufferInv, RedInv, HiloInv, Consola \/ Entregar \/ UNCHANGED vars
    PROVE  HiloInv'
<1>1. UNCHANGED hilo
  BY DEF Consola, LeerTrozo, Saludar, RecibirSaludo, EscribirCampo, Enviar, Salir,
         MorirPorNULL, MorirPorDesborde, Entregar, vars
<1>2. CASE pcConsola \notin {"enviado", "fin", "muerta"}
  <2>1. /\ pcHilo' \in {"saludo", "cant"} /\ pos' = 0 /\ lista' = <<>>
        /\ pcHilo \in {"saludo", "cant"} /\ lista = <<>>
    BY <1>1, <1>2 DEF HiloInv, hilo
  <2>2. (instr \in Seq(TextoT))'
    BY ConsolaPaso DEF Next, ConsolaInv
  <2>3. EnFase'
    BY <2>1, <2>2 DEF EnFase, Leidos, Textos
  <2> QED BY <2>1, <2>3 DEF HiloInv
<1>3. CASE pcConsola \in {"enviado", "fin", "muerta"}
  <2>1. /\ UNCHANGED <<instr, buffer, escritos, reserva>>
        /\ pcConsola' \in {"enviado", "fin", "muerta"}
    BY <1>3 DEF Consola, LeerTrozo, Saludar, RecibirSaludo, EscribirCampo, Enviar, Salir,
            MorirPorNULL, MorirPorDesborde, Entregar, vars, lectura, mensaje
  <2>2. /\ Cabe' = Cabe /\ Textos' = Textos /\ CantidadDeCampos' = CantidadDeCampos
        /\ \A j : FinDeCampo(j)' = FinDeCampo(j)
    BY <2>1, CabeIgual, CamposIguales
  <2>3. Leidos' = Leidos
    BY <1>1, <2>2 DEF Leidos, hilo
  <2>4. EnFase => EnFase'
    BY <1>1, <2>1, <2>2, <2>3 DEF EnFase, hilo, LargoDe
  <2> QED BY <2>1, <2>2, <2>4 DEF HiloInv
<1> QED BY <1>2, <1>3

\* A step of the thread.
LEMMA HiloPaso ==
    ASSUME ConsolaInv, BufferInv, RedInv, HiloInv, Hilo
    PROVE  HiloInv'
<1>1. /\ UNCHANGED <<instr, buffer, escritos, reserva, pcConsola, enviado, llegado, cerrado>>
  BY DEF Hilo, AtenderSaludo, RecibirCant, RecibirOperacion, RecibirLargo, RecibirTexto,
         CrearProceso, MorirKernel, lectura, mensaje, red
<1>2. /\ Cabe' = Cabe /\ Textos' = Textos /\ CantidadDeCampos' = CantidadDeCampos
      /\ \A j : FinDeCampo(j)' = FinDeCampo(j)
  BY <1>1, CabeIgual, CamposIguales
<1>3. /\ instr \in Seq(TextoT) /\ Textos \in Seq(TextoT)
      /\ Len(Textos) = Len(instr) + 1 /\ CantidadDeCampos = 2 + 2 * Len(Textos)
      /\ Textos[Len(Textos)] = Segmentos /\ Len(instr) \in Nat
      /\ \A k \in 1..Len(instr) : Textos[k] = instr[k]
  BY TextosTipo DEF ConsolaInv, CantidadDeCampos
<1>4. Vuelve => pcConsola \in {"enviado", "fin", "muerta"}
  <2> SUFFICES ASSUME pcConsola \notin {"enviado", "fin", "muerta"} PROVE ~Vuelve
    OBVIOUS
  <2> QED BY DEF Vuelve, FinDelFlujo, RedInv, HiloInv
<1>5. pcConsola \notin {"enviado", "fin", "muerta"} =>
          pcHilo' \in {"saludo", "cant"} /\ pos' = 0 /\ lista' = <<>>
  <2> SUFFICES ASSUME pcConsola \notin {"enviado", "fin", "muerta"}
               PROVE  pcHilo' \in {"saludo", "cant"} /\ pos' = 0 /\ lista' = <<>>
    OBVIOUS
  <2>1. pcHilo \in {"saludo", "cant"} /\ pos = 0 /\ lista = <<>> /\ ~Vuelve
    BY <1>4 DEF HiloInv
  <2>2. AtenderSaludo
    BY <2>1 DEF Hilo, RecibirCant, RecibirOperacion, RecibirLargo, RecibirTexto,
                CrearProceso, MorirKernel
  <2> QED BY <2>1, <2>2 DEF AtenderSaludo
<1>6. ASSUME Cabe PROVE EnFase'
  <2>1. EnFase /\ Len(buffer) = CantidadDeCampos
    BY <1>6 DEF HiloInv, Cabe
  <2>2. /\ CantidadDeCampos \in Nat /\ 1 \in 1..CantidadDeCampos
        /\ 2 \in 1..CantidadDeCampos /\ buffer[1].desde = 0
    BY <1>3, <2>1 DEF BufferInv
  <2>3. CASE AtenderSaludo
    BY <2>1, <2>3, <1>3 DEF AtenderSaludo, EnFase, Leidos, Textos
  <2>4. CASE RecibirCant
    <3>1. pos = buffer[1].desde /\ Vuelve /\ pcHilo = "cant" /\ lista = <<>>
      BY <2>1, <2>2, <2>4 DEF RecibirCant, EnFase, Leidos
    <3>2. Campo(1) = Entero(Len(Textos))
      BY <1>3 DEF Campo
    <3>3. /\ Recibidos(TamanioInt) = TamanioInt /\ pos + TamanioInt = FinDeCampo(1)
          /\ \A valor, otros :
                 Recibe("entero", TamanioInt, valor, otros) => valor = Len(Textos)
      <4>1. PICK r \in 1..CantidadDeCampos : r = 1
        BY <2>2
      <4>2. /\ Campo(r).ancho = TamanioInt /\ Campo(r).clase = "entero"
            /\ Campo(r).valor = Len(Textos) /\ pos = buffer[r].desde
        BY <3>1, <3>2, <4>1 DEF Entero
      <4> QED BY <3>1, <4>1, <4>2, <1>6, RecvExacto
    <3>4. pcHilo' = "operacion" /\ pos' = FinDeCampo(1) /\ cant' = Len(Textos)
          /\ UNCHANGED <<lista, largo, pcb>>
      BY <2>4, <3>3 DEF RecibirCant
    <3>5. Leidos' = 1
      BY <3>4 DEF Leidos
    <3> QED BY <1>2, <1>3, <3>1, <3>4, <3>5 DEF EnFase
  <2>5. CASE RecibirOperacion
    <3>1. pos = buffer[2].desde /\ Vuelve /\ pcHilo = "operacion" /\ lista = <<>>
      BY <2>1, <2>2, <2>5 DEF RecibirOperacion, EnFase, Leidos, BufferInv
    <3>2. Campo(2) = Entero(INSTR)
      BY DEF Campo
    <3>3. Recibidos(TamanioInt) = TamanioInt /\ pos + TamanioInt = FinDeCampo(2)
      BY <3>1, <3>2, <2>2, <1>6, RecvExacto DEF Entero
    <3>4. cant = Len(Textos)
      BY <2>1, <3>1 DEF EnFase
    <3>5. pcHilo' = "largo" /\ pos' = FinDeCampo(2) /\ UNCHANGED <<lista, cant, largo, pcb>>
      BY <2>5, <3>3, <3>4, <1>3 DEF RecibirOperacion, SiguienteVuelta
    <3>6. Leidos' = 2
      BY <3>1, <3>5 DEF Leidos
    <3> QED BY <1>2, <1>3, <2>1, <3>1, <3>4, <3>5, <3>6 DEF EnFase
  <2>6. CASE RecibirLargo
    <3>1. PICK k \in Nat \ {0} : k = Len(lista) + 1 /\ k <= Len(Textos)
      BY <2>1, <2>6 DEF RecibirLargo, EnFase
    <3>2. /\ 2 * k + 1 \in 1..CantidadDeCampos /\ 2 * k \in 1..CantidadDeCampos
          /\ 2 * k + 1 > 1 /\ (2 * k + 1) - 1 = 2 * k
      BY <1>3, <3>1
    <3>3. Leidos = 2 * k /\ Leidos # 0
      BY <3>1, <2>6 DEF Leidos, RecibirLargo
    <3>4. pos = buffer[2 * k + 1].desde /\ Vuelve /\ pcHilo = "largo"
      BY <2>1, <2>6, <3>2, <3>3 DEF RecibirLargo, EnFase, BufferInv
    <3>5. Campo(2 * k + 1) = Entero(LargoDe(Textos[k]))
      BY <3>1, CampoDeTexto
    <3>6. /\ Recibidos(TamanioInt) = TamanioInt /\ pos + TamanioInt = FinDeCampo(2 * k + 1)
          /\ \A valor, otros :
                 Recibe("entero", TamanioInt, valor, otros) => valor = LargoDe(Textos[k])
      <4>1. PICK r \in 1..CantidadDeCampos : r = 2 * k + 1
        BY <3>2
      <4>2. /\ Campo(r).ancho = TamanioInt /\ Campo(r).clase = "entero"
            /\ Campo(r).valor = LargoDe(Textos[k]) /\ pos = buffer[r].desde
        BY <3>4, <3>5, <4>1 DEF Entero
      <4> QED BY <3>4, <4>1, <4>2, <1>6, RecvExacto
    <3>7. /\ pcHilo' = "texto" /\ pos' = FinDeCampo(2 * k + 1)
          /\ largo' = LargoDe(Textos[k]) /\ UNCHANGED <<lista, cant, pcb>>
      BY <2>6, <3>6 DEF RecibirLargo
    <3>8. Leidos' = 2 * k + 1
      BY <3>1, <3>7 DEF Leidos
    <3>9. largo' = LargoDe(Textos[Len(lista) + 1])'
      BY <1>2, <3>1, <3>7 DEF LargoDe
    <3> QED BY <1>2, <1>3, <2>1, <3>1, <3>2, <3>4, <3>7, <3>8, <3>9 DEF EnFase
  <2>7. CASE RecibirTexto
    <3>1. PICK k \in Nat \ {0} : k = Len(lista) + 1 /\ k <= Len(Textos)
      BY <2>1, <2>7 DEF RecibirTexto, EnFase
    <3>2. /\ 2 * k + 2 \in 1..CantidadDeCampos /\ 2 * k + 1 \in 1..CantidadDeCampos
          /\ 2 * k + 2 > 1 /\ (2 * k + 2) - 1 = 2 * k + 1
      BY <1>3, <3>1
    <3>3. Leidos = 2 * k + 1 /\ Leidos # 0
      BY <3>1, <2>7 DEF Leidos, RecibirTexto
    <3>4. pos = buffer[2 * k + 2].desde /\ Vuelve /\ pcHilo = "texto"
      BY <2>1, <2>7, <3>2, <3>3 DEF RecibirTexto, EnFase, BufferInv
    <3>5. Campo(2 * k + 2) = Cadena(Textos[k]) /\ largo = LargoDe(Textos[k])
      BY <2>1, <3>1, <3>4, CampoDeTexto DEF EnFase
    <3>6. /\ Recibidos(largo) = largo /\ pos + largo = FinDeCampo(2 * k + 2)
          /\ \A valor, otros : Recibe("texto", largo, valor, otros) => valor = Textos[k]
      <4>1. PICK r \in 1..CantidadDeCampos : r = 2 * k + 2
        BY <3>2
      <4>2. /\ Campo(r).ancho = largo /\ Campo(r).clase = "texto"
            /\ Campo(r).valor = Textos[k] /\ pos = buffer[r].desde
        BY <3>4, <3>5, <4>1 DEF Cadena
      <4> QED BY <3>4, <4>1, <4>2, <1>6, RecvExacto
    <3>7. /\ pos' = FinDeCampo(2 * k + 2) /\ lista' = Append(lista, Textos[k])
          /\ pcHilo' = SiguienteVuelta(Len(lista')) /\ UNCHANGED <<cant, largo, pcb>>
      BY <2>7, <3>6 DEF RecibirTexto
    <3>8. /\ lista \in Seq(TextoT) /\ cant = Len(Textos) /\ Textos[k] \in TextoT
          /\ \A i \in 1..Len(lista) : lista[i] = Textos[i]
      BY <2>1, <3>1, <3>4, <1>3 DEF EnFase
    <3>9. /\ lista' \in Seq(TextoT) /\ Len(lista') = k
          /\ \A i \in 1..k : lista'[i] = Textos[i]
      BY <3>1, <3>7, <3>8
    <3>10. CASE k < Len(Textos)
      <4>1. pcHilo' = "largo"
        BY <3>7, <3>8, <3>9, <3>10 DEF SiguienteVuelta
      <4>2. Leidos' = 2 * k + 2
        BY <4>1, <3>9 DEF Leidos
      <4> QED BY <1>2, <1>3, <3>1, <3>7, <3>8, <3>9, <3>10, <4>1, <4>2 DEF EnFase
    <3>11. CASE k = Len(Textos)
      <4>1. pcHilo' = "crear"
        BY <3>7, <3>8, <3>9, <3>11, <1>3 DEF SiguienteVuelta
      <4>2. Leidos' = 2 * k + 2
        BY <4>1, <3>11, <1>2, <1>3 DEF Leidos
      <4> QED BY <1>2, <1>3, <3>1, <3>7, <3>8, <3>9, <3>11, <4>1, <4>2 DEF EnFase
    <3> QED BY <3>1, <3>10, <3>11, <1>3
  <2>8. CASE CrearProceso \/ MorirKernel
    <3>1. /\ lista \in Seq(TextoT) /\ Len(lista) = Len(instr) + 1
          /\ \A k \in 1..Len(lista) : lista[k] = Textos[k]
          /\ pcHilo = "crear" /\ cant = Len(Textos)
      BY <2>1, <2>8, <1>3 DEF CrearProceso, MorirKernel, EnFase
    <3>2. lista[Len(lista)] = Segmentos /\ lista # <<>>
      BY <3>1, <1>3
    <3>3. HaySegmentos
      BY <3>2 DEF HaySegmentos, Segmentos, NULL, Texto
    <3>4. SubSeq(lista, 1, Len(lista) - 1) = instr
      BY <3>1, <1>3
    <3>5. /\ pcHilo' = "creado" /\ UNCHANGED <<lista, pos, cant, largo>>
          /\ pcb' = <<[instrucciones |-> instr, segmentos |-> Segmentos]>>
      BY <2>8, <3>2, <3>3, <3>4 DEF CrearProceso, MorirKernel
    <3>6. Leidos' = CantidadDeCampos /\ Leidos = CantidadDeCampos
      BY <3>1, <3>5, <1>2 DEF Leidos
    <3>7. (Segmentos)' = Segmentos
      BY DEF Segmentos
    <3> QED BY <1>1, <1>2, <1>3, <2>1, <3>1, <3>5, <3>6, <3>7 DEF EnFase
  <2> QED BY <2>3, <2>4, <2>5, <2>6, <2>7, <2>8 DEF Hilo
<1> QED BY <1>1, <1>2, <1>5, <1>6 DEF HiloInv
-----------------------------------------------------------------------------
(* Theorems *)

\* The invariant holds at the start.
LEMMA Inicio == Init => IInv
<1> SUFFICES ASSUME Init PROVE IInv
  OBVIOUS
<1>1. ConsolaInv /\ pcConsola = "leer"
  BY ConsolaInicio DEF Init
<1>2. CantidadDeCampos \in Nat
  BY <1>1, TextosTipo DEF ConsolaInv
<1>3. BufferInv
  BY <1>2, BufferVacio DEF Init
<1>4. RedInv
  BY <1>1 DEF Init, RedInv
<1>5. ~Cabe
  BY <1>1, TextosTipo DEF Init, Cabe, ConsolaInv
<1>6. HiloInv
  BY <1>5 DEF Init, HiloInv
<1> QED BY <1>1, <1>3, <1>4, <1>6 DEF IInv

\* Every step keeps the invariant, if the network cuts only between fields.
LEMMA Inductivo == ~Cortes /\ IInv /\ [Next]_vars => IInv'
BY ConsolaPaso, BufferPaso, RedPaso, HiloPaso, HiloQuieto DEF IInv, Next, Fin

\* Nobody changes the file, nor what the network does with it.
LEMMA CortesQuieto == [Next]_vars => Cortes' = Cortes
BY DEF Next, vars, fuente, Cortes, Consola, Hilo, Fin, LeerTrozo, Saludar,
       RecibirSaludo, EscribirCampo, Enviar, Salir, MorirPorNULL, MorirPorDesborde,
       Entregar, AtenderSaludo, RecibirCant, RecibirOperacion, RecibirLargo,
       RecibirTexto, CrearProceso, MorirKernel

\* The same, with the hypothesis inside.
LEMMA InductivoSinCortes == (~Cortes => IInv) /\ [Next]_vars => (~Cortes => IInv)'
BY Inductivo, CortesQuieto

\* For every program, every SEGMENTOS and every delivery that keeps the fields
\* whole: a program that fits in the reserve of the console arrives as it is.
THEOREM ProgramaFielSiempre == Spec => []ProgramaFiel
<1>1. (~Cortes => IInv) => ProgramaFiel
  BY DEF IInv, HiloInv, EnFase, ProgramaFiel
<1>2. Init => (~Cortes => IInv)
  BY Inicio
<1> QED BY <1>1, <1>2, InductivoSinCortes, PTL DEF Spec

\* And it does not kill the kernel.
THEOREM KernelVivoSiempre == Spec => []KernelVivo
<1>1. (~Cortes => IInv) => KernelVivo
  BY DEF IInv, HiloInv, EnFase, KernelVivo
<1>2. Init => (~Cortes => IInv)
  BY Inicio
<1> QED BY <1>1, <1>2, InductivoSinCortes, PTL DEF Spec

-----------------------------------------------------------------------------
(* What fits *)

Cortos == \A k \in 1..Len(instr) : LargoDe(instr[k]) <= 12

\* While the message is written, 16 bytes are enough for each instruction
\* written: 4 for its length and 12 for it.
CotaInv ==
    Cortos =>
        /\ Len(buffer) <= 2 => escritos <= 8
        /\ \A k \in Nat \ {0} :
              /\ Len(buffer) = 2 * k + 1 => escritos <= 8 + 16 * (k - 1) + 4
              /\ Len(buffer) = 2 * k + 2 /\ k <= Len(instr) => escritos <= 8 + 16 * k
              /\ Len(buffer) = 2 * k + 2 /\ k = Len(instr) + 1 =>
                     escritos <= 8 + 16 * Len(instr) + 4 + LargoSegmentos + 1

\* A field written adds no more than its share.
LEMMA CotaPaso ==
    ASSUME ConsolaInv, BufferInv, CotaInv, [Next]_vars
    PROVE  CotaInv'
<1>1. CASE EscribirCampo
  <2> SUFFICES ASSUME Cortos' PROVE CotaInv'
    BY DEF CotaInv
  <2>1. PICK m \in Nat : m = Len(buffer)
    BY DEF BufferInv
  <2>2. /\ instr \in Seq(TextoT) /\ Len(instr) \in Nat /\ CantidadDeCampos = 4 + 2 * Len(instr)
        /\ instr' = instr /\ Cortos /\ escritos \in Nat
    BY <1>1, TextosTipo DEF EscribirCampo, lectura, Cortos, ConsolaInv, LargoDe
  <2>3. PICK c \in CampoT : c = Campo(m + 1)
    BY <1>1, <2>1, <2>2, CampoTipo DEF EscribirCampo
  <2>4. /\ Len(buffer') = m + 1 /\ escritos' = escritos + c.ancho /\ m < 4 + 2 * Len(instr)
    BY <1>1, <2>1, <2>2, <2>3 DEF EscribirCampo, BufferInv
  <2>5. c.ancho \in Nat
    BY DEF CampoT
  <2>6. CASE m <= 1
    <3>1. c.ancho = 4
      BY <2>1, <2>3, <2>6 DEF Campo, Entero, TamanioInt
    <3>0. buffer \in Seq(EntradaT) /\ (m = 0 => buffer = <<>>) /\ (m = 1 => buffer # <<>>)
      <4>1. buffer \in Seq(EntradaT)
        BY DEF BufferInv
      <4> QED BY <4>1, <2>1
    <3>2. m = 0 => escritos = 0
      BY <3>0 DEF BufferInv
    <3>3. m = 1 => escritos = FinDeCampo(1) /\ buffer[1].desde = 0 /\ buffer[1].campo = Campo(1)
      BY <2>1, <3>0 DEF BufferInv
    <3>4. m = 1 => escritos = 4
      <4>1. Campo(1).ancho = 4
        BY DEF Campo, Entero, TamanioInt
      <4> QED BY <3>3, <4>1 DEF FinDeCampo
    <3>5. escritos' <= 8
      BY <2>4, <2>6, <3>1, <3>2, <3>4
    <3> QED BY <2>4, <2>6, <3>5 DEF CotaInv
  <2>7. CASE m > 1 /\ m % 2 = 0
    <3>1. PICK k \in Nat \ {0} : m = 2 * k
      <4>1. m \div 2 \in Nat \ {0} /\ m = 2 * (m \div 2)
        BY <2>7
      <4> QED BY <4>1
    <3>2. c.ancho = 4
      <4>1. c = Campo(2 * k + 1)
        BY <2>3, <3>1
      <4>2. c = Entero(LargoDe(Textos[k]))
        BY <4>1, CampoDeTexto
      <4> QED BY <4>2 DEF Entero, TamanioInt
    <3>3. k = 1 => escritos <= 8
      BY <2>1, <2>2, <3>1 DEF CotaInv
    <3>4. k > 1 => escritos <= 8 + 16 * (k - 1)
      <4>1. k > 1 => k - 1 \in Nat \ {0} /\ Len(buffer) = 2 * (k - 1) + 2
                         /\ k - 1 <= Len(instr)
        BY <2>1, <2>2, <2>4, <3>1
      <4> QED BY <2>2, <4>1 DEF CotaInv
    <3>5. escritos' <= 8 + 16 * (k - 1) + 4
      BY <2>2, <2>4, <3>1, <3>2, <3>3, <3>4
    <3>6. \A i \in Nat : Len(buffer') = 2 * i + 1 => i = k
      BY <2>4, <3>1
    <3>7. \A i \in Nat : Len(buffer') # 2 * i + 2
      BY <2>4, <3>1
    <3>8. Len(buffer') > 2
      BY <2>4, <3>1
    <3> QED BY <3>5, <3>6, <3>7, <3>8 DEF CotaInv
  <2>8. CASE m > 1 /\ m % 2 # 0
    <3>1. PICK k \in Nat \ {0} : m = 2 * k + 1
      <4>1. m \div 2 \in Nat \ {0} /\ m = 2 * (m \div 2) + 1
        BY <2>8
      <4> QED BY <4>1
    <3>2. c = Cadena(Textos[k]) /\ k <= Len(instr) + 1
      <4>1. m + 1 = 2 * k + 2
        BY <3>1
      <4>2. c = Campo(2 * k + 2)
        BY <2>3, <4>1
      <4>3. c = Cadena(Textos[k])
        BY <4>2, CampoDeTexto
      <4> QED BY <2>2, <2>4, <3>1, <4>3
    <3>3. escritos <= 8 + 16 * (k - 1) + 4
      BY <2>1, <2>2, <3>1 DEF CotaInv
    <3>4. CASE k <= Len(instr)
      <4>1. c.ancho <= 12
        BY <2>2, <3>2, <3>4, TextosTipo DEF Cortos, Cadena
      <4>2. escritos' <= 8 + 16 * k
        BY <2>2, <2>4, <2>5, <3>3, <4>1
      <4>3. \A i \in Nat : Len(buffer') = 2 * i + 2 => i = k
        BY <2>4, <3>1
      <4>4. \A i \in Nat : Len(buffer') # 2 * i + 1
        BY <2>4, <3>1
      <4>5. Len(buffer') > 2
        BY <2>4, <3>1
      <4>6. \A i \in Nat : ~(Len(buffer') = 2 * i + 2 /\ i = Len(instr') + 1)
        BY <2>2, <3>4, <4>3
      <4>7. Len(buffer') = m + 1 /\ ~(Len(buffer') <= 2)
        BY <2>4, <3>1
      <4>8. \A i \in Nat \ {0} :
                /\ Len(buffer') = 2 * i + 1 => FALSE
                /\ Len(buffer') = 2 * i + 2 => escritos' <= 8 + 16 * i
                /\ Len(buffer') = 2 * i + 2 /\ i = Len(instr') + 1 => FALSE
        BY <4>2, <4>3, <4>4, <4>6
      <4> QED BY <4>7, <4>8 DEF CotaInv
    <3>5. CASE k = Len(instr) + 1
      <4>1. c.ancho = LargoSegmentos + 1
        BY <2>2, <3>2, <3>5, TextosTipo DEF Cadena, Segmentos, Texto, LargoDe
      <4>2. escritos' <= 8 + 16 * Len(instr) + 4 + LargoSegmentos + 1
        BY <2>2, <2>4, <2>5, <3>3, <3>5, <4>1, LargoNatural
      <4>3. \A i \in Nat : Len(buffer') = 2 * i + 2 => i = k
        BY <2>4, <3>1
      <4>4. \A i \in Nat : Len(buffer') # 2 * i + 1
        BY <2>4, <3>1
      <4>5. Len(buffer') > 2
        BY <2>4, <3>1
      <4> QED BY <2>2, <3>5, <4>2, <4>3, <4>4, <4>5 DEF CotaInv
    <3> QED BY <2>2, <3>2, <3>4, <3>5
  <2> QED BY <2>6, <2>7, <2>8
<1>2. CASE LeerTrozo
  <2>1. buffer = <<>> /\ UNCHANGED mensaje
    BY <1>2 DEF LeerTrozo, ConsolaInv
  <2>2. Len(buffer') = 0 /\ escritos' = 0
    BY <2>1 DEF mensaje, BufferInv
  <2>3. \A k \in Nat \ {0} : Len(buffer') # 2 * k + 1 /\ Len(buffer') # 2 * k + 2
    BY <2>2
  <2> QED BY <2>2, <2>3 DEF CotaInv
<1>3. CASE UNCHANGED <<instr, buffer, escritos>>
  BY <1>3 DEF CotaInv, Cortos, LargoDe
<1>4. ~EscribirCampo /\ ~LeerTrozo => UNCHANGED <<instr, buffer, escritos>>
  BY DEF Next, Consola, Saludar, RecibirSaludo, Enviar, Salir, MorirPorNULL,
         MorirPorDesborde, Entregar, Hilo, AtenderSaludo, RecibirCant, RecibirOperacion,
         RecibirLargo, RecibirTexto, CrearProceso, MorirKernel, Fin, vars, lectura, mensaje
<1> QED BY <1>1, <1>2, <1>3, <1>4

\* The last field is inside of the reserve.
LEMMA CotaAlcanza == ConsolaInv /\ BufferInv /\ CotaInv => ReservaAlcanza
<1> SUFFICES ASSUME ConsolaInv, BufferInv, CotaInv,
                    pcConsola \in {"serializar", "enviado"},
                    \A k \in DOMAIN instr : LargoDe(instr[k]) <= 12
             PROVE  escritos <= reserva
  BY DEF ReservaAlcanza
<1>1. /\ instr \in Seq(TextoT) /\ escritos \in Nat /\ CantidadDeCampos = 4 + 2 * Len(instr)
      /\ Len(instr) \in Nat
      /\ reserva = 8 + 16 * Len(instr) + 8 + LargoSegmentos
  BY TextosTipo DEF ConsolaInv, Reserva, TamanioInt, TamanioSizeT, TamanioPuntero
<1>2. Cortos
  BY <1>1 DEF Cortos
<1>3. PICK m \in Nat : m = Len(buffer) /\ m <= 4 + 2 * Len(instr)
  BY <1>1 DEF BufferInv
<1>4. CASE m <= 2
  BY <1>1, <1>2, <1>3, <1>4, LargoNatural DEF CotaInv
<1>5. CASE m > 2
  <2>1. PICK k \in Nat \ {0} : m = 2 * k + 1 \/ m = 2 * k + 2
    <3>1. (m - 1) \div 2 \in Nat \ {0} /\ (m - 2) \div 2 \in Nat
      BY <1>5
    <3>2. m % 2 = 1 => m = 2 * ((m - 1) \div 2) + 1
      BY <1>5
    <3>3. m % 2 # 1 => m = 2 * ((m - 2) \div 2) + 2 /\ (m - 2) \div 2 # 0
      BY <1>5
    <3> QED BY <3>1, <3>2, <3>3
  <2>2. k <= Len(instr) + 1
    BY <1>1, <1>3, <2>1
  <2>3. m = 2 * k + 1 => escritos <= 8 + 16 * (k - 1) + 4
    BY <1>2, <1>3 DEF CotaInv
  <2>4. m = 2 * k + 2 /\ k <= Len(instr) => escritos <= 8 + 16 * k
    BY <1>2, <1>3 DEF CotaInv
  <2>5. m = 2 * k + 2 /\ k = Len(instr) + 1 =>
            escritos <= 8 + 16 * Len(instr) + 4 + LargoSegmentos + 1
    BY <1>2, <1>3 DEF CotaInv
  <2> QED BY <1>1, <2>1, <2>2, <2>3, <2>4, <2>5, LargoNatural
<1> QED BY <1>3, <1>4, <1>5

\* However many instructions a program has, and whatever the network does: 11
\* characters in each of them are never too many for the reserve.
THEOREM ReservaAlcanzaSiempre == Spec => []ReservaAlcanza
<1> DEFINE I == ConsolaInv /\ BufferInv /\ CotaInv
<1>1. Init => I
  BY Inicio DEF IInv, Init, CotaInv
<1>2. I /\ [Next]_vars => I'
  BY ConsolaPaso, BufferPaso, CotaPaso
<1>3. I => ReservaAlcanza
  BY CotaAlcanza
<1> QED BY <1>1, <1>2, <1>3, PTL DEF Spec

-----------------------------------------------------------------------------
(* The types *)

\* Nothing is read before the message there is to read has its instructions;
\* and no more bytes than were sent, however they are cut.
TipoInv ==
    /\ pcHilo \in {"saludo", "cant", "operacion", "largo", "texto", "crear", "creado", "muerto"}
    /\ pcConsola = "leer" => saludo = "nada"
    /\ saludo = "nada" => pcHilo = "saludo" /\ lista = <<>>
    /\ enviado = IF pcConsola \in {"enviado", "fin"} THEN reserva ELSE 0
    /\ llegado \in Nat /\ llegado <= enviado
    /\ pos \in Nat /\ pos <= llegado
    /\ \A k \in 1..Len(instr) : instr[k] = NULL \/ LargoDe(instr[k]) \in 2..TamanioLinea
    /\ pcHilo = "texto" => largo \in EnterosDelProtocolo
    /\ lista \in Seq({NULL, Basura} \cup {Textos[k] : k \in DOMAIN Textos})

\* What a line of the file becomes has between 1 and 29 characters, or is NULL.
LEMMA TrozoTipo ==
    ASSUME ConsolaInv, TipoInv, LeerTrozo
    PROVE  \A k \in 1..Len(instr') : instr'[k] = NULL \/ LargoDe(instr'[k]) \in 2..TamanioLinea
<1>1. /\ renglon \in 1..Len(archivo) /\ archivo[renglon] \in Nat
      /\ Faltan \in Nat /\ Pedido = 29 /\ instr \in Seq(TextoT)
  BY DEF LeerTrozo, Faltan, Pedido, TamanioLinea, ConsolaInv
<1>2. PICK f \in Nat : f = Faltan
  BY <1>1
<1>3. PICK s \in {0, 1} : s = IF HaySalto THEN 1 ELSE 0
  OBVIOUS
<1>4. \A t : instr' = Append(instr, t) /\ (t = NULL \/ LargoDe(t) \in 2..TamanioLinea) =>
          \A k \in 1..Len(instr') : instr'[k] = NULL \/ LargoDe(instr'[k]) \in 2..TamanioLinea
  <2> SUFFICES ASSUME NEW t, instr' = Append(instr, t),
                      t = NULL \/ LargoDe(t) \in 2..TamanioLinea,
                      NEW k \in 1..Len(instr')
               PROVE  instr'[k] = NULL \/ LargoDe(instr'[k]) \in 2..TamanioLinea
    OBVIOUS
  <2>1. \/ k = Len(instr) + 1 /\ instr'[k] = t
        \/ k \in 1..Len(instr) /\ instr'[k] = instr[k]
    BY <1>1
  <2> QED BY <2>1, Zenon DEF TipoInv
<1>5. instr' = instr =>
          \A k \in 1..Len(instr') : instr'[k] = NULL \/ LargoDe(instr'[k]) \in 2..TamanioLinea
  BY Zenon DEF TipoInv
<1>6. \A n \in Nat : LargoDe(Texto(renglon, columna, n)) = n + 1
  BY DEF LargoDe, Texto
<1>7. CASE f + s > Pedido
  <2>1. instr' = Append(instr, Texto(renglon, columna, Pedido))
    BY <1>2, <1>3, <1>7, Zenon DEF LeerTrozo
  <2>2. LargoDe(Texto(renglon, columna, Pedido)) \in 2..TamanioLinea
    BY <1>1, <1>6 DEF TamanioLinea
  <2> QED BY <1>4, <2>1, <2>2
<1>8. CASE ~(f + s > Pedido)
  <2>1. \/ instr' = instr \/ instr' = Append(instr, NULL)
        \/ f # 0 /\ instr' = Append(instr, Texto(renglon, columna, f))
    BY <1>2, <1>3, <1>8, Zenon DEF LeerTrozo
  <2>2. f # 0 => LargoDe(Texto(renglon, columna, f)) \in 2..TamanioLinea
    <3>1. f # 0 => f + 1 \in 2..30
      BY <1>1, <1>8
    <3> QED BY <1>6, <3>1, Zenon DEF TamanioLinea
  <2> QED BY <1>4, <1>5, <2>1, <2>2
<1> QED BY <1>7, <1>8

\* The recv of a length gives one the console wrote, or what was there.
LEMMA LargoPosible ==
    ASSUME ConsolaInv, BufferInv, NEW v \in LargosPosibles
    PROVE  v \in EnterosDelProtocolo
<1>1. instr \in Seq(TextoT) /\ Textos \in Seq(TextoT)
  BY TextosTipo DEF ConsolaInv
<1>2. CASE v \in Restos
  BY <1>2 DEF EnterosDelProtocolo
<1>3. CASE v \notin Restos
  <2>1. PICK j \in 1..Len(buffer) : v = Campo(j).valor /\ Campo(j).clase = "entero"
    <3>1. buffer \in Seq(EntradaT) /\ DOMAIN buffer = 1..Len(buffer)
      BY DEF BufferInv
    <3>2. PICK j \in DOMAIN buffer : v = buffer[j].campo.valor /\ buffer[j].campo.clase = "entero"
      BY <1>3 DEF LargosPosibles
    <3> QED BY <3>1, <3>2, Zenon DEF BufferInv
  <2>2. CASE j = 1 \/ j = 2
    BY <2>1, <2>2 DEF Campo, Entero, EnterosDelProtocolo
  <2>3. CASE j # 1 /\ j # 2
    <3>1. PICK n \in Nat : n = Len(Textos) /\ CantidadDeCampos = 2 + 2 * n
      BY <1>1, TextosTipo
    <3>2. j \in 1..(2 + 2 * n)
      BY <3>1 DEF BufferInv
    <3>3. PICK k \in 1..n : j = 2 * k + 1 \/ j = 2 * k + 2
      <4>1. /\ j % 2 = 1 => (j - 1) \div 2 \in 1..n /\ j = 2 * ((j - 1) \div 2) + 1
            /\ j % 2 # 1 => (j - 2) \div 2 \in 1..n /\ j = 2 * ((j - 2) \div 2) + 2
        BY <2>3, <3>2
      <4> QED BY <4>1
    <3>4. Campo(2 * k + 2).clase = "texto"
      <4>1. k \in Nat \ {0}
        OBVIOUS
      <4>2. Campo(2 * k + 2) = Cadena(Textos[k])
        BY <4>1, CampoDeTexto
      <4> QED BY <4>2 DEF Cadena
    <3>5. v = Campo(2 * k + 1).valor
      BY <2>1, <3>3, <3>4
    <3>6. v = LargoDe(Textos[k]) /\ k \in DOMAIN Textos
      <4>1. k \in Nat \ {0} /\ DOMAIN Textos = 1..n
        BY <1>1, <3>1
      <4>2. Campo(2 * k + 1) = Entero(LargoDe(Textos[k]))
        BY <4>1, CampoDeTexto
      <4> QED BY <3>5, <4>1, <4>2 DEF Entero
    <3> QED BY <3>6, Zenon DEF EnterosDelProtocolo
  <2> QED BY <2>2, <2>3
<1> QED BY <1>2, <1>3

\* The integers of the protocol are integers.
LEMMA EnterosEnteros ==
    ASSUME ConsolaInv
    PROVE  EnterosDelProtocolo \subseteq Int
<1>1. Textos \in Seq(TextoT) /\ Len(instr) + 1 \in Int
  BY TextosTipo DEF ConsolaInv
<1>2. \A k \in DOMAIN Textos : LargoDe(Textos[k]) \in Int
  <2>1. \A t \in TextoT : LargoDe(t) \in Int
    BY DEF LargoDe, TextoT
  <2>2. \A k \in DOMAIN Textos : Textos[k] \in TextoT
    BY <1>1
  <2> QED BY <2>1, <2>2
<1>3. INSTR \in Int
  BY DEF INSTR
<1> QED BY <1>1, <1>2, <1>3, RestosEnteros, Zenon DEF EnterosDelProtocolo

\* A recv takes no more bytes than there are.
LEMMA RecibidosAcotados ==
    ASSUME TipoInv, NEW n \in Int
    PROVE  Recibidos(n) \in Nat /\ pos + Recibidos(n) <= llegado
<1>1. PICK p \in Nat, l \in Nat : p = pos /\ l = llegado /\ p <= l
  BY DEF TipoInv
<1>2. Recibidos(n) = IF n <= 0 THEN 0 ELSE IF n <= l - p THEN n ELSE l - p
  BY <1>1 DEF Recibidos, Menor
<1> QED BY <1>1, <1>2

\* Every step keeps the types, with whatever the recv's leave in the variables
\* of the thread.
LEMMA TipoPaso == ConsolaInv /\ BufferInv /\ TipoInv /\ [Next]_vars => TipoInv'
<1> SUFFICES ASSUME ConsolaInv, BufferInv, TipoInv, [Next]_vars PROVE TipoInv'
  OBVIOUS
<1>t. instr' = instr => Textos' = Textos /\ EnterosDelProtocolo' = EnterosDelProtocolo
  BY Zenon DEF Textos, EnterosDelProtocolo, LargoDe
<1>n. TamanioInt \in Int
  BY DEF TamanioInt
<1>1. CASE LeerTrozo
  <2>1. /\ pcConsola = "leer" /\ saludo = "nada" /\ pcHilo = "saludo" /\ lista = <<>>
        /\ UNCHANGED <<pcConsola, saludo, pcHilo, lista, enviado, llegado, pos, reserva>>
    BY <1>1 DEF LeerTrozo, TipoInv, red, hilo, mensaje
  <2>2. <<>> \in Seq({NULL, Basura}' \cup {Textos'[k] : k \in DOMAIN Textos'})
    OBVIOUS
  <2>3. lista' \in Seq(({NULL, Basura} \cup {Textos[k] : k \in DOMAIN Textos})')
    BY <2>1, <2>2
  <2>4. \A k \in 1..Len(instr') : instr'[k] = NULL \/ LargoDe(instr'[k]) \in 2..TamanioLinea
    BY <1>1, TrozoTipo
  <2> QED BY <2>1, <2>3, <2>4 DEF TipoInv
<1>2. ASSUME UNCHANGED <<lectura, hilo, llegado, enviado>>,
             pcConsola # "leer", pcConsola' # "leer",
             saludo = "nada" \/ saludo' # "nada",
             (pcConsola' \in {"enviado", "fin"}) = (pcConsola \in {"enviado", "fin"}),
             pcConsola \in {"enviado", "fin"} => reserva' = reserva
      PROVE  TipoInv'
  <2>1. /\ UNCHANGED <<pcHilo, lista, enviado, llegado, pos, largo>> /\ instr' = instr
        /\ enviado' = IF pcConsola' \in {"enviado", "fin"} THEN reserva' ELSE 0
    BY <1>2 DEF lectura, hilo, TipoInv
  <2> QED BY <1>2, <1>t, <2>1 DEF TipoInv
<1>3. CASE Saludar
  <2>1. /\ pcConsola = "leer" /\ saludo' = "pedido" /\ pcConsola' = "saludando"
        /\ UNCHANGED <<instr, pcHilo, lista, enviado, llegado, pos, largo>>
    BY <1>3 DEF Saludar, lectura, red, hilo
  <2> QED BY <2>1, <1>t DEF TipoInv
<1>4. CASE RecibirSaludo
  <2>1. /\ UNCHANGED <<lectura, hilo, llegado, enviado, saludo>>
        /\ pcConsola = "saludando" /\ pcConsola' = "serializar"
    BY <1>4 DEF RecibirSaludo, red
  <2>2. saludo # "nada"
    BY <1>4 DEF RecibirSaludo
  <2> QED BY <1>2, <2>1, <2>2
<1>5. CASE EscribirCampo
  <2>1. /\ UNCHANGED <<lectura, hilo, llegado, enviado, saludo, pcConsola, reserva>>
        /\ pcConsola = "serializar"
    BY <1>5 DEF EscribirCampo, red
  <2> QED BY <1>2, <2>1
<1>6. CASE Enviar
  <2>1. /\ enviado' = reserva /\ pcConsola' = "enviado" /\ pcConsola = "serializar"
        /\ UNCHANGED <<instr, reserva, saludo, llegado, pcHilo, lista, pos, largo>>
    BY <1>6 DEF Enviar, lectura, mensaje, hilo
  <2>2. reserva \in Nat
    BY <2>1, LargoNatural DEF ConsolaInv, Reserva, TamanioInt, TamanioSizeT, TamanioPuntero
  <2>3. llegado \in Nat /\ llegado = 0 /\ pos \in Nat /\ pos <= llegado
    BY <2>1 DEF TipoInv
  <2>4. llegado' \in Nat /\ llegado' <= enviado'
    BY <2>1, <2>2, <2>3
  <2> QED BY <2>1, <2>3, <2>4, <1>t DEF TipoInv
<1>7. CASE Salir
  <2>1. /\ UNCHANGED <<lectura, hilo, llegado, enviado, saludo, reserva>>
        /\ pcConsola = "enviado" /\ pcConsola' = "fin"
    BY <1>7 DEF Salir, mensaje
  <2> QED BY <1>2, <2>1
<1>8. CASE MorirPorNULL \/ MorirPorDesborde
  <2>1. /\ UNCHANGED <<lectura, hilo, llegado, enviado, saludo, reserva>>
        /\ pcConsola = "serializar" /\ pcConsola' = "muerta"
    BY <1>8 DEF MorirPorNULL, MorirPorDesborde, mensaje
  <2> QED BY <1>2, <2>1
<1>9. CASE Entregar
  <2>1. /\ UNCHANGED <<pcConsola, instr, reserva, saludo, enviado, pcHilo, lista, pos, largo>>
        /\ llegado < enviado
        /\ llegado' \in (llegado + 1)..enviado
    BY <1>9 DEF Entregar, lectura, mensaje, hilo
  <2>2. /\ llegado \in Nat /\ pos \in Nat /\ pos <= llegado
    BY DEF TipoInv
  <2>3. llegado' \in Nat /\ llegado' <= enviado /\ pos <= llegado'
    BY <2>1, <2>2
  <2> QED BY <2>1, <2>2, <2>3, <1>t DEF TipoInv
<1>10. ASSUME UNCHANGED <<lectura, mensaje, red, pcConsola>>, pcHilo' # "texto", saludo' # "nada",
              pcHilo' \in {"cant", "operacion", "largo", "crear", "creado", "muerto"},
              lista' \in Seq({NULL, Basura} \cup {Textos[k] : k \in DOMAIN Textos}),
              pos' = pos \/ \E n \in Int : pos' = pos + Recibidos(n),
              pcConsola # "leer"
       PROVE  TipoInv'
  <2>1. UNCHANGED <<instr, reserva, enviado, llegado, pcConsola>>
    BY <1>10 DEF lectura, mensaje, red
  <2>2. pos' \in Nat /\ pos' <= llegado
    <3>1. pos \in Nat /\ pos <= llegado
      BY DEF TipoInv
    <3>2. \A n \in Int : Recibidos(n) \in Nat /\ pos + Recibidos(n) <= llegado
      BY RecibidosAcotados
    <3>3. CASE pos' = pos
      BY <3>1, <3>3
    <3>4. ASSUME NEW n \in Int, pos' = pos + Recibidos(n) PROVE pos' \in Nat /\ pos' <= llegado
      <4>1. PICK r \in Nat : r = Recibidos(n) /\ pos + r <= llegado
        BY <3>2, Zenon
      <4> QED BY <3>1, <3>4, <4>1
    <3> QED BY <1>10, <3>3, <3>4
  <2> QED BY <1>10, <1>t, <2>1, <2>2 DEF TipoInv
<1>s. pcHilo # "saludo" => saludo # "nada" /\ pcConsola # "leer"
  BY DEF TipoInv
<1>v. lista \in Seq({NULL, Basura} \cup {Textos[k] : k \in DOMAIN Textos})
  BY DEF TipoInv
<1>11. CASE AtenderSaludo
  <2>1. /\ UNCHANGED <<lectura, mensaje, red, pcConsola, pos, lista>>
        /\ pcHilo' = "cant" /\ saludo' = "respondido" /\ saludo = "pedido"
    BY <1>11 DEF AtenderSaludo
  <2>2. pcConsola # "leer"
    BY <2>1 DEF TipoInv
  <2> QED BY <1>10, <1>v, <2>1, <2>2
<1>12. CASE RecibirCant
  <2>1. /\ UNCHANGED <<lectura, mensaje, red, pcConsola, lista, saludo>>
        /\ pcHilo' = "operacion" /\ pcHilo = "cant" /\ pos' = pos + Recibidos(TamanioInt)
    BY <1>12 DEF RecibirCant
  <2> QED BY <1>10, <1>n, <1>s, <1>v, <2>1
<1>13. CASE RecibirOperacion
  <2>1. /\ UNCHANGED <<lectura, mensaje, red, pcConsola, lista, saludo>>
        /\ pcHilo' \in {"largo", "crear"} /\ pcHilo = "operacion"
        /\ pos' = pos + Recibidos(TamanioInt)
    BY <1>13 DEF RecibirOperacion, SiguienteVuelta
  <2> QED BY <1>10, <1>n, <1>s, <1>v, <2>1
<1>14. CASE RecibirLargo
  <2>1. /\ UNCHANGED <<lectura, mensaje, red, pcConsola, lista, saludo>>
        /\ pcHilo' = "texto" /\ pcHilo = "largo" /\ pos' = pos + Recibidos(TamanioInt)
        /\ largo' \in LargosPosibles
    BY <1>14 DEF RecibirLargo
  <2>2. UNCHANGED <<instr, reserva, enviado, llegado>>
    BY <2>1 DEF lectura, mensaje, red
  <2>3. pos' \in Nat /\ pos' <= llegado
    <3>1. pos \in Nat
      BY DEF TipoInv
    <3>2. Recibidos(TamanioInt) \in Nat /\ pos + Recibidos(TamanioInt) <= llegado
      BY <1>n, RecibidosAcotados
    <3> QED BY <2>1, <3>1, <3>2
  <2>4. largo' \in EnterosDelProtocolo
    BY <2>1, LargoPosible
  <2> QED BY <1>t, <1>s, <2>1, <2>2, <2>3, <2>4 DEF TipoInv
<1>15. CASE RecibirTexto
  <2>1. /\ UNCHANGED <<lectura, mensaje, red, pcConsola, saludo>>
        /\ pcHilo' \in {"largo", "crear"} /\ pcHilo = "texto" /\ pos' = pos + Recibidos(largo)
        /\ \E t \in TextosPosibles : lista' = Append(lista, t)
    BY <1>15 DEF RecibirTexto, SiguienteVuelta
  <2>2. largo \in Int
    BY <2>1, EnterosEnteros DEF TipoInv
  <2>3. lista' \in Seq({NULL, Basura} \cup {Textos[k] : k \in DOMAIN Textos})
    <3>1. \A X : \A s \in Seq(X) : \A x \in X : Append(s, x) \in Seq(X)
      OBVIOUS
    <3> QED BY <1>v, <2>1, <3>1, Zenon DEF TextosPosibles
  <2> QED BY <1>10, <1>s, <2>1, <2>2, <2>3
<1>16. CASE CrearProceso \/ MorirKernel
  <2>1. /\ UNCHANGED <<lectura, mensaje, red, pcConsola, saludo, lista, pos>>
        /\ pcHilo' \in {"creado", "muerto"} /\ pcHilo = "crear"
    BY <1>16 DEF CrearProceso, MorirKernel
  <2> QED BY <1>10, <1>s, <1>v, <2>1
<1>17. CASE UNCHANGED vars
  <2>1. UNCHANGED <<instr, pcHilo, saludo, lista, enviado, llegado, pos, reserva, pcConsola, largo>>
    BY <1>17 DEF vars, lectura, mensaje, red, hilo
  <2> QED BY <2>1, <1>t DEF TipoInv
<1> QED
  BY <1>1, <1>3, <1>4, <1>5, <1>6, <1>7, <1>8, <1>9, <1>11, <1>12, <1>13, <1>14, <1>15,
     <1>16, <1>17 DEF Next, Consola, Hilo, Fin

\* They hold at the start.
LEMMA TipoInicio == Init => TipoInv
<1> SUFFICES ASSUME Init PROVE TipoInv
  OBVIOUS
<1>1. \A X : <<>> \in Seq(X)
  OBVIOUS
<1>2. instr = <<>> /\ lista = <<>> /\ Len(instr) = 0
  BY DEF Init
<1> QED BY <1>1, <1>2 DEF Init, TipoInv

\* They are those of the run.
LEMMA TipoAlcanza == ConsolaInv /\ TipoInv => TypeOK
<1> SUFFICES ASSUME ConsolaInv, TipoInv PROVE TypeOK
  OBVIOUS
<1>1. pos \in 0..llegado /\ llegado \in 0..enviado /\ enviado \in {0, reserva}
  <2>1. PICK p \in Nat, l \in Nat : p = pos /\ l = llegado /\ p <= l
    BY DEF TipoInv
  <2>2. enviado \in {0, reserva} /\ enviado \in Nat
    BY LargoNatural DEF TipoInv, ConsolaInv, Reserva, TamanioInt, TamanioSizeT, TamanioPuntero
  <2> QED BY <2>1, <2>2 DEF TipoInv
<1>2. DOMAIN instr = 1..Len(instr)
  BY DEF ConsolaInv
<1>3. \A k \in DOMAIN lista : lista[k] \in {NULL, Basura} \cup {Textos[i] : i \in DOMAIN Textos}
  <2>1. \A X : \A s \in Seq(X) : \A k \in DOMAIN s : s[k] \in X
    OBVIOUS
  <2> QED BY <2>1, Zenon DEF TipoInv
<1> QED BY <1>1, <1>2, <1>3, Zenon DEF TypeOK, TipoInv, ConsolaInv

\* No recv reads past what was delivered, a length is one that was sent or what
\* the variable held, and every string the kernel's thread keeps is one of the
\* message, NULL or garbage: for every program and every cut of the network.
THEOREM TipoDelEnvio == Spec => []TypeOK
<1> DEFINE I == ConsolaInv /\ BufferInv /\ TipoInv
<1>1. Init => I
  BY Inicio, TipoInicio DEF IInv
<1>2. I /\ [Next]_vars => I'
  BY ConsolaPaso, BufferPaso, TipoPaso
<1>3. I => TypeOK
  BY TipoAlcanza
<1> QED BY <1>1, <1>2, <1>3, PTL DEF Spec

-----------------------------------------------------------------------------
(* Lines *)

\* The instruction a line is when it is read whole, in its place.
Sana(i) == i <= Len(archivo) /\ instr[i] = Texto(i, 0, archivo[i])

\* So far every line was one instruction.
Enteros == columna = 0 /\ \A k \in 1..(renglon - 1) : RenglonEntra(k)

\* When one was not, the list shows it for ever; or only the newline of the line
\* is left, to become a NULL; or a last line without characters was left out.
Rota ==
    \/ \E i \in 1..Len(instr) : ~Sana(i)
    \/ columna > 0 /\ HaySalto /\ columna = archivo[renglon]
    \/ renglon = Len(archivo) + 1 /\ Len(instr) # Len(archivo)

LecturaInv ==
    /\ renglon \in 1..(Len(archivo) + 1)
    /\ columna > 0 => renglon <= Len(archivo) /\ ~RenglonEntra(renglon)
    /\ Enteros => Len(instr) = renglon - 1 /\ \A i \in 1..Len(instr) : Sana(i)
    /\ ~Enteros => Rota
    /\ pcConsola # "leer" => renglon = Len(archivo) + 1

\* A string added to the list changes nothing of what it was.
LEMMA SanaSigue ==
    ASSUME ConsolaInv, archivo' = archivo, NEW m \in Nat, m = Len(instr)
    PROVE  \A t : instr' = Append(instr, t) =>
               /\ Len(instr') = m + 1
               /\ \A i \in 1..m : Sana(i)' <=> Sana(i)
               /\ Sana(m + 1)' <=>
                     /\ m + 1 <= Len(archivo)
                     /\ t = Texto(m + 1, 0, archivo[m + 1])
<1>1. instr \in Seq(TextoT)
  BY DEF ConsolaInv
<1> SUFFICES ASSUME NEW t, instr' = Append(instr, t)
             PROVE  /\ Len(instr') = m + 1
                    /\ \A i \in 1..m : Sana(i)' <=> Sana(i)
                    /\ Sana(m + 1)' <=>
                          /\ m + 1 <= Len(archivo)
                          /\ t = Texto(m + 1, 0, archivo[m + 1])
  OBVIOUS
<1>2. /\ Len(instr') = m + 1 /\ instr'[m + 1] = t
      /\ \A i \in 1..m : instr'[i] = instr[i]
  BY <1>1
<1>3. \A i, j, n : Texto(i, j, n)' = Texto(i, j, n)
  BY DEF Texto
<1> QED BY <1>2, <1>3, Zenon DEF Sana

\* An fgets adds a whole line in its place, or begins to show that one was not
\* whole.
LEMMA TrozoEsRenglon ==
    ASSUME ConsolaInv, LecturaInv, LeerTrozo
    PROVE  LecturaInv'
<1>1. /\ renglon \in 1..Len(archivo) /\ archivo[renglon] \in Nat /\ columna \in Nat
      /\ Faltan = archivo[renglon] - columna /\ columna <= archivo[renglon]
      /\ pcConsola = "leer" /\ pcConsola' = "leer" /\ archivo' = archivo /\ saltoFinal' = saltoFinal
      /\ Len(archivo) \in Nat /\ Len(instr) \in Nat
  <2>1. /\ archivo \in Seq(Nat) /\ instr \in Seq(TextoT) /\ columna \in Nat
        /\ renglon \in Nat \ {0} /\ (renglon <= Len(archivo) => columna <= archivo[renglon])
    BY Zenon DEF ConsolaInv
  <2>2. /\ pcConsola = "leer" /\ pcConsola' = "leer" /\ renglon <= Len(archivo)
        /\ archivo' = archivo /\ saltoFinal' = saltoFinal
    BY DEF LeerTrozo, fuente
  <2> QED BY <2>1, <2>2 DEF Faltan
<1>2. PICK r \in Nat, n \in Nat, c \in Nat, a \in Nat :
          r = renglon /\ n = Len(archivo) /\ c = columna /\ a = archivo[r]
          /\ 1 <= r /\ r <= n /\ c <= a
  BY <1>1
<1>3. PICK s \in {0, 1} : s = (IF HaySalto THEN 1 ELSE 0)
  OBVIOUS
<1>h. HaySalto <=> s = 1
  BY <1>3
<1>4. RenglonEntra(r) <=> a >= 1 /\ a + s <= 29
  <2>1. HaySalto <=> r < n \/ saltoFinal
    BY <1>2, Zenon DEF HaySalto
  <2>2. RenglonEntra(r) <=> a \in 1..(IF HaySalto THEN 28 ELSE 29)
    BY <1>2, <2>1, Zenon DEF RenglonEntra
  <2> QED BY <1>h, <2>2
<1>5. \A k : RenglonEntra(k)' <=> RenglonEntra(k)
  BY <1>1 DEF RenglonEntra
<1>6. \/ /\ (a - c) + s > 29
         /\ instr' = Append(instr, Texto(r, c, 29))
         /\ columna' = c + 29 /\ renglon' = r
      \/ /\ (a - c) + s = 0
         /\ instr' = instr /\ columna' = 0 /\ renglon' = r + 1
      \/ /\ a - c = 0 /\ s = 1
         /\ instr' = Append(instr, NULL) /\ columna' = 0 /\ renglon' = r + 1
      \/ /\ a - c # 0 /\ (a - c) + s <= 29
         /\ instr' = Append(instr, Texto(r, c, a - c)) /\ columna' = 0 /\ renglon' = r + 1
  <2>1. Pedido = 29 /\ Faltan = a - c
    BY <1>1, <1>2 DEF Pedido, TamanioLinea
  <2>2. \/ /\ (a - c) + s > 29
           /\ instr' = Append(instr, Texto(r, c, 29))
           /\ columna' = c + 29 /\ renglon' = r
        \/ /\ ~((a - c) + s > 29)
           /\ instr' = IF (a - c) + s = 0 THEN instr
                       ELSE IF a - c = 0 THEN Append(instr, NULL)
                       ELSE Append(instr, Texto(r, c, a - c))
           /\ columna' = 0 /\ renglon' = r + 1
    BY <1>2, <1>3, <2>1, Zenon DEF LeerTrozo
  <2>3. a - c = 0 /\ (a - c) + s # 0 => s = 1
    OBVIOUS
  <2>4. ~((a - c) + s > 29) => (a - c) + s <= 29
    OBVIOUS
  <2> QED BY <2>2, <2>3, <2>4, Zenon
<1>8. PICK m \in Nat : m = Len(instr)
  BY <1>1
<1>s. \A t : instr' = Append(instr, t) =>
               /\ Len(instr') = m + 1
               /\ \A i \in 1..m : Sana(i)' <=> Sana(i)
               /\ Sana(m + 1)' <=>
                     /\ m + 1 <= Len(archivo)
                     /\ t = Texto(m + 1, 0, archivo[m + 1])
  BY <1>1, <1>8, SanaSigue
<1>7. \A i \in 1..m : Sana(i)' <=> Sana(i)
  <2>1. instr' = instr => \A i : Sana(i)' <=> Sana(i)
    <3>1. \A i, j, k : Texto(i, j, k)' = Texto(i, j, k)
      BY DEF Texto
    <3> QED BY <1>1, <3>1, Zenon DEF Sana
  <2> QED BY <1>6, <1>s, <2>1, Zenon
<1>9. instr' = instr \/ Len(instr') = m + 1
  BY <1>6, <1>s, Zenon
<1>10. NULL # Texto(m + 1, 0, archivo[m + 1])
  BY DEF NULL, Texto
<1>e. Enteros <=> c = 0 /\ \A k \in 1..(r - 1) : RenglonEntra(k)
  BY <1>2, Zenon DEF Enteros
<1>11. CASE Enteros
  <2>1. m = r - 1 /\ c = 0 /\ m + 1 = r /\ \A i \in 1..m : Sana(i)
    BY <1>2, <1>8, <1>11 DEF LecturaInv, Enteros
  <2>2. \A t : instr' = Append(instr, t) =>
            Len(instr') = r /\ (Sana(r)' <=> t = Texto(r, 0, a))
    <3>1. r <= Len(archivo)
      BY <1>2
    <3> QED BY <1>2, <1>s, <2>1, <3>1, Zenon
  <2>3. ASSUME (a - c) + s > 29, instr' = Append(instr, Texto(r, c, 29)),
               columna' = c + 29, renglon' = r
        PROVE  LecturaInv'
    <3>1. ~RenglonEntra(r)
      BY <1>4, <2>1, <2>3
    <3>2. ~Enteros' /\ columna' > 0
      BY <2>1, <2>3 DEF Enteros
    <3>3. CASE a = 29
      <4>1. s = 1
        BY <2>1, <2>3, <3>3
      <4>2. HaySalto' /\ columna' = archivo'[renglon']
        BY <1>1, <1>2, <1>h, <2>1, <2>3, <3>3, <4>1 DEF HaySalto
      <4> QED BY <1>1, <1>2, <1>5, <2>3, <3>1, <3>2, <4>2 DEF LecturaInv, Rota
    <3>4. CASE a # 29
      <4>1. Texto(r, c, 29) # Texto(r, 0, a)
        BY <3>4 DEF Texto
      <4>2. ~Sana(r)' /\ r \in 1..Len(instr')
        BY <1>2, <2>2, <2>3, <4>1
      <4> QED BY <1>1, <1>2, <1>5, <2>3, <3>1, <3>2, <4>2 DEF LecturaInv, Rota
    <3> QED BY <3>3, <3>4
  <2>4. ASSUME (a - c) + s = 0, instr' = instr, columna' = 0, renglon' = r + 1
        PROVE  LecturaInv'
    <3>1. a = 0 /\ s = 0 /\ ~RenglonEntra(r)
      BY <1>4, <2>1, <2>4
    <3>2. r = n
      BY <1>2, <1>h, <3>1 DEF HaySalto
    <3>3. ~Enteros'
      <4>1. r \in 1..(renglon' - 1)
        BY <1>2, <2>4
      <4> QED BY <1>5, <3>1, <4>1, Zenon DEF Enteros
    <3>4. Rota'
      <4>1. renglon' = Len(archivo') + 1 /\ Len(instr') # Len(archivo')
        <5>1. r + 1 = n + 1 /\ m # n
          BY <2>1, <3>2
        <5>2. Len(instr') = m /\ Len(archivo') = n
          BY <1>1, <1>2, <1>8, <2>4, Zenon
        <5> QED BY <2>4, <5>1, <5>2, Zenon
      <4> QED BY <4>1, Zenon DEF Rota
    <3> QED BY <1>1, <1>2, <2>4, <3>2, <3>3, <3>4 DEF LecturaInv
  <2>5. ASSUME a - c = 0, s = 1, instr' = Append(instr, NULL), columna' = 0, renglon' = r + 1
        PROVE  LecturaInv'
    <3>1. ~RenglonEntra(r)
      BY <1>4, <2>1, <2>5
    <3>2. ~Enteros'
      <4>1. r \in 1..(renglon' - 1)
        BY <1>2, <2>5
      <4> QED BY <1>5, <3>1, <4>1, Zenon DEF Enteros
    <3>3. NULL # Texto(r, 0, a)
      BY DEF NULL, Texto
    <3>4. ~Sana(r)' /\ r \in 1..Len(instr')
      BY <1>2, <2>2, <2>5, <3>3
    <3> QED BY <1>1, <1>2, <2>5, <3>2, <3>4 DEF LecturaInv, Rota
  <2>6. ASSUME a - c # 0, (a - c) + s <= 29, instr' = Append(instr, Texto(r, c, a - c)),
               columna' = 0, renglon' = r + 1
        PROVE  LecturaInv'
    <3>1. RenglonEntra(r) /\ a - c = a
      BY <1>4, <2>1, <2>6
    <3>2. Enteros'
      <4>1. \A k \in 1..((r + 1) - 1) : k = r \/ k \in 1..(r - 1)
        OBVIOUS
      <4>2. \A k \in 1..((r + 1) - 1) : RenglonEntra(k)
        BY <1>e, <1>11, <3>1, <4>1, Zenon
      <4> QED BY <1>5, <2>6, <4>2, Zenon DEF Enteros
    <3>3. Len(instr') = r /\ Sana(r)'
      BY <2>1, <2>2, <2>6, <3>1
    <3>4. \A i \in 1..Len(instr') : Sana(i)'
      <4>1. \A i \in 1..r : i = r \/ i \in 1..m
        BY <2>1
      <4> QED BY <1>7, <1>8, <2>1, <3>3, <4>1, Zenon
    <3>5. Len(instr') = renglon' - 1 /\ renglon' \in 1..(Len(archivo') + 1) /\ ~(columna' > 0)
      BY <1>1, <1>2, <2>6, <3>3
    <3> QED BY <1>1, <3>2, <3>4, <3>5, Zenon DEF LecturaInv
  <2> QED BY <1>6, <2>3, <2>4, <2>5, <2>6
<1>12. CASE ~Enteros
  <2>1. \/ \E i \in 1..m : ~Sana(i)
        \/ c > 0 /\ s = 1 /\ c = a
    <3>1. Rota
      BY <1>12 DEF LecturaInv
    <3>2. renglon # Len(archivo) + 1
      BY <1>2
    <3> QED BY <1>2, <1>8, <1>h, <3>1, <3>2, Zenon DEF Rota
  <2>2. \E i \in 1..Len(instr') : ~Sana(i)'
    <3>1. ASSUME NEW i \in 1..m, ~Sana(i) PROVE i \in 1..Len(instr') /\ ~Sana(i)'
      <4>1. Len(instr') = m \/ Len(instr') = m + 1
        BY <1>8, <1>9, Zenon
      <4>2. i \in 1..Len(instr')
        BY <4>1
      <4> QED BY <1>7, <1>8, <3>1, <4>2, Zenon
    <3>2. ASSUME c > 0, s = 1, c = a PROVE m + 1 \in 1..Len(instr') /\ ~Sana(m + 1)'
      <4>1. instr' = Append(instr, NULL)
        <5>1. a - c = 0 /\ (a - c) + s = 1
          BY <3>2
        <5> QED BY <1>6, <5>1
      <4>2. Len(instr') = m + 1 /\ ~Sana(m + 1)'
        BY <1>10, <1>s, <4>1, Zenon
      <4> QED BY <4>2
    <3> QED BY <2>1, <3>1, <3>2
  <2>3. Rota'
    BY <2>2, Zenon DEF Rota
  <2>4. ~Enteros'
    <3>1. CASE columna' # 0
      BY <3>1 DEF Enteros
    <3>2. CASE columna' = 0
      <4>1. renglon' = r + 1
        BY <1>6, <3>2
      <4>2. PICK k \in 1..r : ~RenglonEntra(k)
        <5>1. CASE c = 0
          <6>1. PICK k \in 1..(r - 1) : ~RenglonEntra(k)
            BY <1>e, <1>12, <5>1
          <6> QED BY <6>1
        <5>2. CASE c # 0
          <6>1. ~RenglonEntra(r)
            BY <1>2, <5>2 DEF LecturaInv
          <6> QED BY <1>2, <6>1
        <5> QED BY <5>1, <5>2
      <4>3. k \in 1..(renglon' - 1)
        BY <4>1
      <4> QED BY <1>5, <4>2, <4>3, Zenon DEF Enteros
    <3> QED BY <3>1, <3>2
  <2>5. columna' > 0 => renglon' <= Len(archivo') /\ ~RenglonEntra(renglon)'
    <3> SUFFICES ASSUME columna' > 0 PROVE renglon' <= Len(archivo') /\ ~RenglonEntra(renglon)'
      OBVIOUS
    <3>2. (a - c) + s > 29 /\ renglon' = r
      BY <1>6
    <3>3. ~RenglonEntra(r)
      BY <1>4, <3>2
    <3> QED BY <1>1, <1>2, <1>5, <3>2, <3>3
  <2>6. renglon' \in 1..(Len(archivo') + 1)
    BY <1>1, <1>2, <1>6
  <2> QED BY <1>1, <2>3, <2>4, <2>5, <2>6, Zenon DEF LecturaInv
<1> QED BY <1>11, <1>12

\* Every step keeps what the list says of the file.
LEMMA LecturaPaso == ConsolaInv /\ LecturaInv /\ [Next]_vars => LecturaInv'
<1> SUFFICES ASSUME ConsolaInv, LecturaInv, [Next]_vars PROVE LecturaInv'
  OBVIOUS
<1>1. CASE LeerTrozo
  BY <1>1, TrozoEsRenglon
<1>2. ASSUME UNCHANGED <<fuente, lectura>>,
             pcConsola' = "leer" \/ renglon = Len(archivo) + 1
      PROVE  LecturaInv'
  <2>1. UNCHANGED <<archivo, saltoFinal, renglon, columna, instr>>
    BY <1>2 DEF fuente, lectura
  <2>2. \A k : RenglonEntra(k)' <=> RenglonEntra(k)
    BY <2>1 DEF RenglonEntra
  <2>3. \A i : Sana(i)' <=> Sana(i)
    BY <2>1 DEF Sana, Texto
  <2>4. (Enteros' <=> Enteros) /\ (Rota' <=> Rota) /\ (RenglonEntra(renglon)' <=> RenglonEntra(renglon))
    BY <2>1, <2>2, <2>3, Zenon DEF Enteros, Rota, HaySalto
  <2> QED BY <1>2, <2>1, <2>2, <2>3, <2>4, Zenon DEF LecturaInv
<1>3. CASE Saludar
  <2>1. UNCHANGED <<fuente, lectura>> /\ renglon > Len(archivo)
    BY <1>3 DEF Saludar
  <2>2. Len(archivo) \in Nat /\ renglon \in 1..(Len(archivo) + 1)
    BY DEF ConsolaInv, LecturaInv
  <2> QED BY <1>2, <2>1, <2>2
<1>4. ~LeerTrozo /\ ~Saludar =>
          UNCHANGED <<fuente, lectura>> /\ (pcConsola' = "leer" => pcConsola = "leer")
              /\ (pcConsola = "leer" => pcConsola' = "leer")
  BY DEF Next, Consola, RecibirSaludo, EscribirCampo, Enviar, Salir, MorirPorNULL,
         MorirPorDesborde, Entregar, Hilo, AtenderSaludo, RecibirCant, RecibirOperacion,
         RecibirLargo, RecibirTexto, CrearProceso, MorirKernel, Fin, vars
<1>5. ASSUME ~LeerTrozo, ~Saludar PROVE LecturaInv'
  BY <1>2, <1>4, <1>5, Zenon DEF LecturaInv
<1> QED BY <1>1, <1>3, <1>5

\* Before the first fgets the list is that of no lines.
LEMMA LecturaInicio == Init => LecturaInv
<1> SUFFICES ASSUME Init PROVE LecturaInv
  OBVIOUS
<1>1. /\ archivo \in Seq(Nat) /\ renglon = 1 /\ columna = 0 /\ instr = <<>> /\ pcConsola = "leer"
  BY ArchivosDeLineas DEF Init
<1>2. Enteros
  BY <1>1 DEF Enteros
<1>3. Len(instr) = 0 /\ 0 = renglon - 1 /\ renglon \in 1..(Len(archivo) + 1) /\ ~(columna > 0)
  BY <1>1
<1>4. \A i \in 1..0 : Sana(i)
  OBVIOUS
<1> QED BY <1>1, <1>2, <1>3, <1>4, Zenon DEF LecturaInv

\* At the end of the file that is RenglonesFieles.
LEMMA LecturaAlcanza == ConsolaInv /\ LecturaInv => RenglonesFieles
<1> SUFFICES ASSUME ConsolaInv, LecturaInv, pcConsola # "leer"
             PROVE  instr = Renglones <=> \A k \in DOMAIN archivo : RenglonEntra(k)
  BY Zenon DEF RenglonesFieles
<1>1. PICK n \in Nat : n = Len(archivo) /\ DOMAIN archivo = 1..n
  BY DEF ConsolaInv
<1>2. PICK m \in Nat : m = Len(instr) /\ instr \in Seq(TextoT) /\ DOMAIN instr = 1..m
  BY DEF ConsolaInv
<1>3. renglon = n + 1 /\ columna = 0
  <2>1. renglon = n + 1 /\ columna \in Nat
    BY <1>1, Zenon DEF LecturaInv, ConsolaInv
  <2>2. ~(renglon <= n)
    BY <2>1
  <2>3. ~(columna > 0)
    BY <1>1, <2>2, Zenon DEF LecturaInv
  <2> QED BY <2>1, <2>3
<1>4. Enteros <=> \A k \in 1..n : RenglonEntra(k)
  <2>1. renglon - 1 = n
    BY <1>3
  <2> QED BY <1>3, <2>1, Zenon DEF Enteros
<1>5. DOMAIN Renglones = 1..n /\ \A i \in 1..n : Renglones[i] = Texto(i, 0, archivo[i])
  BY <1>1, Zenon DEF Renglones
<1>6. CASE Enteros
  <2>1. m = n /\ \A i \in 1..n : Sana(i)
    <3>1. m = renglon - 1 /\ \A i \in 1..m : Sana(i)
      BY <1>2, <1>6, Zenon DEF LecturaInv
    <3>2. m = n
      BY <1>3, <3>1
    <3> QED BY <3>1, <3>2, Zenon
  <2>2. \A i \in 1..n : instr[i] = Renglones[i]
    BY <1>5, <2>1, Zenon DEF Sana
  <2>3. Renglones = [i \in 1..n |-> Renglones[i]]
    BY <1>1, <1>5, Zenon DEF Renglones
  <2>4. instr = [i \in 1..n |-> instr[i]]
    BY <1>2, <2>1
  <2>5. instr = Renglones
    BY <2>2, <2>3, <2>4
  <2> QED BY <1>1, <1>4, <1>6, <2>5, Zenon
<1>7. CASE ~Enteros
  <2>1. (\E i \in 1..m : ~Sana(i)) \/ m # n
    <3>1. ~(columna > 0)
      BY <1>3
    <3>2. Rota
      BY <1>7, Zenon DEF LecturaInv
    <3> QED BY <1>1, <1>2, <3>1, <3>2, Zenon DEF Rota
  <2>2. instr # Renglones
    <3> SUFFICES ASSUME instr = Renglones PROVE FALSE
      OBVIOUS
    <3>1. 1..m = 1..n
      BY <1>2, <1>5, Zenon
    <3>2. m = n
      BY <3>1
    <3>3. PICK i \in 1..n : ~Sana(i)
      BY <2>1, <3>2, Zenon
    <3>4. i <= Len(archivo)
      BY <1>1
    <3> QED BY <1>5, <3>3, <3>4, Zenon DEF Sana
  <2> QED BY <1>1, <1>4, <1>7, <2>2, Zenon
<1> QED BY <1>6, <1>7

\* The list the console reads is the program line by line exactly when no line is
\* empty or has more characters than an fgets of 30 takes at once: for every file.
THEOREM RenglonesFielesSiempre == Spec => []RenglonesFieles
<1> DEFINE I == ConsolaInv /\ LecturaInv
<1>1. Init => I
  BY ConsolaInicio, LecturaInicio
<1>2. I /\ [Next]_vars => I'
  BY ConsolaPaso, LecturaPaso
<1>3. I => RenglonesFieles
  BY LecturaAlcanza
<1> QED BY <1>1, <1>2, <1>3, PTL DEF Spec

-----------------------------------------------------------------------------
(* The PCB *)

\* g adds up what is written of the first instructions of l.
Sumas(g, l, n) ==
    /\ g \in [0..n -> Nat] /\ g[0] = 0
    /\ \A k \in 1..n : g[k] = g[k - 1] + TamanioInt + LargoDe(l[k])

\* The partial sums exist: by induction over the list.
LEMMA SumasExisten ==
    ASSUME NEW l \in Seq(TextoT), NEW n \in Nat, n = Len(l)
    PROVE  \E g : Sumas(g, l, n)
<1> DEFINE paso == [k \in 1..n |-> [v \in Nat |-> v + TamanioInt + LargoDe(l[k])]]
<1>1. EsPaso(paso, n, Nat)
  <2>1. \A t \in TextoT : LargoDe(t) \in Nat
    BY DEF TextoT, LargoDe
  <2>2. \A k \in 1..n : \A v \in Nat : v + TamanioInt + LargoDe(l[k]) \in Nat
    <3>1. \A k \in 1..n : l[k] \in TextoT
      OBVIOUS
    <3> QED BY <2>1, <3>1 DEF TamanioInt
  <2> QED BY <2>2 DEF EsPaso
<1>2. 0 \in Nat
  OBVIOUS
<1>3. PICK g : EsRecursion(g, n, Nat, 0, paso)
  <2> HIDE DEF paso
  <2> QED BY <1>1, <1>2, Recursion, Zenon
<1>4. g \in [0..n -> Nat] /\ g[0] = 0
  <2> HIDE DEF paso
  <2> QED BY <1>3, Zenon DEF EsRecursion
<1>5. ASSUME NEW k \in 1..n PROVE g[k] = g[k - 1] + TamanioInt + LargoDe(l[k])
  <2>1. g[k] = paso[k][g[k - 1]]
    <3> HIDE DEF paso
    <3> QED BY <1>3, Zenon DEF EsRecursion
  <2>2. k - 1 \in 0..n
    OBVIOUS
  <2>3. g[k - 1] \in Nat
    BY <1>4, <2>2, Zenon
  <2> QED BY <2>1, <2>3, Zenon
<1> QED BY <1>4, <1>5, Zenon DEF Sumas

\* EscritosPCB, which adds along the list, is the last of them.
LEMMA EscritosEs ==
    ASSUME NEW l, NEW n \in Nat, n = Len(l), NEW g, Sumas(g, l, n)
    PROVE  EscritosPCB(l) = g[n]
<1> DEFINE E(f) == [i \in 0..Len(l) |-> IF i = 0 THEN 0
                                        ELSE f[i - 1] + TamanioInt + LargoDe(l[i])]
           F == CHOOSE f : f = E(f)
           h == [i \in 0..Len(l) |-> g[i]]
<1>1. h = E(h)
  <2> SUFFICES ASSUME NEW i \in 0..Len(l)
               PROVE  g[i] = IF i = 0 THEN 0
                             ELSE h[i - 1] + TamanioInt + LargoDe(l[i])
    BY Zenon
  <2>1. CASE i = 0
    BY <2>1, Zenon DEF Sumas
  <2>2. CASE i # 0
    <3>0. i \in 0..n
      BY Zenon
    <3>1. i - 1 \in 0..n /\ i \in 1..n
      BY <2>2, <3>0
    <3>2. h[i - 1] = g[i - 1]
      BY <3>1, Zenon
    <3> QED BY <2>2, <3>1, <3>2, Zenon DEF Sumas
  <2> QED BY <2>1, <2>2
<1>2. F = E(F)
  <2> HIDE DEF h, E
  <2> QED BY <1>1
<1>3. EscritosPCB(l) = F[n]
  BY Zenon DEF EscritosPCB
<1>4. \A i \in 0..n : F[i] = IF i = 0 THEN 0 ELSE F[i - 1] + TamanioInt + LargoDe(l[i])
  <2> HIDE DEF F
  <2> QED BY <1>2, Zenon
<1> HIDE DEF F
<1> DEFINE T == {i \in Nat : i <= n => F[i] = g[i]}
<1>5. 0 \in T
  <2>1. 0 \in 0..n
    OBVIOUS
  <2>2. F[0] = 0 /\ g[0] = 0
    BY <1>4, <2>1, Zenon DEF Sumas
  <2> QED BY <2>2
<1>6. ASSUME NEW i \in Nat, i \in T PROVE i + 1 \in T
  <2> SUFFICES ASSUME i + 1 <= n PROVE F[i + 1] = g[i + 1]
    OBVIOUS
  <2>1. F[i] = g[i]
    BY <1>6
  <2>2. i + 1 \in 0..n /\ i + 1 # 0 /\ (i + 1) - 1 = i /\ i + 1 \in 1..n
    OBVIOUS
  <2>3. F[i + 1] = F[i] + TamanioInt + LargoDe(l[i + 1])
    BY <1>4, <2>2, Zenon
  <2>4. g[i + 1] = g[i] + TamanioInt + LargoDe(l[i + 1])
    BY <2>2, Zenon DEF Sumas
  <2> QED BY <2>1, <2>3, <2>4, Zenon
<1>7. n \in T /\ n <= n
  <2> HIDE DEF T
  <2>1. Nat \subseteq T
    BY <1>5, <1>6, InduccionNat
  <2> QED BY <2>1
<1> QED BY <1>3, <1>7

\* Two steps of the message, a length and its characters, are one of the sum.
LEMMA FinDelTexto ==
    ASSUME ConsolaInv, BufferInv, Len(buffer) = CantidadDeCampos,
           NEW n \in Nat, n = Len(instr)
    PROVE  /\ FinDeCampo(2) = 2 * TamanioInt
           /\ \A k \in 1..(n + 1) :
                 FinDeCampo(2 * k + 2) = FinDeCampo(2 * k) + TamanioInt + LargoDe(Textos[k])
<1>1. instr \in Seq(TextoT) /\ CantidadDeCampos = 4 + 2 * n
  BY TextosTipo DEF ConsolaInv
<1>2. PICK b \in Nat : b = Len(buffer) /\ b = 4 + 2 * n
  BY <1>1
<1>3. /\ \A j \in 1..b : FinDeCampo(j) = buffer[j].desde + Campo(j).ancho
      /\ \A j \in 1..b : j > 1 => buffer[j].desde = FinDeCampo(j - 1)
      /\ buffer # <<>> => buffer[1].desde = 0
      /\ \A j \in 1..b : buffer[j].desde \in Nat
  <2>1. \A j \in 1..b : buffer[j] \in EntradaT
    BY <1>2 DEF BufferInv
  <2>2. \A e \in EntradaT : e.desde \in Nat
    BY DEF EntradaT
  <2> QED BY <1>2, <2>1, <2>2, Zenon DEF BufferInv, FinDeCampo
<1>4. \A j \in 2..b : FinDeCampo(j) = FinDeCampo(j - 1) + Campo(j).ancho
  <2>1. \A j \in 2..b : j \in 1..b /\ j > 1
    OBVIOUS
  <2> QED BY <1>3, <2>1, Zenon
<1>5. FinDeCampo(2) = 2 * TamanioInt
  <2>1. buffer # <<>>
    BY <1>2
  <2>2. FinDeCampo(1) = 4
    <3>1. 1 \in 1..b /\ Campo(1).ancho = 4
      BY <1>2 DEF Campo, Entero, TamanioInt
    <3> QED BY <1>3, <2>1, <3>1
  <2>3. FinDeCampo(2) = FinDeCampo(1) + 4
    <3>1. 2 \in 2..b /\ Campo(2).ancho = 4 /\ 2 - 1 = 1
      BY <1>2 DEF Campo, Entero, TamanioInt
    <3> QED BY <1>4, <3>1, Zenon
  <2> QED BY <2>2, <2>3 DEF TamanioInt
<1>6. ASSUME NEW k \in 1..(n + 1)
      PROVE  FinDeCampo(2 * k + 2) = FinDeCampo(2 * k) + TamanioInt + LargoDe(Textos[k])
  <2>1. /\ k \in Nat \ {0} /\ 2 * k + 1 \in 2..b /\ 2 * k + 2 \in 2..b
        /\ (2 * k + 1) - 1 = 2 * k /\ (2 * k + 2) - 1 = 2 * k + 1
    BY <1>2
  <2>2. Campo(2 * k + 1) = Entero(LargoDe(Textos[k])) /\ Campo(2 * k + 2) = Cadena(Textos[k])
    BY <2>1, CampoDeTexto
  <2>3. Campo(2 * k + 1).ancho = TamanioInt /\ Campo(2 * k + 2).ancho = LargoDe(Textos[k])
    BY <2>2 DEF Entero, Cadena
  <2> QED BY <1>4, <2>1, <2>3, Zenon
<1> QED BY <1>5, <1>6

\* What the console writes is what the kernel will write of the instructions, two
\* fields more, and SEGMENTOS.
LEMMA EscritosDelMensaje ==
    ASSUME ConsolaInv, BufferInv, Len(buffer) = CantidadDeCampos
    PROVE  /\ EscritosPCB(instr) \in Nat
           /\ escritos = 2 * TamanioInt + EscritosPCB(instr) + TamanioInt + LargoSegmentos + 1
<1>1. PICK n \in Nat : n = Len(instr) /\ instr \in Seq(TextoT) /\ CantidadDeCampos = 4 + 2 * n
          /\ Textos[n + 1] = Segmentos /\ \A k \in 1..n : Textos[k] = instr[k]
  <2>1. instr \in Seq(TextoT)
    BY Zenon DEF ConsolaInv
  <2>2. Len(instr) \in Nat
    BY <2>1
  <2> QED BY <2>1, <2>2, TextosTipo, Zenon
<1>2. PICK g : Sumas(g, instr, n)
  BY <1>1, SumasExisten
<1>3. EscritosPCB(instr) = g[n]
  BY <1>1, <1>2, EscritosEs
<1>4. \A k \in 0..n : g[k] \in Nat
  BY <1>2, Zenon DEF Sumas
<1>5. /\ FinDeCampo(2) = 8
      /\ \A k \in 1..(n + 1) :
            FinDeCampo(2 * k + 2) = FinDeCampo(2 * k) + 4 + LargoDe(Textos[k])
  BY <1>1, FinDelTexto DEF TamanioInt
<1>6. \A k \in 1..n : g[k] = g[k - 1] + 4 + LargoDe(Textos[k])
  BY <1>1, <1>2, Zenon DEF Sumas, TamanioInt
<1>7. \A k \in 1..n : LargoDe(Textos[k]) \in Nat
  <2>1. \A t \in TextoT : LargoDe(t) \in Nat
    BY DEF TextoT, LargoDe
  <2>2. \A k \in 1..n : instr[k] \in TextoT
    BY <1>1
  <2> QED BY <1>1, <2>1, <2>2, Zenon
<1> DEFINE T == {k \in Nat : k <= n => FinDeCampo(2 * k + 2) = 8 + g[k]}
<1>8. 0 \in T
  <2>1. 2 * 0 + 2 = 2 /\ 8 + 0 = 8 /\ 0 \in Nat
    OBVIOUS
  <2>2. FinDeCampo(2 * 0 + 2) = 8 + g[0]
    BY <1>2, <1>5, <2>1, Zenon DEF Sumas
  <2> QED BY <2>1, <2>2, Zenon
<1>9. ASSUME NEW k \in Nat, k \in T PROVE k + 1 \in T
  <2> SUFFICES ASSUME k + 1 <= n PROVE FinDeCampo(2 * (k + 1) + 2) = 8 + g[k + 1]
    OBVIOUS
  <2>1. FinDeCampo(2 * k + 2) = 8 + g[k]
    BY <1>9
  <2>2. k + 1 \in 1..(n + 1) /\ k + 1 \in 1..n /\ 2 * (k + 1) = 2 * k + 2 /\ (k + 1) - 1 = k
        /\ k \in 0..n
    OBVIOUS
  <2>3. FinDeCampo(2 * (k + 1) + 2) = FinDeCampo(2 * k + 2) + 4 + LargoDe(Textos[k + 1])
    BY <1>5, <2>2, Zenon
  <2>4. g[k + 1] = g[k] + 4 + LargoDe(Textos[k + 1])
    BY <1>6, <2>2, Zenon
  <2>5. PICK x \in Nat, y \in Nat : x = g[k] /\ y = LargoDe(Textos[k + 1])
    BY <1>4, <1>7, <2>2, Zenon
  <2>6. (8 + x) + 4 + y = 8 + (x + 4 + y)
    OBVIOUS
  <2> QED BY <2>1, <2>3, <2>4, <2>5, <2>6, Zenon
<1>10. FinDeCampo(2 * n + 2) = 8 + g[n]
  <2>1. Nat \subseteq T
    <3> HIDE DEF T
    <3> QED BY <1>8, <1>9, InduccionNat
  <2>2. n \in T /\ n <= n
    <3> HIDE DEF T
    <3> QED BY <2>1
  <2> QED BY <2>2, Zenon
<1>11. escritos = FinDeCampo(2 * n + 4)
  <2>1. PICK b \in Nat : b = Len(buffer) /\ b = 2 * n + 4
    BY <1>1
  <2>2. buffer # <<>>
    BY <2>1
  <2> QED BY <2>1, <2>2, Zenon DEF BufferInv
<1>12. FinDeCampo(2 * n + 4) = (8 + g[n]) + 4 + (LargoSegmentos + 1)
  <2>1. n + 1 \in 1..(n + 1) /\ 2 * (n + 1) + 2 = 2 * n + 4 /\ 2 * (n + 1) = 2 * n + 2
    OBVIOUS
  <2>2. LargoDe(Segmentos) = LargoSegmentos + 1
    BY DEF LargoDe, Segmentos, Texto
  <2> QED BY <1>1, <1>5, <1>10, <2>1, <2>2, Zenon
<1>13. PICK x \in Nat : x = g[n]
  <2>1. n \in 0..n
    OBVIOUS
  <2> QED BY <1>4, <2>1, Zenon
<1>14. escritos = (8 + x) + 4 + (LargoSegmentos + 1)
  BY <1>11, <1>12, <1>13, Zenon
<1>15. escritos = 2 * 4 + x + 4 + LargoSegmentos + 1
  BY <1>14, LargoNatural
<1> QED BY <1>3, <1>13, <1>15, Zenon DEF TamanioInt

\* 16 bytes for each instruction are enough when none has more than 11 characters.
LEMMA SumaDeCortos ==
    ASSUME NEW l \in Seq(TextoT), \A k \in 1..Len(l) : LargoDe(l[k]) <= 12
    PROVE  EscritosPCB(l) <= 16 * Len(l)
<1>1. PICK n \in Nat : n = Len(l)
  OBVIOUS
<1>2. PICK g : Sumas(g, l, n)
  BY <1>1, SumasExisten
<1>3. \A k \in 1..n : LargoDe(l[k]) \in Nat
  <2>1. \A t \in TextoT : LargoDe(t) \in Nat
    BY DEF TextoT, LargoDe
  <2> QED BY <1>1, <2>1
<1> DEFINE T == {k \in Nat : k <= n => g[k] <= 16 * k}
<1>4. 0 \in T
  BY <1>2 DEF Sumas
<1>5. ASSUME NEW k \in Nat, k \in T PROVE k + 1 \in T
  <2> SUFFICES ASSUME k + 1 <= n PROVE g[k + 1] <= 16 * (k + 1)
    OBVIOUS
  <2>1. g[k] <= 16 * k
    BY <1>5
  <2>2. k + 1 \in 1..n /\ (k + 1) - 1 = k /\ k \in 0..n
    OBVIOUS
  <2>3. g[k + 1] = g[k] + 4 + LargoDe(l[k + 1])
    BY <1>2, <2>2, Zenon DEF Sumas, TamanioInt
  <2>4. PICK x \in Nat, y \in Nat : x = g[k] /\ y = LargoDe(l[k + 1]) /\ y <= 12
    <3>1. g[k] \in Nat
      BY <1>2, <2>2, Zenon DEF Sumas
    <3> QED BY <1>1, <1>3, <2>2, <3>1, Zenon
  <2>5. x + 4 + y <= 16 * (k + 1)
    <3>1. x <= 16 * k /\ y <= 12
      BY <2>1, <2>4, Zenon
    <3> HIDE DEF T
    <3> QED BY <3>1
  <2> QED BY <2>3, <2>4, <2>5, Zenon
<1>6. n \in T /\ n <= n
  <2> HIDE DEF T
  <2>1. Nat \subseteq T
    BY <1>4, <1>5, InduccionNat
  <2> QED BY <2>1
<1>7. EscritosPCB(l) = g[n]
  BY <1>1, <1>2, EscritosEs
<1> QED BY <1>1, <1>6, <1>7, Zenon

\* PCBCabe from the invariant: a message that fits in the reserve is a list the
\* PCB's buffer holds but for 3 bytes.
LEMMA PCBAlcanza == (~Cortes => IInv) => PCBCabe
<1> SUFFICES ASSUME ConsolaInv, BufferInv, IInv, pcHilo = "creado", Cabe, ~Cortes
             PROVE  LET l == pcb[1].instrucciones
                    IN  /\ EscritosPCB(l) <= ReservaPCB(Len(l)) + 3
                        /\ (\A k \in DOMAIN l : LargoDe(l[k]) <= 12) =>
                               EscritosPCB(l) <= ReservaPCB(Len(l))
  BY Zenon DEF PCBCabe, IInv
<1>1. pcb[1].instrucciones = instr
  BY DEF IInv, HiloInv, EnFase
<1>2. PICK n \in Nat : n = Len(instr) /\ instr \in Seq(TextoT) /\ DOMAIN instr = 1..n
  BY DEF ConsolaInv
<1>3. ReservaPCB(Len(instr)) = 16 * n
  BY <1>2 DEF ReservaPCB, TamanioSizeT, TamanioPuntero
<1>4. EscritosPCB(instr) <= 16 * n + 3
  <2>1. /\ EscritosPCB(instr) \in Nat
        /\ escritos = 2 * 4 + EscritosPCB(instr) + 4 + LargoSegmentos + 1
    BY EscritosDelMensaje DEF Cabe, TamanioInt
  <2>2. PICK x \in Nat : x = EscritosPCB(instr) /\ escritos = 2 * 4 + x + 4 + LargoSegmentos + 1
    BY <2>1, Zenon
  <2>3. reserva = 8 + 16 * n + 8 + LargoSegmentos
    <3>1. buffer # <<>>
      <4>1. CantidadDeCampos = 4 + 2 * n
        BY <1>2, TextosTipo
      <4> QED BY <4>1 DEF Cabe, BufferInv
    <3>2. reserva = Reserva(Len(instr))
      BY <3>1, Zenon DEF ConsolaInv
    <3> QED BY <1>2, <3>2, LargoNatural DEF Reserva, TamanioInt, TamanioSizeT, TamanioPuntero
  <2>4. escritos <= reserva
    BY Zenon DEF Cabe
  <2>5. x <= 16 * n + 3
    BY <2>2, <2>3, <2>4, LargoNatural
  <2> QED BY <2>2, <2>5, Zenon
<1>5. (\A k \in DOMAIN instr : LargoDe(instr[k]) <= 12) => EscritosPCB(instr) <= 16 * n
  BY <1>2, SumaDeCortos, Zenon
<1> QED BY <1>1, <1>3, <1>4, <1>5, Zenon

\* The PCB of a process that arrived whole goes out of its buffer by 3 bytes at
\* most, and not at all when its instructions are short: for every program.
THEOREM PCBCabeSiempre == Spec => []PCBCabe
<1>1. Init => (~Cortes => IInv)
  BY Inicio
<1> QED BY <1>1, PCBAlcanza, InductivoSinCortes, PTL DEF Spec
=============================================================================
