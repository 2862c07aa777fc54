------------------------------ MODULE FlujoProofs ------------------------------
(***************************************************************************)
(* The PCB crosses the socket byte by byte and is the same PCB, whatever   *)
(* the lengths of its two lists and however the bytes are delivered.       *)
(*                                                                         *)
(* First what the serializer writes is described as a list of fields       *)
(* (MensajePCB, MensajeDevuelta); then, that a reader which has the first  *)
(* fields knows the width of the next and when to stop (PCBAMedias,        *)
(* PCBEntero, MotivoAMedias, MotivoEntero); then, one recv (UnRecv). The   *)
(* invariant of the two processes follows, and that they implement         *)
(* Dispatch.                                                               *)
(***************************************************************************)
EXTENDS FlujoDispatch, Induccion

\* Values, bytes and fields.
ValorT == Int \cup Textos
ByteT == ValorT \X Nat
CampoT == [valor : ValorT, ancho : Nat \ {0}]
BytesT == Seq(ByteT)

Trozo(c) == Bytes(c.valor, c.ancho)

\* r[i] is what is left of the bytes m after the first i fields of c.
Desarma(r, m, c) ==
    /\ r \in [0..Len(c) -> BytesT]
    /\ r[0] = m /\ r[Len(c)] = <<>>
    /\ \A i \in 1..Len(c) : r[i - 1] = Trozo(c[i]) \o r[i]

\* The fields c make the bytes m.
EsMensaje(m, c) == c \in Seq(CampoT) /\ m \in BytesT /\ \E r : Desarma(r, m, c)

\* The bytes of a field are as many as its width, all of one field, whose value
\* they give back.
LEMMA TrozoTipo ==
    ASSUME NEW c \in CampoT
    PROVE  /\ Trozo(c) \in BytesT /\ Len(Trozo(c)) = c.ancho
           /\ Trozo(c)[1][1] = c.valor
           /\ EsUnCampo(Trozo(c)) /\ Valor(Trozo(c)) = c.valor
<1>1. c.ancho \in Nat \ {0} /\ c.valor \in ValorT
  BY DEF CampoT
<1>2. PICK n \in Nat \ {0}, v \in ValorT : n = c.ancho /\ v = c.valor
  BY <1>1
<1> DEFINE antes == [k \in 1..(n - 1) |-> <<v, k>>]
<1>3. Trozo(c) = antes \o << <<v, 0>> >>
  BY <1>2 DEF Trozo, Bytes
<1>4. antes \in Seq(ByteT) /\ Len(antes) = n - 1 /\ << <<v, 0>> >> \in Seq(ByteT)
  <2>1. \A k \in 1..(n - 1) : <<v, k>> \in ByteT
    BY DEF ByteT
  <2>2. <<v, 0>> \in ByteT
    BY DEF ByteT
  <2> QED BY <2>1, <2>2
<1>5. Trozo(c) \in Seq(ByteT) /\ Len(Trozo(c)) = n
  BY <1>3, <1>4
<1>6. Trozo(c)[1] = IF n = 1 THEN <<v, 0>> ELSE <<v, 1>>
  BY <1>3, <1>4
<1>7. Trozo(c)[1][1] = v
  BY <1>6
<1>8. EsUnCampo(Trozo(c))
  BY <1>2, <1>5, <1>7 DEF EsUnCampo, Trozo
<1> QED BY <1>2, <1>5, <1>7, <1>8 DEF Valor, BytesT

\* The empty message has no fields.
LEMMA MensajeVacio == EsMensaje(<<>>, <<>>)
<1>1. Desarma([i \in 0..0 |-> <<>>], <<>>, <<>>)
  BY DEF Desarma, BytesT
<1> QED BY <1>1 DEF EsMensaje, BytesT

\* What agregar_a_buffer writes for one value is a message of one field.
LEMMA MensajeDeUno ==
    ASSUME NEW v \in ValorT, NEW n \in Nat \ {0}
    PROVE  EsMensaje(Bytes(v, n), <<[valor |-> v, ancho |-> n]>>)
<1> DEFINE c == [valor |-> v, ancho |-> n]
           r == [i \in 0..1 |-> IF i = 0 THEN Trozo(c) ELSE <<>>]
<1>1. c \in CampoT /\ Trozo(c) = Bytes(v, n)
  BY DEF CampoT, Trozo
<1>2. Trozo(c) \in BytesT /\ <<>> \in BytesT
  BY <1>1, TrozoTipo DEF BytesT
<1>3. Trozo(c) \o <<>> = Trozo(c)
  BY <1>2 DEF BytesT
<1> HIDE DEF c
<1>4. <<c>> \in Seq(CampoT) /\ Len(<<c>>) = 1 /\ <<c>>[1] = c
  BY <1>1
<1>5. r \in [0..1 -> BytesT] /\ r[0] = Trozo(c) /\ r[1] = <<>>
  BY <1>2
<1> HIDE DEF r
<1>6. \A i \in 1..1 : r[i - 1] = Trozo(<<c>>[i]) \o r[i]
  <2> SUFFICES ASSUME NEW i \in 1..1 PROVE r[i - 1] = Trozo(<<c>>[i]) \o r[i]
    OBVIOUS
  <2>1. i = 1 /\ i - 1 = 0
    OBVIOUS
  <2> QED BY <2>1, <1>3, <1>4, <1>5, Zenon
<1>7. Desarma(r, Trozo(c), <<c>>)
  BY <1>4, <1>5, <1>6 DEF Desarma
<1>8. EsMensaje(Trozo(c), <<c>>)
  BY <1>2, <1>4, <1>7 DEF EsMensaje
<1> QED BY <1>1, <1>8 DEF c

\* Concatenating bytes is associative.
LEMMA Asociativa ==
    \A a, b, c : a \in BytesT /\ b \in BytesT /\ c \in BytesT => (a \o b) \o c = a \o (b \o c)
BY ConcatAssociative DEF BytesT

\* One message after another is the message of the fields of both: the order of
\* the agregar_* calls is the order of the bytes.
LEMMA MensajeConcatenado ==
    ASSUME NEW m1, NEW c1, NEW m2, NEW c2, EsMensaje(m1, c1), EsMensaje(m2, c2)
    PROVE  EsMensaje(m1 \o m2, c1 \o c2)
<1>1. PICK r1 : Desarma(r1, m1, c1)
  BY DEF EsMensaje
<1>2. PICK r2 : Desarma(r2, m2, c2)
  BY DEF EsMensaje
<1>3. PICK n1 \in Nat : n1 = Len(c1)
  BY DEF EsMensaje
<1>4. PICK n2 \in Nat : n2 = Len(c2)
  BY DEF EsMensaje
<1> DEFINE r == [i \in 0..(n1 + n2) |-> IF i <= n1 THEN r1[i] \o m2 ELSE r2[i - n1]]
<1>5. /\ c1 \o c2 \in Seq(CampoT) /\ Len(c1 \o c2) = n1 + n2
      /\ \A i \in 1..n1 : (c1 \o c2)[i] = c1[i]
      /\ \A i \in (n1 + 1)..(n1 + n2) : (c1 \o c2)[i] = c2[i - n1]
  BY <1>3, <1>4 DEF EsMensaje
<1>6. m1 \in BytesT /\ m2 \in BytesT /\ m1 \o m2 \in BytesT
  BY DEF EsMensaje, BytesT
<1>7. \A i \in 0..n1 : r1[i] \in BytesT
  BY <1>1, <1>3 DEF Desarma
<1>8. \A i \in 0..n2 : r2[i] \in BytesT
  BY <1>2, <1>4 DEF Desarma
<1>9. \A i \in 0..n1 : r[i] = r1[i] \o m2
  OBVIOUS
<1>10. \A i \in (n1 + 1)..(n1 + n2) : r[i] = r2[i - n1]
  OBVIOUS
<1>11. r \in [0..(n1 + n2) -> BytesT]
  <2>1. \A i \in 0..n1 : r[i] \in BytesT
    BY <1>6, <1>7, <1>9 DEF BytesT
  <2>2. \A i \in (n1 + 1)..(n1 + n2) : r[i] \in BytesT
    BY <1>8, <1>10
  <2>3. \A i \in 0..(n1 + n2) : r[i] \in BytesT
    <3> HIDE DEF r
    <3> QED BY <2>1, <2>2
  <2> QED BY <2>3
<1> HIDE DEF r
<1>12. r[0] = m1 \o m2
  <2>1. 0 \in 0..n1
    OBVIOUS
  <2>2. r1[0] = m1
    BY <1>1, Zenon DEF Desarma
  <2> QED BY <2>1, <2>2, <1>9, Zenon
<1>13. r[n1] = m2
  <2>1. n1 \in 0..n1
    OBVIOUS
  <2>2. r1[n1] = <<>>
    BY <1>1, <1>3, Zenon DEF Desarma
  <2>3. r[n1] = <<>> \o m2
    BY <2>1, <2>2, <1>9, Zenon
  <2> QED BY <2>3, <1>6 DEF BytesT
<1>14. r[n1 + n2] = <<>>
  <2>1. CASE n2 = 0
    <3>1. m2 = <<>>
      BY <1>2, <1>4, <2>1, Zenon DEF Desarma
    <3> QED BY <2>1, <3>1, <1>13
  <2>2. CASE n2 # 0
    <3>1. r[n1 + n2] = r2[n2]
      BY <2>2, <1>10
    <3> QED BY <3>1, <1>2, <1>4 DEF Desarma
  <2> QED BY <2>1, <2>2
<1>15. \A i \in 1..(n1 + n2) : r[i - 1] = Trozo((c1 \o c2)[i]) \o r[i]
  <2> SUFFICES ASSUME NEW i \in 1..(n1 + n2) PROVE r[i - 1] = Trozo((c1 \o c2)[i]) \o r[i]
    OBVIOUS
  <2>1. CASE i <= n1
    <3>1. i \in 1..n1 /\ i \in 0..n1 /\ i - 1 \in 0..n1
      BY <2>1
    <3>2. r1[i - 1] = Trozo(c1[i]) \o r1[i]
      BY <1>1, <1>3, <3>1, Zenon DEF Desarma
    <3>3. Trozo(c1[i]) \in BytesT
      BY <3>1, <1>3, TrozoTipo DEF EsMensaje
    <3>4. r[i - 1] = (Trozo(c1[i]) \o r1[i]) \o m2
      BY <3>1, <3>2, <1>9, Zenon
    <3>5. (Trozo(c1[i]) \o r1[i]) \o m2 = Trozo(c1[i]) \o (r1[i] \o m2)
      <4>1. r1[i] \in BytesT
        BY <3>1, <1>7, Zenon
      <4>2. PICK t \in BytesT, u \in BytesT : t = Trozo(c1[i]) /\ u = r1[i]
        BY <4>1, <3>3, Zenon
      <4>3. (t \o u) \o m2 = t \o (u \o m2)
        BY <1>6, Asociativa
      <4> QED BY <4>2, <4>3, Zenon
    <3> QED BY <3>1, <3>4, <3>5, <1>5, <1>9, Zenon
  <2>2. CASE i > n1
    <3>1. PICK j \in 1..n2 : i = j + n1
      <4>1. i - n1 \in 1..n2 /\ i = (i - n1) + n1
        BY <2>2
      <4> QED BY <4>1, Zenon
    <3>2. r2[j - 1] = Trozo(c2[j]) \o r2[j]
      BY <1>2, <1>4, Zenon DEF Desarma
    <3>3. r[i] = r2[j] /\ (c1 \o c2)[i] = c2[j]
      <4>1. i \in (n1 + 1)..(n1 + n2) /\ i - n1 = j
        BY <3>1
      <4> QED BY <4>1, <1>5, <1>10, Zenon
    <3>4. r[i - 1] = r2[j - 1]
      <4>1. CASE j = 1
        <5>1. i - 1 = n1 /\ j - 1 = 0
          BY <3>1, <4>1
        <5> QED BY <5>1, <1>2, <1>13, Zenon DEF Desarma
      <4>2. CASE j # 1
        <5>1. i - 1 \in (n1 + 1)..(n1 + n2) /\ (i - 1) - n1 = j - 1
          BY <3>1, <4>2
        <5> QED BY <5>1, <1>10
      <4> QED BY <4>1, <4>2
    <3> QED BY <3>2, <3>3, <3>4, Zenon
  <2>3. i <= n1 \/ i > n1
    OBVIOUS
  <2> QED BY <2>1, <2>2, <2>3, Zenon
<1>16. Desarma(r, m1 \o m2, c1 \o c2)
  BY <1>5, <1>11, <1>12, <1>14, <1>15, Zenon DEF Desarma
<1> QED BY <1>5, <1>6, <1>16 DEF EsMensaje

\* The messages of a list, one after the other, make the message of all their
\* fields: by induction over the list, as the loops of
\* serializar_lista_instrucciones and serializar_lista_segmentos write it.
LEMMA MensajeDeLista ==
    ASSUME NEW f \in Seq(BytesT), NEW h,
           h[0] = <<>>,
           \A k \in 1..Len(f) : \E c : EsMensaje(f[k], c) /\ h[k] = h[k - 1] \o c
    PROVE  EsMensaje(Concatenar(f), h[Len(f)])
<1>1. PICK g \in [0..Len(f) -> BytesT] : Parciales(f, g)
  BY ParcialesExisten DEF BytesT
<1>2. Concatenar(f) = g[Len(f)]
  BY <1>1, ConcatenarEs DEF BytesT, Concatenar
<1> DEFINE T == {k \in Nat : k <= Len(f) => EsMensaje(g[k], h[k])}
<1>3. 0 \in T
  BY <1>1, MensajeVacio DEF Parciales
<1>4. ASSUME NEW k \in Nat, k \in T PROVE k + 1 \in T
  <2> SUFFICES ASSUME k + 1 <= Len(f) PROVE EsMensaje(g[k + 1], h[k + 1])
    OBVIOUS
  <2>1. k + 1 \in 1..Len(f) /\ (k + 1) - 1 = k /\ EsMensaje(g[k], h[k])
    BY <1>4
  <2>2. PICK c : EsMensaje(f[k + 1], c) /\ h[k + 1] = h[k] \o c
    BY <2>1, Zenon
  <2>3. g[k + 1] = g[k] \o f[k + 1]
    BY <1>1, <2>1, Zenon DEF Parciales
  <2> QED BY <2>1, <2>2, <2>3, MensajeConcatenado
<1>5. Nat \subseteq T
  <2> HIDE DEF T
  <2> QED BY <1>3, <1>4, InduccionNat
<1>6. Len(f) \in Nat /\ Len(f) <= Len(f)
  OBVIOUS
<1> QED BY <1>2, <1>5, <1>6, Zenon
-----------------------------------------------------------------------------
(* The fields of a PCB *)

CampoInt(v) == [valor |-> v, ancho |-> TamanioInt]
CampoTexto(t) == [valor |-> t, ancho |-> Largo[t]]

\* The fields of the first k instructions of s, and of the first k segments.
CamposInstr(s, k) ==
    [j \in 1..(2 * k) |-> IF j % 2 = 1 THEN CampoInt(Largo[s[(j + 1) \div 2]])
                                       ELSE CampoTexto(s[j \div 2])]
CamposSegm(s, k) ==
    [j \in 1..(3 * k) |-> IF j % 3 = 1 THEN CampoInt(s[(j + 2) \div 3].idSegmento)
                     ELSE IF j % 3 = 2 THEN CampoInt(s[(j + 1) \div 3].tamanioSegmentos)
                     ELSE CampoInt(s[j \div 3].indiceTablaDePaginas)]

\* An int is a field of TamanioInt bytes.
LEMMA MensajeEntero ==
    ASSUME NEW v \in Int
    PROVE  EsMensaje(Entero(v), <<CampoInt(v)>>) /\ CampoInt(v) \in CampoT
<1>1. v \in ValorT /\ TamanioInt \in Nat \ {0}
  BY DEF ValorT, TamanioInt
<1> QED BY <1>1, MensajeDeUno DEF Entero, CampoInt, CampoT

\* A string is a field of its length, never empty.
LEMMA MensajeTexto ==
    ASSUME NEW t \in Textos
    PROVE  /\ EsMensaje(Texto(t), <<CampoTexto(t)>>) /\ CampoTexto(t) \in CampoT
           /\ Largo[t] \in Nat \ {0}
<1>1. t \in ValorT /\ Largo[t] \in Nat \ {0}
  BY LargosPositivos DEF ValorT
<1> QED BY <1>1, MensajeDeUno DEF Texto, CampoTexto, CampoT

\* An instruction is two fields: its length, and its text.
LEMMA MensajeInstruccion ==
    ASSUME NEW t \in Textos
    PROVE  EsMensaje(Instruccion(t), <<CampoInt(Largo[t])>> \o <<CampoTexto(t)>>)
<1>1. Largo[t] \in Int
  <2>1. Largo[t] \in Nat \ {0}
    BY MensajeTexto
  <2> QED BY <2>1
<1>2. EsMensaje(Entero(Largo[t]), <<CampoInt(Largo[t])>>)
  BY <1>1, MensajeEntero
<1>3. EsMensaje(Texto(t), <<CampoTexto(t)>>)
  BY MensajeTexto
<1> QED BY <1>2, <1>3, MensajeConcatenado DEF Instruccion

\* A sequence is all but its last element, and the last.
LEMMA UnoMas ==
    ASSUME NEW X, NEW n \in Nat, NEW e \in [1..(n + 1) -> X]
    PROVE  /\ [j \in 1..n |-> e[j]] \in [1..n -> X] /\ e[n + 1] \in X
           /\ e = [j \in 1..n |-> e[j]] \o <<e[n + 1]>>
<1> DEFINE a == [j \in 1..n |-> e[j]]
<1>1. PICK x \in X : x = e[n + 1]
  OBVIOUS
<1>2. a \in [1..n -> X] /\ a \in Seq(X) /\ Len(a) = n /\ \A j \in 1..n : a[j] = e[j]
  OBVIOUS
<1> HIDE DEF a
<1>3. a \o <<x>> = Append(a, x)
  BY <1>2
<1>4. Append(a, x) \in Seq(X) /\ Len(Append(a, x)) = n + 1 /\ Append(a, x)[n + 1] = x
      /\ \A j \in 1..n : Append(a, x)[j] = e[j]
  BY <1>2
<1>5. e \in Seq(X) /\ Len(e) = n + 1
  OBVIOUS
<1>6. e = Append(a, x)
  <2>1. \A j \in 1..(n + 1) : j \in 1..n \/ j = n + 1
    OBVIOUS
  <2>2. \A j \in 1..(n + 1) : Append(a, x)[j] = e[j]
    BY <1>1, <1>4, <2>1, Zenon
  <2> QED BY <1>4, <1>5, <2>2
<1> QED BY <1>1, <1>2, <1>3, <1>6, Zenon DEF a

\* The same with the last two elements.
LEMMA DosMas ==
    ASSUME NEW X, NEW n \in Nat, NEW e \in [1..(n + 2) -> X]
    PROVE  /\ [j \in 1..n |-> e[j]] \in [1..n -> X] /\ e[n + 1] \in X /\ e[n + 2] \in X
           /\ e = [j \in 1..n |-> e[j]] \o (<<e[n + 1]>> \o <<e[n + 2]>>)
<1> DEFINE f == [j \in 1..(n + 1) |-> e[j]]
           a == [j \in 1..n |-> e[j]]
<1>1. f \in [1..(n + 1) -> X] /\ e[n + 2] \in X /\ e = f \o <<e[n + 2]>>
  <2>1. n + 1 \in Nat /\ (n + 1) + 1 = n + 2
    OBVIOUS
  <2> HIDE DEF f
  <2> QED BY <2>1, UnoMas DEF f
<1>2. a \in [1..n -> X] /\ e[n + 1] \in X /\ f = a \o <<e[n + 1]>>
  <2>1. [j \in 1..n |-> f[j]] = a /\ f[n + 1] = e[n + 1]
    OBVIOUS
  <2> HIDE DEF a, f
  <2>2. /\ [j \in 1..n |-> f[j]] \in [1..n -> X] /\ f[n + 1] \in X
        /\ f = [j \in 1..n |-> f[j]] \o <<f[n + 1]>>
    BY <1>1, UnoMas
  <2> QED BY <2>1, <2>2, Zenon
<1> HIDE DEF f, a
<1>3. PICK x \in Seq(X), y \in Seq(X) : x = <<e[n + 1]>> /\ y = <<e[n + 2]>>
  <2>1. <<e[n + 1]>> \in Seq(X) /\ <<e[n + 2]>> \in Seq(X)
    BY <1>1, <1>2
  <2> QED BY <2>1, Zenon
<1>4. (a \o x) \o y = a \o (x \o y)
  BY <1>2, ConcatAssociative
<1> QED BY <1>1, <1>2, <1>3, <1>4, Zenon DEF a

\* The fields of k instructions are those of k - 1 and the two of the k-th.
LEMMA InstrAgrega ==
    ASSUME NEW s \in Seq(Textos), NEW k \in 1..Len(s)
    PROVE  CamposInstr(s, k) =
             CamposInstr(s, k - 1) \o (<<CampoInt(Largo[s[k]])>> \o <<CampoTexto(s[k])>>)
<1> DEFINE a == CampoInt(Largo[s[k]])
           b == CampoTexto(s[k])
           E(j) == IF j % 2 = 1 THEN CampoInt(Largo[s[(j + 1) \div 2]])
                                ELSE CampoTexto(s[j \div 2])
<1>1. k \in Nat \ {0}
  OBVIOUS
<1>2. E(2 * k - 1) = a
  <2>1. (2 * k - 1) % 2 = 1 /\ ((2 * k - 1) + 1) \div 2 = k
    BY <1>1
  <2> QED BY <2>1, Zenon
<1>3. E(2 * k) = b
  <2>1. (2 * k) % 2 # 1 /\ (2 * k) \div 2 = k
    BY <1>1
  <2> QED BY <2>1, Zenon
<1>4. /\ CamposInstr(s, k) = [j \in 1..(2 * k) |-> E(j)]
      /\ CamposInstr(s, k - 1) = [j \in 1..(2 * (k - 1)) |-> E(j)]
  BY Zenon DEF CamposInstr
<1> DEFINE e == [j \in 1..(2 * k) |-> E(j)]
           n == 2 * (k - 1)
<1>5. n \in Nat /\ n + 1 = 2 * k - 1 /\ n + 2 = 2 * k
  BY <1>1
<1>6. /\ e[n + 1] = a /\ e[n + 2] = b
      /\ [j \in 1..n |-> e[j]] = [j \in 1..n |-> E(j)]
  <2> HIDE DEF E, a, b
  <2>1. 2 * k - 1 \in 1..(2 * k) /\ 2 * k \in 1..(2 * k) /\ 1..n \subseteq 1..(2 * k)
    BY <1>1
  <2>2. e[2 * k - 1] = E(2 * k - 1) /\ e[2 * k] = E(2 * k)
    BY <2>1, Zenon
  <2>3. \A j \in 1..n : e[j] = E(j)
    BY <2>1
  <2> HIDE DEF n, e
  <2>4. [j \in 1..n |-> e[j]] = [j \in 1..n |-> E(j)]
    BY <2>3, Zenon
  <2> QED BY <1>2, <1>3, <1>5, <2>2, <2>4, Zenon
<1>7. e \in [1..(n + 2) -> {E(j) : j \in 1..(n + 2)}]
  <2> HIDE DEF E
  <2> QED BY <1>5
<1> HIDE DEF E, a, b, e, n
<1>8. e = [j \in 1..n |-> e[j]] \o (<<e[n + 1]>> \o <<e[n + 2]>>)
  BY <1>5, <1>7, DosMas
<1> QED BY <1>4, <1>6, <1>8, Zenon DEF a, b, e, n

\* serializar_lista_instrucciones writes the fields CamposInstr, for a list of
\* any length.
LEMMA MensajeInstrucciones ==
    ASSUME NEW s \in Seq(Textos)
    PROVE  EsMensaje(Concatenar([i \in DOMAIN s |-> Instruccion(s[i])]), CamposInstr(s, Len(s)))
<1> DEFINE f == [i \in DOMAIN s |-> Instruccion(s[i])]
           h == [k \in 0..Len(s) |-> CamposInstr(s, k)]
<1>1. \A i \in 1..Len(s) : s[i] \in Textos /\ Instruccion(s[i]) \in BytesT
  <2>1. \A t \in Textos : Instruccion(t) \in BytesT
    BY MensajeInstruccion, Zenon DEF EsMensaje
  <2> QED BY <2>1
<1>2. f \in Seq(BytesT) /\ Len(f) = Len(s) /\ \A k \in 1..Len(s) : f[k] = Instruccion(s[k])
  BY <1>1
<1>3. h[0] = <<>>
  <2>1. h[0] = CamposInstr(s, 0)
    OBVIOUS
  <2> QED BY <2>1 DEF CamposInstr
<1>4. \A k \in 1..Len(f) : \E c : EsMensaje(f[k], c) /\ h[k] = h[k - 1] \o c
  <2> SUFFICES ASSUME NEW k \in 1..Len(s)
               PROVE  \E c : EsMensaje(f[k], c) /\ h[k] = h[k - 1] \o c
    BY <1>2
  <2>1. k \in 0..Len(s) /\ k - 1 \in 0..Len(s)
    OBVIOUS
  <2>2. h[k] = CamposInstr(s, k) /\ h[k - 1] = CamposInstr(s, k - 1)
    BY <2>1
  <2>3. EsMensaje(f[k], <<CampoInt(Largo[s[k]])>> \o <<CampoTexto(s[k])>>)
    BY <1>1, <1>2, MensajeInstruccion
  <2>4. h[k] = h[k - 1] \o (<<CampoInt(Largo[s[k]])>> \o <<CampoTexto(s[k])>>)
    BY <2>2, InstrAgrega
  <2> QED BY <2>3, <2>4, Zenon
<1>5. h[Len(f)] = CamposInstr(s, Len(s))
  BY <1>2
<1> HIDE DEF f, h
<1>6. EsMensaje(Concatenar(f), h[Len(f)])
  BY <1>2, <1>3, <1>4, MensajeDeLista
<1> QED BY <1>5, <1>6 DEF f

\* UnoMas with the last three elements.
LEMMA TresMas ==
    ASSUME NEW X, NEW n \in Nat, NEW e \in [1..(n + 3) -> X]
    PROVE  e = [j \in 1..n |-> e[j]] \o (<<e[n + 1]>> \o <<e[n + 2]>> \o <<e[n + 3]>>)
<1> DEFINE f == [j \in 1..(n + 2) |-> e[j]]
           a == [j \in 1..n |-> e[j]]
<1>1. f \in [1..(n + 2) -> X] /\ e[n + 3] \in X /\ e = f \o <<e[n + 3]>>
  <2>1. n + 2 \in Nat /\ (n + 2) + 1 = n + 3
    OBVIOUS
  <2> HIDE DEF f
  <2> QED BY <2>1, UnoMas DEF f
<1>2. /\ a \in [1..n -> X] /\ e[n + 1] \in X /\ e[n + 2] \in X
      /\ f = a \o (<<e[n + 1]>> \o <<e[n + 2]>>)
  <2>1. [j \in 1..n |-> f[j]] = a /\ f[n + 1] = e[n + 1] /\ f[n + 2] = e[n + 2]
    OBVIOUS
  <2> HIDE DEF a, f
  <2>2. /\ [j \in 1..n |-> f[j]] \in [1..n -> X] /\ f[n + 1] \in X /\ f[n + 2] \in X
        /\ f = [j \in 1..n |-> f[j]] \o (<<f[n + 1]>> \o <<f[n + 2]>>)
    BY <1>1, DosMas
  <2> QED BY <2>1, <2>2, Zenon
<1> HIDE DEF f, a
<1>3. PICK x \in Seq(X), y \in Seq(X), z \in Seq(X) :
          x = <<e[n + 1]>> /\ y = <<e[n + 2]>> /\ z = <<e[n + 3]>>
  <2>1. <<e[n + 1]>> \in Seq(X) /\ <<e[n + 2]>> \in Seq(X) /\ <<e[n + 3]>> \in Seq(X)
    BY <1>1, <1>2
  <2> QED BY <2>1, Zenon
<1>4. PICK w \in Seq(X) : w = x \o y
  BY Zenon, ConcatProperties
<1>5. (a \o w) \o z = a \o (w \o z)
  <2>1. a \in Seq(X)
    BY <1>2
  <2> QED BY <2>1, ConcatAssociative
<1> QED BY <1>1, <1>2, <1>3, <1>4, <1>5, Zenon DEF a

CamposUnSegmento(g) ==
    <<CampoInt(g.idSegmento)>> \o <<CampoInt(g.tamanioSegmentos)>>
        \o <<CampoInt(g.indiceTablaDePaginas)>>

\* A segment is three ints.
LEMMA MensajeSegmento ==
    ASSUME NEW g \in Segmentos
    PROVE  EsMensaje(Segmento(g), CamposUnSegmento(g))
<1>1. g.idSegmento \in Int /\ g.tamanioSegmentos \in Int /\ g.indiceTablaDePaginas \in Int
  BY DEF Segmentos
<1>2. /\ EsMensaje(Entero(g.idSegmento), <<CampoInt(g.idSegmento)>>)
      /\ EsMensaje(Entero(g.tamanioSegmentos), <<CampoInt(g.tamanioSegmentos)>>)
      /\ EsMensaje(Entero(g.indiceTablaDePaginas), <<CampoInt(g.indiceTablaDePaginas)>>)
  BY <1>1, MensajeEntero, Zenon
<1> QED BY <1>2, MensajeConcatenado, Zenon DEF Segmento, CamposUnSegmento

\* The fields of k segments are those of k - 1 and the three of the k-th.
LEMMA SegmAgrega ==
    ASSUME NEW s \in Seq(Segmentos), NEW k \in 1..Len(s)
    PROVE  CamposSegm(s, k) = CamposSegm(s, k - 1) \o CamposUnSegmento(s[k])
<1> DEFINE a == CampoInt(s[k].idSegmento)
           b == CampoInt(s[k].tamanioSegmentos)
           c == CampoInt(s[k].indiceTablaDePaginas)
           E(j) == IF j % 3 = 1 THEN CampoInt(s[(j + 2) \div 3].idSegmento)
                     ELSE IF j % 3 = 2 THEN CampoInt(s[(j + 1) \div 3].tamanioSegmentos)
                     ELSE CampoInt(s[j \div 3].indiceTablaDePaginas)
<1>1. k \in Nat \ {0}
  OBVIOUS
<1>2. E(3 * k - 2) = a
  <2>1. (3 * k - 2) % 3 = 1 /\ ((3 * k - 2) + 2) \div 3 = k
    BY <1>1
  <2> QED BY <2>1, Zenon
<1>3. E(3 * k - 1) = b
  <2>1. (3 * k - 1) % 3 # 1 /\ (3 * k - 1) % 3 = 2 /\ ((3 * k - 1) + 1) \div 3 = k
    BY <1>1
  <2> QED BY <2>1, Zenon
<1>4. E(3 * k) = c
  <2>1. (3 * k) % 3 # 1 /\ (3 * k) % 3 # 2 /\ (3 * k) \div 3 = k
    BY <1>1
  <2> QED BY <2>1, Zenon
<1>5. /\ CamposSegm(s, k) = [j \in 1..(3 * k) |-> E(j)]
      /\ CamposSegm(s, k - 1) = [j \in 1..(3 * (k - 1)) |-> E(j)]
  BY Zenon DEF CamposSegm
<1> HIDE DEF E, a, b, c
<1> DEFINE e == [j \in 1..(3 * k) |-> E(j)]
           n == 3 * (k - 1)
<1>6. n \in Nat /\ n + 1 = 3 * k - 2 /\ n + 2 = 3 * k - 1 /\ n + 3 = 3 * k
  BY <1>1
<1>7. /\ e[n + 1] = a /\ e[n + 2] = b /\ e[n + 3] = c
      /\ [j \in 1..n |-> e[j]] = [j \in 1..n |-> E(j)]
  <2>1. /\ 3 * k - 2 \in 1..(3 * k) /\ 3 * k - 1 \in 1..(3 * k) /\ 3 * k \in 1..(3 * k)
        /\ 1..n \subseteq 1..(3 * k)
    BY <1>1
  <2>2. e[3 * k - 2] = E(3 * k - 2) /\ e[3 * k - 1] = E(3 * k - 1) /\ e[3 * k] = E(3 * k)
    BY <2>1, Zenon
  <2>3. \A j \in 1..n : e[j] = E(j)
    BY <2>1
  <2> HIDE DEF n, e
  <2>4. [j \in 1..n |-> e[j]] = [j \in 1..n |-> E(j)]
    BY <2>3, Zenon
  <2> QED BY <1>2, <1>3, <1>4, <1>6, <2>2, <2>4, Zenon
<1>8. e \in [1..(n + 3) -> {E(j) : j \in 1..(n + 3)}]
  BY <1>6
<1> HIDE DEF e, n
<1>9. e = [j \in 1..n |-> e[j]] \o (<<e[n + 1]>> \o <<e[n + 2]>> \o <<e[n + 3]>>)
  BY <1>6, <1>8, TresMas
<1> QED BY <1>5, <1>7, <1>9, Zenon DEF a, b, c, e, n, CamposUnSegmento

\* serializar_lista_segmentos writes the fields CamposSegm, for a list of any
\* length.
LEMMA MensajeSegmentos ==
    ASSUME NEW s \in Seq(Segmentos)
    PROVE  EsMensaje(Concatenar([i \in DOMAIN s |-> Segmento(s[i])]), CamposSegm(s, Len(s)))
<1> DEFINE f == [i \in DOMAIN s |-> Segmento(s[i])]
           h == [k \in 0..Len(s) |-> CamposSegm(s, k)]
<1>1. \A i \in 1..Len(s) : s[i] \in Segmentos /\ Segmento(s[i]) \in BytesT
  <2>1. \A g \in Segmentos : Segmento(g) \in BytesT
    BY MensajeSegmento, Zenon DEF EsMensaje
  <2> QED BY <2>1
<1>2. f \in Seq(BytesT) /\ Len(f) = Len(s) /\ \A k \in 1..Len(s) : f[k] = Segmento(s[k])
  BY <1>1
<1>3. h[0] = <<>>
  <2>1. h[0] = CamposSegm(s, 0)
    OBVIOUS
  <2> QED BY <2>1 DEF CamposSegm
<1>4. \A k \in 1..Len(f) : \E c : EsMensaje(f[k], c) /\ h[k] = h[k - 1] \o c
  <2> SUFFICES ASSUME NEW k \in 1..Len(s)
               PROVE  \E c : EsMensaje(f[k], c) /\ h[k] = h[k - 1] \o c
    BY <1>2
  <2>1. k \in 0..Len(s) /\ k - 1 \in 0..Len(s)
    OBVIOUS
  <2>2. h[k] = CamposSegm(s, k) /\ h[k - 1] = CamposSegm(s, k - 1)
    BY <2>1
  <2>3. EsMensaje(f[k], CamposUnSegmento(s[k]))
    BY <1>1, <1>2, MensajeSegmento
  <2>4. h[k] = h[k - 1] \o CamposUnSegmento(s[k])
    BY <2>2, SegmAgrega
  <2> QED BY <2>3, <2>4, Zenon
<1>5. h[Len(f)] = CamposSegm(s, Len(s))
  BY <1>2
<1> HIDE DEF f, h
<1>6. EsMensaje(Concatenar(f), h[Len(f)])
  BY <1>2, <1>3, <1>4, MensajeDeLista
<1> QED BY <1>5, <1>6 DEF f

\* The first k of the fields f make the message m.
Hasta(m, f, k) == f \in Seq(CampoT) /\ k \in 0..Len(f) /\ EsMensaje(m, [j \in 1..k |-> f[j]])

\* A message of the next n fields goes after one of the first k.
LEMMA HastaVarios ==
    ASSUME NEW m1, NEW m2, NEW f, NEW k, NEW c, NEW n, Hasta(m1, f, k), EsMensaje(m2, c),
           n \in Nat, Len(c) = n, k + n <= Len(f),
           \A j \in 1..n : f[k + j] = c[j]
    PROVE  Hasta(m1 \o m2, f, k + n)
<1> DEFINE a == [j \in 1..k |-> f[j]]
           b == [j \in 1..(k + n) |-> f[j]]
<1>1. f \in Seq(CampoT) /\ k \in 0..Len(f) /\ k \in Nat /\ c \in Seq(CampoT) /\ k + n \in 0..Len(f)
  BY DEF Hasta, EsMensaje
<1>0. \A j \in 1..(k + n) : f[j] \in CampoT
  <2>1. \A j \in 1..(k + n) : j \in 1..Len(f)
    BY <1>1
  <2>2. \A j \in 1..Len(f) : f[j] \in CampoT
    BY <1>1
  <2> QED BY <2>1, <2>2, Zenon
<1>00. \A j \in 1..k : j \in 1..(k + n)
  BY <1>1
<1>2. a \in Seq(CampoT) /\ Len(a) = k /\ \A j \in 1..k : a[j] = f[j]
  <2>1. \A j \in 1..k : f[j] \in CampoT
    BY <1>0, <1>00, Zenon
  <2>2. k \in Nat
    BY <1>1
  <2> QED BY <2>1, <2>2
<1>3. b \in Seq(CampoT) /\ Len(b) = k + n /\ \A j \in 1..(k + n) : b[j] = f[j]
  <2>1. k + n \in Nat
    BY <1>1
  <2> QED BY <2>1, <1>0
<1> HIDE DEF a, b
<1>l. Juntas(CampoT, a, k, c, n)
  <2>1. a \in Seq(CampoT) /\ c \in Seq(CampoT) /\ Len(a) = k
    BY <1>1, <1>2, Zenon
  <2> QED BY <2>1, Juntar, Zenon
<1>4. a \o c \in Seq(CampoT) /\ Len(a \o c) = k + n
  BY <1>l, Zenon DEF Juntas
<1>5. \A j \in 1..(k + n) : (a \o c)[j] = b[j]
  <2>1. \A j \in 1..k : (a \o c)[j] = a[j]
    BY <1>l, Zenon DEF Juntas
  <2>2. \A j \in 1..n : (a \o c)[k + j] = c[j]
    BY <1>l, Zenon DEF Juntas
  <2>3. \A j \in 1..(k + n) : j \in 1..k \/ (j - k \in 1..n /\ j = k + (j - k))
    BY <1>1
  <2>4. \A j \in 1..k : j \in 1..(k + n)
    BY <1>1
  <2> SUFFICES ASSUME NEW j \in 1..(k + n) PROVE (a \o c)[j] = b[j]
    OBVIOUS
  <2>5. CASE j \in 1..k
    BY <2>5, <2>1, <1>2, <1>3, Zenon
  <2>6. CASE j - k \in 1..n /\ j = k + (j - k)
    BY <2>6, <2>2, <1>3, Zenon
  <2> QED BY <2>3, <2>5, <2>6, Zenon
<1>6. a \o c = b
  BY <1>3, <1>4, <1>5
<1>7. EsMensaje(m1 \o m2, a \o c)
  <2>1. EsMensaje(m1, a)
    BY Zenon DEF Hasta, a
  <2> QED BY <2>1, MensajeConcatenado
<1> QED BY <1>1, <1>6, <1>7, Zenon DEF Hasta, b

\* HastaVarios for one int.
LEMMA HastaUno ==
    \A m, f, k, i, v :
        /\ v \in Int /\ Hasta(m, f, k) /\ i = k + 1 /\ i <= Len(f) /\ f[i] = CampoInt(v)
        => Hasta(m \o Entero(v), f, i)
<1> SUFFICES ASSUME NEW m, NEW f, NEW k, NEW v \in Int, Hasta(m, f, k), k + 1 <= Len(f),
                    f[k + 1] = CampoInt(v)
             PROVE  Hasta(m \o Entero(v), f, k + 1)
  BY Zenon
<1>1. EsMensaje(Entero(v), <<CampoInt(v)>>)
  BY MensajeEntero
<1>2. PICK c : c = <<CampoInt(v)>>
  BY Zenon
<1>3. 1 \in Nat /\ Len(c) = 1 /\ c[1] = CampoInt(v)
  BY <1>2
<1>4. \A j \in 1..1 : f[k + j] = c[j]
  <2>1. \A j \in 1..1 : j = 1
    OBVIOUS
  <2> QED BY <2>1, <1>3, Zenon
<1> QED BY <1>1, <1>2, <1>3, <1>4, HastaVarios, Zenon

\* How many instructions and segments p has, and the last field of its
\* instructions, of its registers and of all of it.
Instrs(p) == Len(p.instrucciones)
Segms(p) == Len(p.t_segmentos)
HastaI(p) == 4 + 2 * Instrs(p)
HastaR(p) == 10 + 2 * Instrs(p)
Largura(p) == 10 + 2 * Instrs(p) + 3 * Segms(p)

CampoCabeza(p, j) ==
    CASE j = 1 -> CampoInt(PCB)
      [] j = 2 -> CampoInt(p.pid)
      [] j = 3 -> CampoInt(p.estado)
      [] OTHER -> CampoInt(Instrs(p))
CampoMedio(p, j) ==
    CASE j = 1 -> CampoInt(p.program_counter)
      [] j = 2 -> CampoInt(p.registros_cpu.AX)
      [] j = 3 -> CampoInt(p.registros_cpu.BX)
      [] j = 4 -> CampoInt(p.registros_cpu.CX)
      [] j = 5 -> CampoInt(p.registros_cpu.DX)
      [] OTHER -> CampoInt(Segms(p))

Campo(p, j) ==
    IF j <= 4 THEN CampoCabeza(p, j)
    ELSE IF j <= HastaI(p) THEN CamposInstr(p.instrucciones, Instrs(p))[j - 4]
    ELSE IF j <= HastaR(p) THEN CampoMedio(p, j - HastaI(p))
    ELSE CamposSegm(p.t_segmentos, Segms(p))[j - HastaR(p)]

\* f begins with the fields of p.
Lleva(f, p) ==
    /\ f \in Seq(CampoT) /\ Largura(p) <= Len(f)
    /\ \A j \in 1..Largura(p) : f[j] = Campo(p, j)

\* The types of a PCB's members, and the numbers of its fields.
LEMMA TiposPCB ==
    ASSUME NEW p \in PCBs
    PROVE  /\ p.pid \in Nat /\ p.estado \in Int /\ p.program_counter \in Nat
           /\ p.instrucciones \in Seq(Textos) /\ p.t_segmentos \in Seq(Segmentos)
           /\ p.registros_cpu.AX \in Int /\ p.registros_cpu.BX \in Int
           /\ p.registros_cpu.CX \in Int /\ p.registros_cpu.DX \in Int
           /\ Instrs(p) \in Nat /\ Segms(p) \in Nat /\ PCB \in Int
           /\ HastaI(p) \in Nat /\ HastaR(p) \in Nat /\ Largura(p) \in Nat
           /\ HastaR(p) = HastaI(p) + 6 /\ Largura(p) = HastaR(p) + 3 * Segms(p)
           /\ HastaI(p) = 4 + 2 * Instrs(p)
<1>1. /\ p.pid \in Nat /\ p.estado \in 0..4 /\ p.program_counter \in Nat
      /\ p.instrucciones \in Seq(Textos) /\ p.t_segmentos \in Seq(Segmentos)
      /\ p.registros_cpu \in Registros
  BY DEF PCBs
<1>2. /\ p.registros_cpu.AX \in Int /\ p.registros_cpu.BX \in Int
      /\ p.registros_cpu.CX \in Int /\ p.registros_cpu.DX \in Int
  BY <1>1 DEF Registros
<1>3. Instrs(p) \in Nat /\ Segms(p) \in Nat
  BY <1>1 DEF Instrs, Segms
<1>4. PICK n \in Nat, s \in Nat : n = Instrs(p) /\ s = Segms(p)
  BY <1>3, Zenon
<1>5. HastaI(p) = 4 + 2 * n /\ HastaR(p) = 10 + 2 * n /\ Largura(p) = 10 + 2 * n + 3 * s
  BY <1>4, Zenon DEF HastaI, HastaR, Largura
<1>6. PCB \in Int
  BY DEF PCB
<1>7. p.estado \in Int
  BY <1>1
<1> HIDE DEF PCB
<1>8. /\ HastaI(p) \in Nat /\ HastaR(p) \in Nat /\ Largura(p) \in Nat
      /\ HastaR(p) = HastaI(p) + 6 /\ Largura(p) = HastaR(p) + 3 * s
      /\ HastaI(p) = 4 + 2 * n
  BY <1>5
<1> QED BY <1>1, <1>2, <1>3, <1>4, <1>6, <1>7, <1>8, Zenon

\* Where the length and the text of the i-th instruction are.
LEMMA CamposInstrEn ==
    ASSUME NEW s, NEW n \in Nat, NEW i \in 1..n
    PROVE  /\ CamposInstr(s, n)[2 * i - 1] = CampoInt(Largo[s[i]])
           /\ CamposInstr(s, n)[2 * i] = CampoTexto(s[i])
<1> DEFINE E(j) == IF j % 2 = 1 THEN CampoInt(Largo[s[(j + 1) \div 2]])
                                ELSE CampoTexto(s[j \div 2])
<1>1. i \in Nat \ {0} /\ 2 * i - 1 \in 1..(2 * n) /\ 2 * i \in 1..(2 * n)
  OBVIOUS
<1>2. E(2 * i - 1) = CampoInt(Largo[s[i]])
  <2>1. (2 * i - 1) % 2 = 1 /\ ((2 * i - 1) + 1) \div 2 = i
    BY <1>1
  <2> QED BY <2>1, Zenon
<1>3. E(2 * i) = CampoTexto(s[i])
  <2>1. (2 * i) % 2 # 1 /\ (2 * i) \div 2 = i
    BY <1>1
  <2> QED BY <2>1, Zenon
<1>4. CamposInstr(s, n) = [j \in 1..(2 * n) |-> E(j)]
  BY Zenon DEF CamposInstr
<1> HIDE DEF E
<1> QED BY <1>1, <1>2, <1>3, <1>4, Zenon

\* Where the three ints of the k-th segment are.
LEMMA CamposSegmEn ==
    ASSUME NEW s, NEW n \in Nat, NEW k \in 1..n
    PROVE  /\ CamposSegm(s, n)[3 * k - 2] = CampoInt(s[k].idSegmento)
           /\ CamposSegm(s, n)[3 * k - 1] = CampoInt(s[k].tamanioSegmentos)
           /\ CamposSegm(s, n)[3 * k] = CampoInt(s[k].indiceTablaDePaginas)
<1> DEFINE E(j) == IF j % 3 = 1 THEN CampoInt(s[(j + 2) \div 3].idSegmento)
                     ELSE IF j % 3 = 2 THEN CampoInt(s[(j + 1) \div 3].tamanioSegmentos)
                     ELSE CampoInt(s[j \div 3].indiceTablaDePaginas)
<1>1. /\ k \in Nat \ {0} /\ 3 * k - 2 \in 1..(3 * n) /\ 3 * k - 1 \in 1..(3 * n)
      /\ 3 * k \in 1..(3 * n)
  OBVIOUS
<1>2. E(3 * k - 2) = CampoInt(s[k].idSegmento)
  <2>1. (3 * k - 2) % 3 = 1 /\ ((3 * k - 2) + 2) \div 3 = k
    BY <1>1
  <2> QED BY <2>1, Zenon
<1>3. E(3 * k - 1) = CampoInt(s[k].tamanioSegmentos)
  <2>1. (3 * k - 1) % 3 # 1 /\ (3 * k - 1) % 3 = 2 /\ ((3 * k - 1) + 1) \div 3 = k
    BY <1>1
  <2> QED BY <2>1, Zenon
<1>4. E(3 * k) = CampoInt(s[k].indiceTablaDePaginas)
  <2>1. (3 * k) % 3 # 1 /\ (3 * k) % 3 # 2 /\ (3 * k) \div 3 = k
    BY <1>1
  <2> QED BY <2>1, Zenon
<1>5. CamposSegm(s, n) = [j \in 1..(3 * n) |-> E(j)]
  BY Zenon DEF CamposSegm
<1> HIDE DEF E
<1> QED BY <1>1, <1>2, <1>3, <1>4, <1>5, Zenon

\* The first four fields of a PCB.
LEMMA CampoCabezas ==
    ASSUME NEW p
    PROVE  /\ Campo(p, 1) = CampoInt(PCB) /\ Campo(p, 2) = CampoInt(p.pid)
           /\ Campo(p, 3) = CampoInt(p.estado) /\ Campo(p, 4) = CampoInt(Instrs(p))
<1>1. 1 <= 4 /\ 2 <= 4 /\ 3 <= 4 /\ 4 <= 4
  OBVIOUS
<1>2. \A j : j <= 4 => Campo(p, j) = CampoCabeza(p, j)
  BY Zenon DEF Campo
<1>3. \A j \in {1, 2, 3, 4} : Campo(p, j) = CampoCabeza(p, j)
  BY <1>1, <1>2, Zenon
<1>4. /\ CampoCabeza(p, 1) = CampoInt(PCB) /\ CampoCabeza(p, 2) = CampoInt(p.pid)
      /\ CampoCabeza(p, 3) = CampoInt(p.estado) /\ CampoCabeza(p, 4) = CampoInt(Instrs(p))
  BY DEF CampoCabeza
<1> QED BY <1>3, <1>4, Zenon

\* The fields of its instructions.
LEMMA CampoInstrs ==
    ASSUME NEW p \in PCBs
    PROVE  /\ \A j \in 1..(2 * Instrs(p)) :
                 Campo(p, 4 + j) = CamposInstr(p.instrucciones, Instrs(p))[j]
           /\ \A i \in 1..Instrs(p) : /\ Campo(p, 4 + 2 * i - 1) = CampoInt(Largo[p.instrucciones[i]])
                                      /\ Campo(p, 4 + 2 * i) = CampoTexto(p.instrucciones[i])
<1>1. Instrs(p) \in Nat /\ HastaI(p) = 4 + 2 * Instrs(p)
  BY TiposPCB
<1>2. \A j : ~(j <= 4) /\ j <= HastaI(p) =>
                Campo(p, j) = CamposInstr(p.instrucciones, Instrs(p))[j - 4]
  BY Zenon DEF Campo
<1>3. \A j \in 1..(2 * Instrs(p)) : ~(4 + j <= 4) /\ 4 + j <= HastaI(p) /\ (4 + j) - 4 = j
  BY <1>1
<1>4. \A j \in 1..(2 * Instrs(p)) :
         Campo(p, 4 + j) = CamposInstr(p.instrucciones, Instrs(p))[j]
  BY <1>2, <1>3, Zenon
<1>5. ASSUME NEW i \in 1..Instrs(p)
      PROVE  /\ Campo(p, 4 + 2 * i - 1) = CampoInt(Largo[p.instrucciones[i]])
             /\ Campo(p, 4 + 2 * i) = CampoTexto(p.instrucciones[i])
  <2>1. /\ 2 * i - 1 \in 1..(2 * Instrs(p)) /\ 2 * i \in 1..(2 * Instrs(p))
        /\ 4 + 2 * i - 1 = 4 + (2 * i - 1)
    BY <1>1
  <2>2. /\ CamposInstr(p.instrucciones, Instrs(p))[2 * i - 1] = CampoInt(Largo[p.instrucciones[i]])
        /\ CamposInstr(p.instrucciones, Instrs(p))[2 * i] = CampoTexto(p.instrucciones[i])
    BY <1>1, CamposInstrEn
  <2> QED BY <2>1, <2>2, <1>4, Zenon
<1> QED BY <1>4, <1>5, Zenon

\* The six fields between its lists.
LEMMA CampoMedios ==
    ASSUME NEW p \in PCBs
    PROVE  /\ Campo(p, HastaI(p) + 1) = CampoInt(p.program_counter)
           /\ Campo(p, HastaI(p) + 2) = CampoInt(p.registros_cpu.AX)
           /\ Campo(p, HastaI(p) + 3) = CampoInt(p.registros_cpu.BX)
           /\ Campo(p, HastaI(p) + 4) = CampoInt(p.registros_cpu.CX)
           /\ Campo(p, HastaI(p) + 5) = CampoInt(p.registros_cpu.DX)
           /\ Campo(p, HastaI(p) + 6) = CampoInt(Segms(p))
<1>1. HastaI(p) \in Nat /\ HastaR(p) = HastaI(p) + 6 /\ HastaI(p) >= 4
  <2>1. /\ HastaI(p) \in Nat /\ HastaR(p) = HastaI(p) + 6 /\ HastaI(p) = 4 + 2 * Instrs(p)
        /\ Instrs(p) \in Nat
    BY TiposPCB
  <2> QED BY <2>1
<1>2. \A j : ~(j <= 4) /\ ~(j <= HastaI(p)) /\ j <= HastaR(p) =>
                Campo(p, j) = CampoMedio(p, j - HastaI(p))
  BY Zenon DEF Campo
<1>3. \A j \in 1..6 : /\ ~(HastaI(p) + j <= 4) /\ ~(HastaI(p) + j <= HastaI(p))
                      /\ HastaI(p) + j <= HastaR(p) /\ (HastaI(p) + j) - HastaI(p) = j
  BY <1>1
<1>4. \A j \in 1..6 : Campo(p, HastaI(p) + j) = CampoMedio(p, j)
  BY <1>2, <1>3, Zenon
<1>5. 1 \in 1..6 /\ 2 \in 1..6 /\ 3 \in 1..6 /\ 4 \in 1..6 /\ 5 \in 1..6 /\ 6 \in 1..6
  OBVIOUS
<1>6. /\ CampoMedio(p, 1) = CampoInt(p.program_counter)
      /\ CampoMedio(p, 2) = CampoInt(p.registros_cpu.AX)
      /\ CampoMedio(p, 3) = CampoInt(p.registros_cpu.BX)
      /\ CampoMedio(p, 4) = CampoInt(p.registros_cpu.CX)
      /\ CampoMedio(p, 5) = CampoInt(p.registros_cpu.DX)
      /\ CampoMedio(p, 6) = CampoInt(Segms(p))
  BY DEF CampoMedio
<1> QED BY <1>4, <1>5, <1>6, Zenon

\* The fields of its segments.
LEMMA CampoSegms ==
    ASSUME NEW p \in PCBs
    PROVE  /\ \A j \in 1..(3 * Segms(p)) :
                 Campo(p, HastaR(p) + j) = CamposSegm(p.t_segmentos, Segms(p))[j]
           /\ \A k \in 1..Segms(p) :
                 /\ Campo(p, HastaR(p) + 3 * k - 2) = CampoInt(p.t_segmentos[k].idSegmento)
                 /\ Campo(p, HastaR(p) + 3 * k - 1) = CampoInt(p.t_segmentos[k].tamanioSegmentos)
                 /\ Campo(p, HastaR(p) + 3 * k) = CampoInt(p.t_segmentos[k].indiceTablaDePaginas)
<1>1. /\ Segms(p) \in Nat /\ HastaI(p) \in Nat /\ HastaR(p) \in Nat
      /\ HastaR(p) = HastaI(p) + 6 /\ HastaI(p) >= 4
  <2>1. /\ HastaI(p) \in Nat /\ HastaR(p) = HastaI(p) + 6 /\ HastaI(p) = 4 + 2 * Instrs(p)
        /\ Instrs(p) \in Nat /\ Segms(p) \in Nat /\ HastaR(p) \in Nat
    BY TiposPCB
  <2> QED BY <2>1
<1>2. \A j : ~(j <= 4) /\ ~(j <= HastaI(p)) /\ ~(j <= HastaR(p)) =>
                Campo(p, j) = CamposSegm(p.t_segmentos, Segms(p))[j - HastaR(p)]
  BY Zenon DEF Campo
<1>3. \A j \in 1..(3 * Segms(p)) :
          /\ ~(HastaR(p) + j <= 4) /\ ~(HastaR(p) + j <= HastaI(p))
          /\ ~(HastaR(p) + j <= HastaR(p)) /\ (HastaR(p) + j) - HastaR(p) = j
  BY <1>1
<1>4. \A j \in 1..(3 * Segms(p)) :
         Campo(p, HastaR(p) + j) = CamposSegm(p.t_segmentos, Segms(p))[j]
  BY <1>2, <1>3, Zenon
<1>5. ASSUME NEW k \in 1..Segms(p)
      PROVE  /\ Campo(p, HastaR(p) + 3 * k - 2) = CampoInt(p.t_segmentos[k].idSegmento)
             /\ Campo(p, HastaR(p) + 3 * k - 1) = CampoInt(p.t_segmentos[k].tamanioSegmentos)
             /\ Campo(p, HastaR(p) + 3 * k) = CampoInt(p.t_segmentos[k].indiceTablaDePaginas)
  <2>1. /\ 3 * k - 2 \in 1..(3 * Segms(p)) /\ 3 * k - 1 \in 1..(3 * Segms(p))
        /\ 3 * k \in 1..(3 * Segms(p))
        /\ HastaR(p) + 3 * k - 2 = HastaR(p) + (3 * k - 2)
        /\ HastaR(p) + 3 * k - 1 = HastaR(p) + (3 * k - 1)
    BY <1>1
  <2>2. /\ CamposSegm(p.t_segmentos, Segms(p))[3 * k - 2] = CampoInt(p.t_segmentos[k].idSegmento)
        /\ CamposSegm(p.t_segmentos, Segms(p))[3 * k - 1] = CampoInt(p.t_segmentos[k].tamanioSegmentos)
        /\ CamposSegm(p.t_segmentos, Segms(p))[3 * k] = CampoInt(p.t_segmentos[k].indiceTablaDePaginas)
    BY <1>1, CamposSegmEn
  <2> QED BY <2>1, <2>2, <1>4, Zenon
<1> QED BY <1>4, <1>5, Zenon

\* The same fields in any message that carries the PCB.
LEMMA LugaresPCB ==
    ASSUME NEW p \in PCBs, NEW f, Lleva(f, p)
    PROVE  /\ f[1] = CampoInt(PCB) /\ f[2] = CampoInt(p.pid)
           /\ f[3] = CampoInt(p.estado) /\ f[4] = CampoInt(Instrs(p))
           /\ \A i \in 1..Instrs(p) : /\ f[4 + 2 * i - 1] = CampoInt(Largo[p.instrucciones[i]])
                                      /\ f[4 + 2 * i] = CampoTexto(p.instrucciones[i])
           /\ \A j \in 1..(2 * Instrs(p)) :
                 f[4 + j] = CamposInstr(p.instrucciones, Instrs(p))[j]
           /\ f[HastaI(p) + 1] = CampoInt(p.program_counter)
           /\ f[HastaI(p) + 2] = CampoInt(p.registros_cpu.AX)
           /\ f[HastaI(p) + 3] = CampoInt(p.registros_cpu.BX)
           /\ f[HastaI(p) + 4] = CampoInt(p.registros_cpu.CX)
           /\ f[HastaI(p) + 5] = CampoInt(p.registros_cpu.DX)
           /\ f[HastaI(p) + 6] = CampoInt(Segms(p))
           /\ \A k \in 1..Segms(p) :
                 /\ f[HastaR(p) + 3 * k - 2] = CampoInt(p.t_segmentos[k].idSegmento)
                 /\ f[HastaR(p) + 3 * k - 1] = CampoInt(p.t_segmentos[k].tamanioSegmentos)
                 /\ f[HastaR(p) + 3 * k] = CampoInt(p.t_segmentos[k].indiceTablaDePaginas)
           /\ \A j \in 1..(3 * Segms(p)) :
                 f[HastaR(p) + j] = CamposSegm(p.t_segmentos, Segms(p))[j]
<1>1. /\ Instrs(p) \in Nat /\ Segms(p) \in Nat /\ HastaI(p) \in Nat
      /\ HastaR(p) = HastaI(p) + 6 /\ Largura(p) = HastaR(p) + 3 * Segms(p)
      /\ HastaI(p) = 4 + 2 * Instrs(p)
  BY TiposPCB
<1>2. \A j \in 1..Largura(p) : f[j] = Campo(p, j)
  BY Zenon DEF Lleva
<1>3. 1 \in 1..Largura(p) /\ 2 \in 1..Largura(p) /\ 3 \in 1..Largura(p) /\ 4 \in 1..Largura(p)
  BY <1>1
<1>4. /\ \A i \in 1..Instrs(p) : 4 + 2 * i - 1 \in 1..Largura(p) /\ 4 + 2 * i \in 1..Largura(p)
      /\ \A j \in 1..(2 * Instrs(p)) : 4 + j \in 1..Largura(p)
  BY <1>1
<1>5. \A j \in 1..6 : HastaI(p) + j \in 1..Largura(p)
  BY <1>1
<1>6. /\ \A k \in 1..Segms(p) :
           /\ HastaR(p) + 3 * k - 2 \in 1..Largura(p)
           /\ HastaR(p) + 3 * k - 1 \in 1..Largura(p) /\ HastaR(p) + 3 * k \in 1..Largura(p)
      /\ \A j \in 1..(3 * Segms(p)) : HastaR(p) + j \in 1..Largura(p)
  BY <1>1
<1>7. 1 \in 1..6 /\ 2 \in 1..6 /\ 3 \in 1..6 /\ 4 \in 1..6 /\ 5 \in 1..6 /\ 6 \in 1..6
  OBVIOUS
<1>8. /\ f[1] = CampoInt(PCB) /\ f[2] = CampoInt(p.pid)
      /\ f[3] = CampoInt(p.estado) /\ f[4] = CampoInt(Instrs(p))
  BY <1>2, <1>3, CampoCabezas, Zenon
<1>9. /\ \A i \in 1..Instrs(p) : /\ f[4 + 2 * i - 1] = CampoInt(Largo[p.instrucciones[i]])
                                 /\ f[4 + 2 * i] = CampoTexto(p.instrucciones[i])
      /\ \A j \in 1..(2 * Instrs(p)) :
            f[4 + j] = CamposInstr(p.instrucciones, Instrs(p))[j]
  BY <1>2, <1>4, CampoInstrs, Zenon
<1>10. /\ f[HastaI(p) + 1] = CampoInt(p.program_counter)
       /\ f[HastaI(p) + 2] = CampoInt(p.registros_cpu.AX)
       /\ f[HastaI(p) + 3] = CampoInt(p.registros_cpu.BX)
       /\ f[HastaI(p) + 4] = CampoInt(p.registros_cpu.CX)
       /\ f[HastaI(p) + 5] = CampoInt(p.registros_cpu.DX)
       /\ f[HastaI(p) + 6] = CampoInt(Segms(p))
  BY <1>2, <1>5, <1>7, CampoMedios, Zenon
<1>11. /\ \A k \in 1..Segms(p) :
            /\ f[HastaR(p) + 3 * k - 2] = CampoInt(p.t_segmentos[k].idSegmento)
            /\ f[HastaR(p) + 3 * k - 1] = CampoInt(p.t_segmentos[k].tamanioSegmentos)
            /\ f[HastaR(p) + 3 * k] = CampoInt(p.t_segmentos[k].indiceTablaDePaginas)
       /\ \A j \in 1..(3 * Segms(p)) :
            f[HastaR(p) + j] = CamposSegm(p.t_segmentos, Segms(p))[j]
  BY <1>2, <1>6, CampoSegms, Zenon
<1> QED BY <1>8, <1>9, <1>10, <1>11, Zenon

\* What serializarPCB writes is a message, and its fields are those of the PCB,
\* for every PCB.
LEMMA MensajePCB ==
    ASSUME NEW p \in PCBs, NEW f, Lleva(f, p)
    PROVE  Hasta(SerializarPCB(p), f, Largura(p))
<1>1. /\ Instrs(p) \in Nat /\ Segms(p) \in Nat /\ HastaI(p) \in Nat /\ HastaR(p) \in Nat
      /\ HastaR(p) = HastaI(p) + 6 /\ Largura(p) = HastaR(p) + 3 * Segms(p)
      /\ HastaI(p) = 4 + 2 * Instrs(p)
  BY TiposPCB
<1>t. /\ p.pid \in Int /\ p.estado \in Int /\ p.program_counter \in Int
      /\ p.instrucciones \in Seq(Textos) /\ p.t_segmentos \in Seq(Segmentos)
      /\ p.registros_cpu.AX \in Int /\ p.registros_cpu.BX \in Int
      /\ p.registros_cpu.CX \in Int /\ p.registros_cpu.DX \in Int
      /\ Instrs(p) \in Int /\ Segms(p) \in Int /\ PCB \in Int
  <2>1. p.pid \in Nat /\ p.program_counter \in Nat /\ \A x : x \in Nat => x \in Int
    BY TiposPCB
  <2> QED BY <1>1, <2>1, TiposPCB, Zenon
<1>2. f \in Seq(CampoT) /\ Len(f) \in Nat /\ Largura(p) <= Len(f)
  BY DEF Lleva
<1>3. 1 <= Len(f) /\ 2 <= Len(f) /\ 3 <= Len(f) /\ 4 <= Len(f)
  BY <1>1, <1>2
<1>i. 1 = 0 + 1 /\ 2 = 1 + 1 /\ 3 = 2 + 1 /\ 4 = 3 + 1
  OBVIOUS
<1>c. /\ f[1] = CampoInt(PCB) /\ f[2] = CampoInt(p.pid)
      /\ f[3] = CampoInt(p.estado) /\ f[4] = CampoInt(Instrs(p))
      /\ \A j \in 1..(2 * Instrs(p)) :
            f[4 + j] = CamposInstr(p.instrucciones, Instrs(p))[j]
      /\ \A j \in 1..(3 * Segms(p)) :
            f[HastaR(p) + j] = CamposSegm(p.t_segmentos, Segms(p))[j]
  BY LugaresPCB
<1>d. /\ f[HastaI(p) + 1] = CampoInt(p.program_counter)
      /\ f[HastaI(p) + 2] = CampoInt(p.registros_cpu.AX)
      /\ f[HastaI(p) + 3] = CampoInt(p.registros_cpu.BX)
      /\ f[HastaI(p) + 4] = CampoInt(p.registros_cpu.CX)
      /\ f[HastaI(p) + 5] = CampoInt(p.registros_cpu.DX)
      /\ f[HastaI(p) + 6] = CampoInt(Segms(p))
  BY LugaresPCB
<1>4. \A m : Hasta(m, f, 0) => Hasta(m \o Entero(PCB), f, 1)
  BY <1>t, <1>3, <1>c, <1>i, HastaUno, Zenon
<1>5. Hasta(Entero(PCB), f, 1)
  <2>1. [j \in 1..0 |-> f[j]] = <<>>
    OBVIOUS
  <2>2. Hasta(<<>>, f, 0)
    <3>1. 0 \in 0..Len(f)
      BY <1>2
    <3> QED BY <1>2, <2>1, <3>1, MensajeVacio, Zenon DEF Hasta
  <2>3. Entero(PCB) \in BytesT
    BY <1>t, MensajeEntero, Zenon DEF EsMensaje
  <2>4. <<>> \o Entero(PCB) = Entero(PCB)
    <3> HIDE DEF PCB
    <3> QED BY <2>3 DEF BytesT
  <2> QED BY <1>4, <2>2, <2>4, Zenon
<1> DEFINE m1 == Entero(PCB)
           m2 == m1 \o Entero(p.pid)
           m3 == m2 \o Entero(p.estado)
           m4 == m3 \o Entero(Instrs(p))
           m5 == m4 \o Concatenar([i \in DOMAIN p.instrucciones |-> Instruccion(p.instrucciones[i])])
           m6 == m5 \o Entero(p.program_counter)
           m7 == m6 \o Entero(p.registros_cpu.AX)
           m8 == m7 \o Entero(p.registros_cpu.BX)
           m9 == m8 \o Entero(p.registros_cpu.CX)
           m10 == m9 \o Entero(p.registros_cpu.DX)
           m11 == m10 \o Entero(Segms(p))
           m12 == m11 \o Concatenar([i \in DOMAIN p.t_segmentos |-> Segmento(p.t_segmentos[i])])
<1>6. SerializarPCB(p) = m12
  BY Zenon DEF SerializarPCB, CamposPCB, Instrs, Segms
<1> HIDE DEF m1, m2, m3, m4, m5, m6, m7, m8, m9, m10, m11, m12
<1>7. Hasta(m1, f, 1)
  BY <1>5, Zenon DEF m1
<1>8. Hasta(m2, f, 2)
  BY <1>7, <1>t, <1>3, <1>c, <1>i, HastaUno, Zenon DEF m2
<1>9. Hasta(m3, f, 3)
  BY <1>8, <1>t, <1>3, <1>c, <1>i, HastaUno, Zenon DEF m3
<1>10. Hasta(m4, f, 4)
  BY <1>9, <1>t, <1>3, <1>c, <1>i, HastaUno, Zenon DEF m4
<1>11. Hasta(m5, f, HastaI(p))
  <2>1. EsMensaje(Concatenar([i \in DOMAIN p.instrucciones |-> Instruccion(p.instrucciones[i])]),
                  CamposInstr(p.instrucciones, Instrs(p)))
    BY <1>t, MensajeInstrucciones, Zenon DEF Instrs
  <2>2. 2 * Instrs(p) \in Nat /\ 4 + 2 * Instrs(p) <= Len(f)
    BY <1>1, <1>2
  <2>3. Len(CamposInstr(p.instrucciones, Instrs(p))) = 2 * Instrs(p)
    BY <2>2 DEF CamposInstr
  <2>4. \A j \in 1..(2 * Instrs(p)) : f[4 + j] = CamposInstr(p.instrucciones, Instrs(p))[j]
    BY <1>c, Zenon
  <2>5. PICK m, c, n : /\ m = Concatenar([i \in DOMAIN p.instrucciones |-> Instruccion(p.instrucciones[i])])
                       /\ c = CamposInstr(p.instrucciones, Instrs(p)) /\ n = 2 * Instrs(p)
    BY Zenon
  <2>6. /\ EsMensaje(m, c) /\ n \in Nat /\ 4 + n <= Len(f) /\ Len(c) = n
        /\ \A j \in 1..n : f[4 + j] = c[j]
    BY <2>1, <2>2, <2>3, <2>4, <2>5, Zenon
  <2>7. Hasta(m4 \o m, f, 4 + n)
    BY <1>10, <2>6, HastaVarios, Zenon
  <2> QED BY <1>1, <2>5, <2>7, Zenon DEF m5
<1>12. /\ HastaI(p) + 1 <= Len(f) /\ HastaI(p) + 2 <= Len(f) /\ HastaI(p) + 3 <= Len(f)
       /\ HastaI(p) + 4 <= Len(f) /\ HastaI(p) + 5 <= Len(f) /\ HastaI(p) + 6 <= Len(f)
  BY <1>1, <1>2
<1>j. /\ HastaI(p) + 2 = (HastaI(p) + 1) + 1 /\ HastaI(p) + 3 = (HastaI(p) + 2) + 1
      /\ HastaI(p) + 4 = (HastaI(p) + 3) + 1 /\ HastaI(p) + 5 = (HastaI(p) + 4) + 1
      /\ HastaI(p) + 6 = (HastaI(p) + 5) + 1
  BY <1>1
<1>13. Hasta(m6, f, HastaI(p) + 1)
  BY <1>11, <1>t, <1>d, <1>12, <1>j, HastaUno, Zenon DEF m6
<1>14. Hasta(m7, f, HastaI(p) + 2)
  BY <1>13, <1>t, <1>d, <1>12, <1>j, HastaUno, Zenon DEF m7
<1>15. Hasta(m8, f, HastaI(p) + 3)
  BY <1>14, <1>t, <1>d, <1>12, <1>j, HastaUno, Zenon DEF m8
<1>16. Hasta(m9, f, HastaI(p) + 4)
  BY <1>15, <1>t, <1>d, <1>12, <1>j, HastaUno, Zenon DEF m9
<1>17. Hasta(m10, f, HastaI(p) + 5)
  BY <1>16, <1>t, <1>d, <1>12, <1>j, HastaUno, Zenon DEF m10
<1>18. Hasta(m11, f, HastaR(p))
  BY <1>1, <1>17, <1>t, <1>d, <1>12, <1>j, HastaUno, Zenon DEF m11
<1>19. Hasta(m12, f, Largura(p))
  <2>1. EsMensaje(Concatenar([i \in DOMAIN p.t_segmentos |-> Segmento(p.t_segmentos[i])]),
                  CamposSegm(p.t_segmentos, Segms(p)))
    BY <1>t, MensajeSegmentos, Zenon DEF Segms
  <2>2. 3 * Segms(p) \in Nat /\ HastaR(p) + 3 * Segms(p) <= Len(f)
    BY <1>1, <1>2
  <2>3. Len(CamposSegm(p.t_segmentos, Segms(p))) = 3 * Segms(p)
    BY <2>2 DEF CamposSegm
  <2>4. \A j \in 1..(3 * Segms(p)) : f[HastaR(p) + j] = CamposSegm(p.t_segmentos, Segms(p))[j]
    BY <1>c, Zenon
  <2>5. PICK m, c, n : /\ m = Concatenar([i \in DOMAIN p.t_segmentos |-> Segmento(p.t_segmentos[i])])
                       /\ c = CamposSegm(p.t_segmentos, Segms(p)) /\ n = 3 * Segms(p)
    BY Zenon
  <2>6. /\ EsMensaje(m, c) /\ n \in Nat /\ HastaR(p) + n <= Len(f) /\ Len(c) = n
        /\ \A j \in 1..n : f[HastaR(p) + j] = c[j]
    BY <2>1, <2>2, <2>3, <2>4, <2>5, Zenon
  <2>7. Hasta(m11 \o m, f, HastaR(p) + n)
    BY <1>18, <2>6, HastaVarios, Zenon
  <2> QED BY <1>1, <2>5, <2>7, Zenon DEF m12
<1> QED BY <1>6, <1>19, Zenon

\* A message up to the last field is the whole of it.
LEMMA HastaElFinal ==
    ASSUME NEW m, NEW f, Hasta(m, f, Len(f))
    PROVE  EsMensaje(m, f)
<1>1. f \in Seq(CampoT)
  BY Zenon DEF Hasta
<1>2. [j \in 1..Len(f) |-> f[j]] = f
  BY <1>1
<1> QED BY <1>2, Zenon DEF Hasta

\* Every field of a PCB is one: its width is positive.
LEMMA CampoTipo ==
    ASSUME NEW p \in PCBs, NEW j \in 1..Largura(p)
    PROVE  Campo(p, j) \in CampoT
<1>1. /\ Instrs(p) \in Nat /\ Segms(p) \in Nat /\ HastaI(p) \in Nat /\ HastaR(p) \in Nat
      /\ HastaR(p) = HastaI(p) + 6 /\ Largura(p) = HastaR(p) + 3 * Segms(p)
      /\ HastaI(p) = 4 + 2 * Instrs(p)
  BY TiposPCB
<1>t. /\ p.pid \in Int /\ p.estado \in Int /\ p.program_counter \in Int
      /\ p.instrucciones \in Seq(Textos) /\ p.t_segmentos \in Seq(Segmentos)
      /\ p.registros_cpu.AX \in Int /\ p.registros_cpu.BX \in Int
      /\ p.registros_cpu.CX \in Int /\ p.registros_cpu.DX \in Int
      /\ Instrs(p) \in Int /\ Segms(p) \in Int /\ PCB \in Int
  <2>1. p.pid \in Nat /\ p.program_counter \in Nat /\ \A x : x \in Nat => x \in Int
    BY TiposPCB
  <2> QED BY <1>1, <2>1, TiposPCB, Zenon
<1>2. \A i : CampoCabeza(p, i) \in CampoT /\ CampoMedio(p, i) \in CampoT
  <2>1. \A v \in Int : CampoInt(v) \in CampoT
    BY MensajeEntero
  <2>2. /\ CampoInt(PCB) \in CampoT /\ CampoInt(p.pid) \in CampoT /\ CampoInt(p.estado) \in CampoT
        /\ CampoInt(Instrs(p)) \in CampoT /\ CampoInt(p.program_counter) \in CampoT
        /\ CampoInt(p.registros_cpu.AX) \in CampoT /\ CampoInt(p.registros_cpu.BX) \in CampoT
        /\ CampoInt(p.registros_cpu.CX) \in CampoT /\ CampoInt(p.registros_cpu.DX) \in CampoT
        /\ CampoInt(Segms(p)) \in CampoT
    BY <1>t, <2>1, Zenon
  <2>3. TAKE i
  <2>4. CampoCabeza(p, i) \in CampoT
    BY <2>2 DEF CampoCabeza
  <2>5. CampoMedio(p, i) \in CampoT
    BY <2>2 DEF CampoMedio
  <2> QED BY <2>4, <2>5
<1>3. CASE j <= HastaI(p) /\ ~(j <= 4)
  <2>1. CamposInstr(p.instrucciones, Instrs(p)) \in Seq(CampoT)
    BY <1>t, MensajeInstrucciones, Zenon DEF Instrs, EsMensaje
  <2>2. PICK i \in 1..(2 * Instrs(p)) : j = 4 + i
    <3>1. j - 4 \in 1..(2 * Instrs(p)) /\ j = 4 + (j - 4)
      BY <1>1, <1>3
    <3> QED BY <3>1, Zenon
  <2>3. Campo(p, j) = CamposInstr(p.instrucciones, Instrs(p))[i]
    BY <2>2, CampoInstrs, Zenon
  <2>4. Len(CamposInstr(p.instrucciones, Instrs(p))) = 2 * Instrs(p)
    BY <1>1 DEF CamposInstr
  <2> QED BY <2>1, <2>3, <2>4, ElementOfSeq, Zenon
<1>4. CASE ~(j <= HastaR(p)) /\ ~(j <= HastaI(p)) /\ ~(j <= 4)
  <2>1. CamposSegm(p.t_segmentos, Segms(p)) \in Seq(CampoT)
    BY <1>t, MensajeSegmentos, Zenon DEF Segms, EsMensaje
  <2>2. PICK i \in 1..(3 * Segms(p)) : j = HastaR(p) + i
    <3>1. j - HastaR(p) \in 1..(3 * Segms(p)) /\ j = HastaR(p) + (j - HastaR(p))
      BY <1>1, <1>4
    <3> QED BY <3>1, Zenon
  <2>3. Campo(p, j) = CamposSegm(p.t_segmentos, Segms(p))[i]
    BY <2>2, CampoSegms, Zenon
  <2>4. Len(CamposSegm(p.t_segmentos, Segms(p))) = 3 * Segms(p)
    BY <1>1 DEF CamposSegm
  <2> QED BY <2>1, <2>3, <2>4, ElementOfSeq, Zenon
<1>5. CASE j <= 4 \/ (~(j <= 4) /\ ~(j <= HastaI(p)) /\ j <= HastaR(p))
  BY <1>5, <1>2, Zenon DEF Campo
<1> QED BY <1>3, <1>4, <1>5, Zenon

\* The fields of the message that takes p to the CPU.
CamposPedido(p) == [j \in 1..Largura(p) |-> Campo(p, j)]

\* The message ejecutar sends to the CPU, in its fields.
LEMMA MensajePedido ==
    ASSUME NEW p \in PCBs
    PROVE  /\ Lleva(CamposPedido(p), p) /\ Len(CamposPedido(p)) = Largura(p)
           /\ EsMensaje(SerializarPCB(p), CamposPedido(p))
<1>1. Largura(p) \in Nat /\ \A j \in 1..Largura(p) : Campo(p, j) \in CampoT
  BY TiposPCB, CampoTipo
<1>2. CamposPedido(p) \in Seq(CampoT) /\ Len(CamposPedido(p)) = Largura(p)
  BY <1>1 DEF CamposPedido
<1>3. Lleva(CamposPedido(p), p)
  <2>1. Largura(p) <= Len(CamposPedido(p))
    BY <1>1, <1>2
  <2>2. \A j \in 1..Largura(p) : CamposPedido(p)[j] = Campo(p, j)
    BY Zenon DEF CamposPedido
  <2> QED BY <1>2, <2>1, <2>2, Zenon DEF Lleva
<1>4. Hasta(SerializarPCB(p), CamposPedido(p), Largura(p))
  BY <1>3, MensajePCB
<1>5. EsMensaje(SerializarPCB(p), CamposPedido(p))
  BY <1>2, <1>4, HastaElFinal, Zenon
<1> QED BY <1>2, <1>3, <1>5

\* The fields of the reason of a return, and of the answer it is in.
CamposMotivo(r) ==
    CASE r.motivo = IO -> <<CampoInt(IO), CampoInt(Largo[r.carga[1]]),
                            CampoTexto(r.carga[1]), CampoInt(r.carga[2])>>
      [] r.motivo = PAGEFAULT -> <<CampoInt(PAGEFAULT), CampoInt(r.carga[1])>>
      [] OTHER -> <<CampoInt(r.motivo)>>
Larguras(p, r) == Largura(p) + Len(CamposMotivo(r))
CamposDevuelta(p, r) ==
    [j \in 1..Larguras(p, r) |->
        IF j <= Largura(p) THEN Campo(p, j) ELSE CamposMotivo(r)[j - Largura(p)]]

\* The fields of what the CPU answers after the PCB, for each reason: two more
\* for a page fault, three more for an I/O (retornarPCB_Kernel).
LEMMA TiposMotivo ==
    ASSUME NEW r, EsRetorno(r)
    PROVE  /\ r.motivo \in Int /\ CamposMotivo(r) \in Seq(CampoT)
           /\ r.motivo = IO =>
                /\ r.carga[1] \in Textos /\ r.carga[2] \in Int /\ Largo[r.carga[1]] \in Int
                /\ Len(CamposMotivo(r)) = 4
                /\ CamposMotivo(r)[1] = CampoInt(IO)
                /\ CamposMotivo(r)[2] = CampoInt(Largo[r.carga[1]])
                /\ CamposMotivo(r)[3] = CampoTexto(r.carga[1])
                /\ CamposMotivo(r)[4] = CampoInt(r.carga[2])
           /\ r.motivo = PAGEFAULT =>
                /\ r.carga[1] \in Int /\ Len(CamposMotivo(r)) = 2
                /\ CamposMotivo(r)[1] = CampoInt(PAGEFAULT)
                /\ CamposMotivo(r)[2] = CampoInt(r.carga[1])
           /\ r.motivo \notin {IO, PAGEFAULT} =>
                /\ Len(CamposMotivo(r)) = 1 /\ CamposMotivo(r)[1] = CampoInt(r.motivo)
<1>1. r.motivo \in Int
  BY DEF EsRetorno
<1>2. \A v \in Int : CampoInt(v) \in CampoT
  BY MensajeEntero
<1>3. CASE r.motivo = IO
  <2>1. r.carga[1] \in Textos /\ r.carga[2] \in Int
    BY <1>3, Zenon DEF EsRetorno
  <2>2. CampoTexto(r.carga[1]) \in CampoT /\ Largo[r.carga[1]] \in Nat \ {0}
    BY <2>1, MensajeTexto
  <2>3. IO \in Int /\ IO # PAGEFAULT
    BY DEF IO, PAGEFAULT
  <2>4. Largo[r.carga[1]] \in Int
    BY <2>2
  <2>5. PICK a \in CampoT, b \in CampoT, c \in CampoT, e \in CampoT :
             /\ a = CampoInt(IO) /\ b = CampoInt(Largo[r.carga[1]])
             /\ c = CampoTexto(r.carga[1]) /\ e = CampoInt(r.carga[2])
    BY <1>2, <2>1, <2>2, <2>3, <2>4, Zenon
  <2>6. CamposMotivo(r) = <<a, b, c, e>>
    BY <1>3, <2>3, <2>5, Zenon DEF CamposMotivo
  <2>7. /\ <<a, b, c, e>> \in Seq(CampoT) /\ Len(<<a, b, c, e>>) = 4
        /\ <<a, b, c, e>>[1] = a /\ <<a, b, c, e>>[2] = b
        /\ <<a, b, c, e>>[3] = c /\ <<a, b, c, e>>[4] = e
    OBVIOUS
  <2> QED BY <1>1, <1>3, <2>1, <2>3, <2>4, <2>5, <2>6, <2>7, Zenon
<1>4. CASE r.motivo = PAGEFAULT
  <2>1. r.carga[1] \in Int
    BY <1>4, Zenon DEF EsRetorno
  <2>2. PAGEFAULT \in Int /\ IO # PAGEFAULT
    BY DEF IO, PAGEFAULT
  <2>3. PICK a \in CampoT, b \in CampoT : a = CampoInt(PAGEFAULT) /\ b = CampoInt(r.carga[1])
    BY <1>2, <2>1, <2>2, Zenon
  <2>4. CamposMotivo(r) = <<a, b>>
    BY <1>4, <2>2, <2>3, Zenon DEF CamposMotivo
  <2>5. <<a, b>> \in Seq(CampoT) /\ Len(<<a, b>>) = 2 /\ <<a, b>>[1] = a /\ <<a, b>>[2] = b
    OBVIOUS
  <2> QED BY <1>1, <1>4, <2>1, <2>2, <2>3, <2>4, <2>5, Zenon
<1>5. CASE r.motivo \notin {IO, PAGEFAULT}
  <2>1. PICK a \in CampoT : a = CampoInt(r.motivo)
    BY <1>1, <1>2, Zenon
  <2>2. CamposMotivo(r) = <<a>>
    BY <1>5, <2>1, Zenon DEF CamposMotivo
  <2>3. <<a>> \in Seq(CampoT) /\ Len(<<a>>) = 1 /\ <<a>>[1] = a
    OBVIOUS
  <2> QED BY <1>1, <1>5, <2>1, <2>2, <2>3, Zenon
<1> QED BY <1>3, <1>4, <1>5, Zenon

\* The answer begins with the fields of the PCB and goes on with those of the
\* reason.
LEMMA LugaresDevuelta ==
    ASSUME NEW p \in PCBs, NEW r, EsRetorno(r)
    PROVE  /\ Lleva(CamposDevuelta(p, r), p) /\ Len(CamposDevuelta(p, r)) = Larguras(p, r)
           /\ Larguras(p, r) \in Nat /\ Len(CamposMotivo(r)) \in Nat
           /\ Larguras(p, r) = Largura(p) + Len(CamposMotivo(r))
           /\ \A i \in 1..Len(CamposMotivo(r)) :
                 CamposDevuelta(p, r)[Largura(p) + i] = CamposMotivo(r)[i]
<1>1. Largura(p) \in Nat /\ \A j \in 1..Largura(p) : Campo(p, j) \in CampoT
  BY TiposPCB, CampoTipo
<1>2. CamposMotivo(r) \in Seq(CampoT)
  BY TiposMotivo
<1>3. PICK n \in Nat, k \in Nat : n = Largura(p) /\ k = Len(CamposMotivo(r))
  BY <1>1, <1>2, LenProperties, Zenon
<1> DEFINE E(j) == IF j <= n THEN Campo(p, j) ELSE CamposMotivo(r)[j - n]
<1>4. CamposDevuelta(p, r) = [j \in 1..(n + k) |-> E(j)] /\ Larguras(p, r) = n + k
  BY <1>3, Zenon DEF CamposDevuelta, Larguras
<1>5. \A j \in 1..n : E(j) = Campo(p, j)
  OBVIOUS
<1>6. \A i \in 1..k : E(n + i) = CamposMotivo(r)[i]
  <2>1. \A i \in 1..k : ~(n + i <= n) /\ (n + i) - n = i
    OBVIOUS
  <2> QED BY <2>1, Zenon
<1>7. \A i \in 1..k : CamposMotivo(r)[i] \in CampoT
  BY <1>2, <1>3
<1>8. \A j \in 1..(n + k) : j \in 1..n \/ (j - n \in 1..k /\ n + (j - n) = j)
  OBVIOUS
<1> HIDE DEF E
<1>9. \A j \in 1..(n + k) : E(j) \in CampoT
  <2> SUFFICES ASSUME NEW j \in 1..(n + k) PROVE E(j) \in CampoT
    OBVIOUS
  <2>1. CASE j \in 1..n
    BY <2>1, <1>1, <1>3, <1>5, Zenon
  <2>2. CASE j - n \in 1..k /\ n + (j - n) = j
    BY <2>2, <1>6, <1>7, Zenon
  <2> QED BY <1>8, <2>1, <2>2, Zenon
<1> DEFINE f == [j \in 1..(n + k) |-> E(j)]
<1>10. f \in Seq(CampoT) /\ Len(f) = n + k /\ n + k \in Nat
  BY <1>9
<1>11. \A j \in 1..n : f[j] = Campo(p, j)
  <2>1. \A j \in 1..n : j \in 1..(n + k)
    OBVIOUS
  <2> QED BY <2>1, <1>5, Zenon
<1>12. \A i \in 1..k : f[n + i] = CamposMotivo(r)[i]
  <2>1. \A i \in 1..k : n + i \in 1..(n + k)
    OBVIOUS
  <2> QED BY <2>1, <1>6, Zenon
<1> HIDE DEF f
<1>13. n <= Len(f)
  BY <1>10
<1>14. CamposDevuelta(p, r) = f
  BY <1>4, Zenon DEF f
<1>15. Lleva(f, p)
  BY <1>3, <1>10, <1>11, <1>13, Zenon DEF Lleva
<1> QED BY <1>3, <1>4, <1>10, <1>12, <1>14, <1>15, Zenon

\* What the CPU sends back is a message of those fields.
LEMMA MensajeDevuelta ==
    ASSUME NEW p \in PCBs, NEW r, EsRetorno(r)
    PROVE  EsMensaje(Devolver(p, r), CamposDevuelta(p, r))
<1>1. PICK f : f = CamposDevuelta(p, r)
  BY Zenon
<1>2. PICK n : n = Largura(p)
  BY Zenon
<1>3. n \in Nat /\ Hasta(CamposPCB(p), f, n)
  BY <1>1, <1>2, TiposPCB, MensajePCB, LugaresDevuelta, Zenon DEF SerializarPCB
<1>4. SUFFICES Hasta(Devolver(p, r), f, Len(f))
  BY <1>1, HastaElFinal, Zenon
<1>0. /\ Len(f) = n + Len(CamposMotivo(r))
      /\ \A i \in 1..Len(CamposMotivo(r)) : f[n + i] = CamposMotivo(r)[i]
  BY <1>1, <1>2, LugaresDevuelta, Zenon
<1>5. CASE r.motivo = IO
  <2>0. Len(CamposMotivo(r)) = 4
    BY <1>5, TiposMotivo
  <2>1. /\ Len(CamposMotivo(r)) = 4 /\ Len(f) = n + 4
        /\ \A i \in 1..4 : f[n + i] = CamposMotivo(r)[i]
    BY <1>0, <2>0, Zenon
  <2>2. /\ r.carga[1] \in Textos /\ r.carga[2] \in Int
        /\ CamposMotivo(r)[1] = CampoInt(IO)
        /\ CamposMotivo(r)[2] = CampoInt(Largo[r.carga[1]])
        /\ CamposMotivo(r)[3] = CampoTexto(r.carga[1])
        /\ CamposMotivo(r)[4] = CampoInt(r.carga[2])
    BY <1>5, TiposMotivo
  <2>3. /\ 1 \in 1..4 /\ 2 \in 1..4 /\ 3 \in 1..4 /\ 4 \in 1..4
        /\ IO \in Int /\ IO # PAGEFAULT
    BY DEF IO, PAGEFAULT
  <2>4. /\ f[n + 1] = CampoInt(IO) /\ f[n + 2] = CampoInt(Largo[r.carga[1]])
        /\ f[n + 3] = CampoTexto(r.carga[1]) /\ f[n + 4] = CampoInt(r.carga[2])
    BY <2>1, <2>2, <2>3, Zenon
  <2>5. /\ n + 1 <= Len(f) /\ n + 4 <= Len(f) /\ n + 4 = (n + 3) + 1
        /\ (n + 1) + 2 = n + 3 /\ (n + 1) + 2 <= Len(f)
        /\ n + 2 = (n + 1) + 1 /\ n + 3 = (n + 1) + 2
    <3>1. \A x : x = n + 4 => /\ n + 1 <= x /\ n + 4 <= x /\ n + 4 = (n + 3) + 1
                              /\ (n + 1) + 2 = n + 3 /\ (n + 1) + 2 <= x
                              /\ n + 2 = (n + 1) + 1 /\ n + 3 = (n + 1) + 2
      BY <1>3
    <3> QED BY <2>1, <3>1, Zenon
  <2>6. Hasta(CamposPCB(p) \o Entero(IO), f, n + 1)
    BY <1>3, <2>3, <2>4, <2>5, HastaUno, Zenon
  <2>7. Hasta(CamposPCB(p) \o Entero(IO) \o Instruccion(r.carga[1]), f, n + 3)
    <3>1. PICK a, b : a = CampoInt(Largo[r.carga[1]]) /\ b = CampoTexto(r.carga[1])
      BY Zenon
    <3>2. PICK c : c = <<a>> \o <<b>>
      BY Zenon
    <3>3. EsMensaje(Instruccion(r.carga[1]), c)
      BY <2>2, <3>1, <3>2, MensajeInstruccion
    <3>4. Len(c) = 2 /\ c[1] = a /\ c[2] = b
      BY <3>2
    <3>5. 2 \in Nat /\ \A j \in 1..2 : f[(n + 1) + j] = c[j]
      <4>1. \A j \in 1..2 : j = 1 \/ j = 2
        OBVIOUS
      <4>2. f[(n + 1) + 1] = a /\ f[(n + 1) + 2] = b
        BY <2>4, <2>5, <3>1, Zenon
      <4> QED BY <3>4, <4>1, <4>2, Zenon
    <3>6. PICK m, i : m = CamposPCB(p) \o Entero(IO) /\ i = n + 1
      BY Zenon
    <3>7. /\ Hasta(m, f, i) /\ i + 2 <= Len(f) /\ \A j \in 1..2 : f[i + j] = c[j]
          /\ i + 2 = n + 3
      BY <2>5, <2>6, <3>5, <3>6, Zenon
    <3>8. PICK u : u = Instruccion(r.carga[1])
      BY Zenon
    <3>9. Hasta(m \o u, f, i + 2)
      BY <3>3, <3>4, <3>5, <3>7, <3>8, HastaVarios, Zenon
    <3> QED BY <3>6, <3>7, <3>8, <3>9, Zenon
  <2>8. Hasta(CamposPCB(p) \o Entero(IO) \o Instruccion(r.carga[1]) \o Entero(r.carga[2]), f, n + 4)
    <3>1. PICK m, v : m = CamposPCB(p) \o Entero(IO) \o Instruccion(r.carga[1]) /\ v = r.carga[2]
      BY Zenon
    <3>2. /\ v \in Int /\ Hasta(m, f, n + 3) /\ n + 4 = (n + 3) + 1 /\ n + 4 <= Len(f)
          /\ f[n + 4] = CampoInt(v)
      BY <2>2, <2>4, <2>5, <2>7, <3>1, Zenon
    <3>3. Hasta(m \o Entero(v), f, n + 4)
      BY <3>2, HastaUno, Zenon
    <3> QED BY <3>1, <3>3, Zenon
  <2>9. Devolver(p, r) = CamposPCB(p) \o Entero(IO) \o Instruccion(r.carga[1]) \o Entero(r.carga[2])
    BY <1>5, <2>3, Zenon DEF Devolver, DevolverPorIO
  <2> QED BY <2>1, <2>8, <2>9, Zenon
<1>6. CASE r.motivo = PAGEFAULT
  <2>0. Len(CamposMotivo(r)) = 2
    BY <1>6, TiposMotivo
  <2>1. /\ Len(CamposMotivo(r)) = 2 /\ Len(f) = n + 2
        /\ \A i \in 1..2 : f[n + i] = CamposMotivo(r)[i]
    BY <1>0, <2>0, Zenon
  <2>2. /\ r.carga[1] \in Int
        /\ CamposMotivo(r)[1] = CampoInt(PAGEFAULT)
        /\ CamposMotivo(r)[2] = CampoInt(r.carga[1])
    BY <1>6, TiposMotivo
  <2>3. 1 \in 1..2 /\ 2 \in 1..2 /\ PAGEFAULT \in Int /\ IO # PAGEFAULT
    BY DEF PAGEFAULT, IO
  <2>4. f[n + 1] = CampoInt(PAGEFAULT) /\ f[n + 2] = CampoInt(r.carga[1])
    BY <2>1, <2>2, <2>3, Zenon
  <2>5. n + 1 <= Len(f) /\ n + 2 <= Len(f) /\ n + 2 = (n + 1) + 1
    <3>1. \A x : x = n + 2 => n + 1 <= x /\ n + 2 <= x /\ n + 2 = (n + 1) + 1
      BY <1>3
    <3> QED BY <2>1, <3>1, Zenon
  <2>6. Hasta(CamposPCB(p) \o Entero(PAGEFAULT), f, n + 1)
    BY <1>3, <2>3, <2>4, <2>5, HastaUno, Zenon
  <2>7. Hasta(CamposPCB(p) \o Entero(PAGEFAULT) \o Entero(r.carga[1]), f, n + 2)
    <3>1. PICK m, v : m = CamposPCB(p) \o Entero(PAGEFAULT) /\ v = r.carga[1]
      BY Zenon
    <3>2. /\ v \in Int /\ Hasta(m, f, n + 1) /\ n + 2 = (n + 1) + 1 /\ n + 2 <= Len(f)
          /\ f[n + 2] = CampoInt(v)
      BY <2>2, <2>4, <2>5, <2>6, <3>1, Zenon
    <3>3. Hasta(m \o Entero(v), f, n + 2)
      BY <3>2, HastaUno, Zenon
    <3> QED BY <3>1, <3>3, Zenon
  <2>8. Devolver(p, r) = CamposPCB(p) \o Entero(PAGEFAULT) \o Entero(r.carga[1])
    BY <1>6, <2>3, Zenon DEF Devolver, DevolverPorPAGEFAULT
  <2> QED BY <2>1, <2>7, <2>8, Zenon
<1>7. CASE r.motivo \notin {IO, PAGEFAULT}
  <2>1. /\ Len(f) = n + 1 /\ \A i \in 1..1 : f[n + i] = CampoInt(r.motivo)
    <3>1. /\ Len(CamposMotivo(r)) = 1 /\ CamposMotivo(r)[1] = CampoInt(r.motivo)
      BY <1>7, TiposMotivo, Zenon
    <3>2. Len(f) = n + 1 /\ \A i \in 1..1 : f[n + i] = CamposMotivo(r)[i]
      BY <1>1, <1>2, <3>1, LugaresDevuelta, Zenon
    <3>3. \A i \in 1..1 : i = 1
      OBVIOUS
    <3> QED BY <3>1, <3>2, <3>3, Zenon
  <2>2. 1 \in 1..1 /\ r.motivo \in Int
    BY TiposMotivo
  <2>3. n + 1 <= Len(f)
    <3>1. \A x : x = n + 1 => n + 1 <= x
      BY <1>3
    <3> QED BY <2>1, <3>1, Zenon
  <2>4. Hasta(CamposPCB(p) \o Entero(r.motivo), f, n + 1)
    BY <1>3, <2>1, <2>2, <2>3, HastaUno, Zenon
  <2>5. Devolver(p, r) = CamposPCB(p) \o Entero(r.motivo)
    BY <1>7, Zenon DEF Devolver, DevolverConMotivo
  <2> QED BY <2>1, <2>4, <2>5, Zenon
<1> QED BY <1>5, <1>6, <1>7, Zenon

\* l are the values of the first fields of f.
Prefijo(l, f) ==
    /\ l \in Seq(ValorT) /\ Len(l) <= Len(f)
    /\ \A i \in 1..Len(l) : l[i] = f[i].valor

\* The value and the width of the fields.
LEMMA LosCampos ==
    /\ \A v : CampoInt(v).valor = v /\ CampoInt(v).ancho = TamanioInt
    /\ \A t : CampoTexto(t).valor = t /\ CampoTexto(t).ancho = Largo[t]
BY DEF CampoInt, CampoTexto

\* A reader that has read so far finds in the values the counts of the two
\* lists, and computes from them where each part ends.
LEMMA CuentasLeidas ==
    ASSUME NEW p \in PCBs, NEW f, Lleva(f, p), NEW l, Prefijo(l, f)
    PROVE  /\ 4 <= Len(l) => /\ l[4] = Instrs(p) /\ Vueltas(l[HastaCantInstr]) = Instrs(p)
                             /\ HastaInstrucciones(l) = HastaI(p)
                             /\ HastaCantSegmentos(l) = HastaR(p)
           /\ HastaR(p) <= Len(l) =>
                             /\ Vueltas(l[HastaR(p)]) = Segms(p)
                             /\ HastaPCB(l) = Largura(p)
<1>1. /\ Instrs(p) \in Nat /\ Segms(p) \in Nat /\ HastaI(p) \in Nat /\ HastaR(p) \in Nat
      /\ HastaR(p) = HastaI(p) + 6 /\ Largura(p) = HastaR(p) + 3 * Segms(p)
      /\ HastaI(p) = 4 + 2 * Instrs(p)
  BY TiposPCB
<1>2. Len(l) \in Nat
  BY DEF Prefijo
<1>3. \A n \in Nat : Vueltas(n) = n
  BY DEF Vueltas
<1>4. ASSUME 4 <= Len(l)
      PROVE  /\ l[4] = Instrs(p) /\ Vueltas(l[HastaCantInstr]) = Instrs(p)
             /\ HastaInstrucciones(l) = HastaI(p)
             /\ HastaCantSegmentos(l) = HastaR(p)
  <2>1. 4 \in 1..Len(l)
    BY <1>2, <1>4
  <2>2. f[4] = CampoInt(Instrs(p))
    BY LugaresPCB
  <2>3. l[4] = Instrs(p)
    BY <2>1, <2>2, LosCampos, Zenon DEF Prefijo
  <2>4. HastaCantInstr = 4 /\ Vueltas(l[HastaCantInstr]) = Instrs(p)
    BY <2>3, <1>1, <1>3, Zenon DEF HastaCantInstr
  <2>5. HastaInstrucciones(l) = 4 + 2 * Instrs(p)
    BY <2>4, Zenon DEF HastaInstrucciones
  <2>6. HastaInstrucciones(l) = HastaI(p)
    BY <2>5, <1>1, Zenon
  <2>7. HastaCantSegmentos(l) = HastaR(p)
    BY <2>6, <1>1, Zenon DEF HastaCantSegmentos
  <2> QED BY <2>3, <2>4, <2>6, <2>7
<1>5. ASSUME HastaR(p) <= Len(l)
      PROVE  Vueltas(l[HastaR(p)]) = Segms(p) /\ HastaPCB(l) = Largura(p)
  <2>1. 4 <= Len(l) /\ HastaR(p) \in 1..Len(l)
    BY <1>1, <1>2, <1>5
  <2>2. f[HastaI(p) + 6] = CampoInt(Segms(p))
    BY LugaresPCB
  <2>3. l[HastaR(p)] = Segms(p)
    BY <1>1, <2>1, <2>2, LosCampos, Zenon DEF Prefijo
  <2>4. Vueltas(l[HastaR(p)]) = Segms(p)
    BY <1>1, <1>3, <2>3, Zenon
  <2>5. HastaPCB(l) = Largura(p)
    BY <1>1, <1>4, <2>1, <2>4, Zenon DEF HastaPCB
  <2> QED BY <2>4, <2>5
<1> QED BY <1>4, <1>5

\* Half of the fields of the instructions are texts: the second of each pair.
LEMMA TextoImpar ==
    \A k, n \in Nat : k > 4 /\ (k - 4) % 2 = 1 /\ k < 4 + 2 * n =>
        \E i \in 1..n : k = 4 + 2 * i - 1 /\ k + 1 = 4 + 2 * i
<1> SUFFICES ASSUME NEW k \in Nat, NEW n \in Nat, k > 4, (k - 4) % 2 = 1, k < 4 + 2 * n
             PROVE  \E i \in 1..n : k = 4 + 2 * i - 1 /\ k + 1 = 4 + 2 * i
  OBVIOUS
<1>1. PICK i \in Int : i = (k - 3) \div 2
  OBVIOUS
<1>2. k = 2 * i + 3
  BY <1>1
<1>3. i \in 1..n /\ k = 4 + 2 * i - 1 /\ k + 1 = 4 + 2 * i
  BY <1>2
<1> QED BY <1>3

\* The other half are lengths: the first of each pair.
LEMMA LargoPar ==
    \A k, n \in Nat : 4 <= k /\ k < 4 + 2 * n /\ ~(k > 4 /\ (k - 4) % 2 = 1) =>
        \E i \in 1..n : k + 1 = 4 + 2 * i - 1
<1> SUFFICES ASSUME NEW k \in Nat, NEW n \in Nat, 4 <= k, k < 4 + 2 * n,
                    ~(k > 4 /\ (k - 4) % 2 = 1)
             PROVE  \E i \in 1..n : k + 1 = 4 + 2 * i - 1
  OBVIOUS
<1>1. PICK i \in Int : i = (k - 2) \div 2
  OBVIOUS
<1>2. k = 2 * i + 2
  BY <1>1
<1>3. i \in 1..n /\ k + 1 = 4 + 2 * i - 1
  BY <1>2
<1> QED BY <1>3

EnTerna(j, h, i) == j = h + 3 * i - 2 \/ j = h + 3 * i - 1 \/ j = h + 3 * i

\* The fields of the segments go three by three.
LEMMA DeATres ==
    \A n, h, k \in Nat : h <= k /\ k < h + 3 * n =>
        \E i \in 1..n : EnTerna(k + 1, h, i)
<1> SUFFICES ASSUME NEW n \in Nat, NEW h \in Nat, NEW k \in Nat, h <= k, k < h + 3 * n
             PROVE  \E i \in 1..n : EnTerna(k + 1, h, i)
  OBVIOUS
<1>1. PICK i \in Int : i = (k - h + 3) \div 3
  OBVIOUS
<1>2. 3 * i = k - h + 3 \/ 3 * i = k - h + 2 \/ 3 * i = k - h + 1
  BY <1>1
<1>3. i \in 1..n /\ EnTerna(k + 1, h, i)
  BY <1>2 DEF EnTerna
<1> QED BY <1>3

\* The key of deserializarPCB: while fields of the PCB are missing it knows so,
\* and asks recv for exactly the bytes of the next one.
LEMMA PCBAMedias ==
    ASSUME NEW p \in PCBs, NEW f, Lleva(f, p), NEW l, Prefijo(l, f), Len(l) < Largura(p)
    PROVE  /\ ~PCBCompleto(l)
           /\ BytesDelProximo(l) = f[Len(l) + 1].ancho
<1>1. /\ Instrs(p) \in Nat /\ Segms(p) \in Nat /\ HastaI(p) \in Nat /\ HastaR(p) \in Nat
      /\ HastaR(p) = HastaI(p) + 6 /\ Largura(p) = HastaR(p) + 3 * Segms(p)
      /\ HastaI(p) = 4 + 2 * Instrs(p)
  BY TiposPCB
<1>2. PICK k \in Nat : k = Len(l)
  BY DEF Prefijo
<1>i. PICK n \in Nat, s \in Nat, hi \in Nat, hr \in Nat :
         n = Instrs(p) /\ s = Segms(p) /\ hi = HastaI(p) /\ hr = HastaR(p)
  BY <1>1, Zenon
<1>n. hr = hi + 6 /\ hi = 4 + 2 * n /\ k < hr + 3 * s
  BY <1>1, <1>2, <1>i, Zenon
<1>c. /\ f[1] = CampoInt(PCB) /\ f[2] = CampoInt(p.pid)
      /\ f[3] = CampoInt(p.estado) /\ f[4] = CampoInt(n)
  BY <1>i, LugaresPCB
<1>d. \A i \in 1..n : /\ f[4 + 2 * i - 1] = CampoInt(Largo[p.instrucciones[i]])
                      /\ f[4 + 2 * i] = CampoTexto(p.instrucciones[i])
  <2>1. \A i \in 1..Instrs(p) : /\ f[4 + 2 * i - 1] = CampoInt(Largo[p.instrucciones[i]])
                                /\ f[4 + 2 * i] = CampoTexto(p.instrucciones[i])
    BY LugaresPCB
  <2> QED BY <1>i, <2>1, Zenon
<1>e. /\ f[hi + 1] = CampoInt(p.program_counter)
      /\ f[hi + 2] = CampoInt(p.registros_cpu.AX)
      /\ f[hi + 3] = CampoInt(p.registros_cpu.BX)
      /\ f[hi + 4] = CampoInt(p.registros_cpu.CX)
      /\ f[hi + 5] = CampoInt(p.registros_cpu.DX)
      /\ f[hi + 6] = CampoInt(s)
  BY <1>i, LugaresPCB
<1>f. \A i \in 1..s : /\ \E v : f[hr + 3 * i - 2] = CampoInt(v)
                      /\ \E v : f[hr + 3 * i - 1] = CampoInt(v)
                      /\ \E v : f[hr + 3 * i] = CampoInt(v)
  <2>1. \A i \in 1..Segms(p) :
                 /\ f[HastaR(p) + 3 * i - 2] = CampoInt(p.t_segmentos[i].idSegmento)
                 /\ f[HastaR(p) + 3 * i - 1] = CampoInt(p.t_segmentos[i].tamanioSegmentos)
                 /\ f[HastaR(p) + 3 * i] = CampoInt(p.t_segmentos[i].indiceTablaDePaginas)
    BY LugaresPCB
  <2> QED BY <1>i, <2>1, Zenon
<1>3. ~PCBCompleto(l)
  <2> SUFFICES ASSUME PCBCompleto(l) PROVE FALSE
    OBVIOUS
  <2>1. 4 <= k
    BY <1>2 DEF PCBCompleto, HastaCantInstr
  <2>2. HastaR(p) <= k
    BY <1>1, <1>2, <2>1, CuentasLeidas DEF PCBCompleto
  <2>3. k = Largura(p)
    BY <1>2, <2>2, CuentasLeidas DEF PCBCompleto
  <2> QED BY <1>1, <1>2, <2>3
<1>4. CASE SigueTexto(l)
  <2>1. k > 4 /\ (k - 4) % 2 = 1
    BY <1>2, <1>4 DEF SigueTexto, HastaCantInstr
  <2>2. k < 4 + 2 * n
    <3>1. 4 <= Len(l)
      BY <1>2, <2>1
    <3>2. HastaInstrucciones(l) = HastaI(p)
      BY <3>1, CuentasLeidas
    <3> QED BY <1>2, <1>i, <1>n, <3>2, <1>4, Zenon DEF SigueTexto
  <2>3. PICK i \in 1..n : k = 4 + 2 * i - 1 /\ k + 1 = 4 + 2 * i
    BY <2>1, <2>2, TextoImpar, Zenon
  <2>4. /\ f[k] = CampoInt(Largo[p.instrucciones[i]])
        /\ f[k + 1] = CampoTexto(p.instrucciones[i])
    BY <2>3, <1>d, Zenon
  <2>5. k \in 1..Len(l)
    BY <1>2, <2>1
  <2>8. l[k] = f[k].valor
    BY <2>5, Zenon DEF Prefijo
  <2>6. l[k] = Largo[p.instrucciones[i]]
    BY <2>4, <2>8, LosCampos, Zenon
  <2>7. BytesDelProximo(l) = l[k]
    BY <1>2, <1>4, Zenon DEF BytesDelProximo
  <2> QED BY <1>2, <1>3, <2>4, <2>6, <2>7, LosCampos, Zenon
<1>5. CASE ~SigueTexto(l)
  <2>1. BytesDelProximo(l) = TamanioInt
    BY <1>5, Zenon DEF BytesDelProximo
  <2>2. SUFFICES \E v : f[k + 1] = CampoInt(v)
    BY <1>2, <1>3, <2>1, LosCampos, Zenon
  <2>3. CASE k < 4
    <3>1. k + 1 = 1 \/ k + 1 = 2 \/ k + 1 = 3 \/ k + 1 = 4
      BY <2>3
    <3> QED BY <3>1, <1>c, Zenon
  <2>4. CASE 4 <= k /\ k < hi
    <3>1. HastaInstrucciones(l) = HastaI(p)
      BY <1>2, <2>4, CuentasLeidas
    <3>2. ~(k > 4 /\ (k - 4) % 2 = 1)
      BY <1>2, <1>i, <1>5, <2>4, <3>1 DEF SigueTexto, HastaCantInstr
    <3>3. PICK i \in 1..n : k + 1 = 4 + 2 * i - 1
      BY <1>n, <2>4, <3>2, LargoPar, Zenon
    <3> QED BY <3>3, <1>d, Zenon
  <2>5. CASE hi <= k /\ k < hr
    <3>1. \/ k + 1 = hi + 1 \/ k + 1 = hi + 2 \/ k + 1 = hi + 3
          \/ k + 1 = hi + 4 \/ k + 1 = hi + 5 \/ k + 1 = hi + 6
      BY <1>n, <2>5
    <3> QED BY <3>1, <1>e, Zenon
  <2>6. CASE hr <= k
    <3>1. PICK i \in 1..s : EnTerna(k + 1, hr, i)
      BY <1>n, <2>6, DeATres, Zenon
    <3> QED BY <3>1, <1>f, Zenon DEF EnTerna
  <2>7. k < 4 \/ (4 <= k /\ k < hi) \/ (hi <= k /\ k < hr) \/ hr <= k
    BY <1>n
  <2> QED BY <2>3, <2>4, <2>5, <2>6, <2>7, Zenon
<1> QED BY <1>4, <1>5, Zenon

\* And when it has read them all it knows it, and has built the PCB that was
\* sent.
LEMMA PCBEntero ==
    ASSUME NEW p \in PCBs, NEW f, Lleva(f, p), NEW l, Prefijo(l, f), Largura(p) <= Len(l)
    PROVE  /\ HastaPCB(l) = Largura(p) /\ PCBLeido(l) = p
           /\ PCBCompleto(l) <=> Len(l) = Largura(p)
<1>1. /\ Instrs(p) \in Nat /\ Segms(p) \in Nat /\ HastaI(p) \in Nat /\ HastaR(p) \in Nat
      /\ HastaR(p) = HastaI(p) + 6 /\ Largura(p) = HastaR(p) + 3 * Segms(p)
      /\ HastaI(p) = 4 + 2 * Instrs(p)
  BY TiposPCB
<1>2. PICK k \in Nat : k = Len(l)
  BY DEF Prefijo
<1>i. PICK n \in Nat, s \in Nat, hi \in Nat, hr \in Nat :
         n = Instrs(p) /\ s = Segms(p) /\ hi = HastaI(p) /\ hr = HastaR(p)
  BY <1>1, Zenon
<1>n. hr = hi + 6 /\ hi = 4 + 2 * n /\ hr + 3 * s <= k
  BY <1>1, <1>2, <1>i, Zenon
<1>m. 4 <= k /\ hr <= k
  BY <1>n
<1>v. \A j \in 1..k : l[j] = f[j].valor
  BY <1>2, Zenon DEF Prefijo
<1>w. \A j \in 1..k : \A v : f[j] = CampoInt(v) => l[j] = v
  BY <1>v, LosCampos, Zenon
<1>h. /\ HastaInstrucciones(l) = hi /\ HastaCantSegmentos(l) = hr
      /\ Vueltas(l[HastaCantInstr]) = n /\ Vueltas(l[hr]) = s /\ HastaPCB(l) = Largura(p)
  BY <1>2, <1>i, <1>m, CuentasLeidas
<1>3. l[2] = p.pid /\ l[3] = p.estado
  <2>1. f[2] = CampoInt(p.pid) /\ f[3] = CampoInt(p.estado)
    BY LugaresPCB
  <2>2. 2 \in 1..k /\ 3 \in 1..k
    BY <1>m
  <2> QED BY <1>w, <2>1, <2>2, Zenon
<1>4. InstruccionesLeidas(l) = p.instrucciones
  <2>1. \A i \in 1..Instrs(p) : f[4 + 2 * i] = CampoTexto(p.instrucciones[i])
    BY LugaresPCB
  <2>2. \A i \in 1..n : 4 + 2 * i \in 1..k
    BY <1>n
  <2>3. \A i \in 1..n : l[4 + 2 * i] = p.instrucciones[i]
    BY <1>i, <1>v, <2>1, <2>2, LosCampos, Zenon
  <2>4. InstruccionesLeidas(l) = [i \in 1..n |-> l[4 + 2 * i]]
    BY <1>h, Zenon DEF InstruccionesLeidas, HastaCantInstr
  <2>5. p.instrucciones \in Seq(Textos) /\ Len(p.instrucciones) = n
    BY <1>i, TiposPCB, Zenon DEF Instrs
  <2>6. p.instrucciones = [i \in 1..n |-> p.instrucciones[i]]
    BY <2>5
  <2> QED BY <2>3, <2>4, <2>6, Zenon
<1>5. /\ l[hi + 1] = p.program_counter /\ l[hi + 2] = p.registros_cpu.AX
      /\ l[hi + 3] = p.registros_cpu.BX /\ l[hi + 4] = p.registros_cpu.CX
      /\ l[hi + 5] = p.registros_cpu.DX
  <2>1. /\ f[hi + 1] = CampoInt(p.program_counter)
        /\ f[hi + 2] = CampoInt(p.registros_cpu.AX)
        /\ f[hi + 3] = CampoInt(p.registros_cpu.BX)
        /\ f[hi + 4] = CampoInt(p.registros_cpu.CX)
        /\ f[hi + 5] = CampoInt(p.registros_cpu.DX)
    BY <1>i, LugaresPCB
  <2>2. /\ hi + 1 \in 1..k /\ hi + 2 \in 1..k /\ hi + 3 \in 1..k /\ hi + 4 \in 1..k
        /\ hi + 5 \in 1..k
    BY <1>n
  <2> QED BY <1>w, <2>1, <2>2, Zenon
<1>6. RegistrosLeidos(l) = p.registros_cpu
  <2>1. RegistrosLeidos(l) = [AX |-> p.registros_cpu.AX, BX |-> p.registros_cpu.BX,
                              CX |-> p.registros_cpu.CX, DX |-> p.registros_cpu.DX]
    BY <1>h, <1>5, Zenon DEF RegistrosLeidos
  <2>2. p.registros_cpu \in Registros
    BY DEF PCBs
  <2> QED BY <2>1, <2>2 DEF Registros
<1>7. SegmentosLeidos(l) = p.t_segmentos
  <2>1. \A i \in 1..Segms(p) :
                 /\ f[HastaR(p) + 3 * i - 2] = CampoInt(p.t_segmentos[i].idSegmento)
                 /\ f[HastaR(p) + 3 * i - 1] = CampoInt(p.t_segmentos[i].tamanioSegmentos)
                 /\ f[HastaR(p) + 3 * i] = CampoInt(p.t_segmentos[i].indiceTablaDePaginas)
    BY LugaresPCB
  <2>2. \A i \in 1..s : hr + 3 * i - 2 \in 1..k /\ hr + 3 * i - 1 \in 1..k /\ hr + 3 * i \in 1..k
    BY <1>n
  <2>3. \A i \in 1..s : /\ l[hr + 3 * i - 2] = p.t_segmentos[i].idSegmento
                        /\ l[hr + 3 * i - 1] = p.t_segmentos[i].tamanioSegmentos
                        /\ l[hr + 3 * i] = p.t_segmentos[i].indiceTablaDePaginas
    <3>1. \A i \in 1..s :
             /\ f[hr + 3 * i - 2] = CampoInt(p.t_segmentos[i].idSegmento)
             /\ f[hr + 3 * i - 1] = CampoInt(p.t_segmentos[i].tamanioSegmentos)
             /\ f[hr + 3 * i] = CampoInt(p.t_segmentos[i].indiceTablaDePaginas)
      BY <1>i, <2>1, Zenon
    <3> QED BY <1>w, <2>2, <3>1, Zenon
  <2>4. SegmentosLeidos(l) =
          [i \in 1..s |-> [idSegmento |-> l[hr + 3 * i - 2],
                           tamanioSegmentos |-> l[hr + 3 * i - 1],
                           indiceTablaDePaginas |-> l[hr + 3 * i]]]
    BY <1>h, Zenon DEF SegmentosLeidos
  <2>5. p.t_segmentos \in Seq(Segmentos) /\ Len(p.t_segmentos) = s
    BY <1>i, TiposPCB, Zenon DEF Segms
  <2>6. \A i \in 1..s : p.t_segmentos[i] =
            [idSegmento |-> l[hr + 3 * i - 2], tamanioSegmentos |-> l[hr + 3 * i - 1],
             indiceTablaDePaginas |-> l[hr + 3 * i]]
    <3> SUFFICES ASSUME NEW i \in 1..s
                 PROVE  p.t_segmentos[i] =
                          [idSegmento |-> l[hr + 3 * i - 2], tamanioSegmentos |-> l[hr + 3 * i - 1],
                           indiceTablaDePaginas |-> l[hr + 3 * i]]
      OBVIOUS
    <3>1. PICK g : g = p.t_segmentos[i]
      BY Zenon
    <3>2. g \in Segmentos
      BY <2>5, <3>1
    <3>3. g = [idSegmento |-> g.idSegmento, tamanioSegmentos |-> g.tamanioSegmentos,
               indiceTablaDePaginas |-> g.indiceTablaDePaginas]
      BY <3>2 DEF Segmentos
    <3> QED BY <2>3, <3>1, <3>3, Zenon
  <2>7. p.t_segmentos = [i \in 1..s |-> p.t_segmentos[i]]
    BY <2>5
  <2> QED BY <2>4, <2>6, <2>7, Zenon
<1>8. PCBLeido(l) = p
  <2>1. PCBLeido(l) = [pid |-> p.pid, estado |-> p.estado, instrucciones |-> p.instrucciones,
                       program_counter |-> p.program_counter, registros_cpu |-> p.registros_cpu,
                       t_segmentos |-> p.t_segmentos]
    BY <1>h, <1>3, <1>4, <1>5, <1>6, <1>7, Zenon DEF PCBLeido
  <2>2. p = [pid |-> p.pid, estado |-> p.estado, instrucciones |-> p.instrucciones,
             program_counter |-> p.program_counter, registros_cpu |-> p.registros_cpu,
             t_segmentos |-> p.t_segmentos]
    BY DEF PCBs
  <2> QED BY <2>1, <2>2, Zenon
<1>9. PCBCompleto(l) <=> Len(l) = Largura(p)
  <2>1. HastaCantInstr = 4
    BY DEF HastaCantInstr
  <2>2. Len(l) >= HastaCantInstr /\ Len(l) >= HastaCantSegmentos(l)
    BY <1>2, <1>h, <1>m, <2>1
  <2> QED BY <1>h, <2>2, Zenon DEF PCBCompleto
<1> QED BY <1>h, <1>8, <1>9

\* What recibirPCB_Dispatch makes of the values m.
MotivoDe(m) ==
    [motivo |-> m[1],
     carga |-> CASE m[1] = IO -> <<m[3], m[4]>>
                 [] m[1] = PAGEFAULT -> <<m[2]>>
                 [] OTHER -> <<>>]

\* m are the values of the first fields of the reason r.
PrefijoMotivo(m, r) ==
    /\ m \in Seq(ValorT) /\ Len(m) <= Len(CamposMotivo(r))
    /\ \A i \in 1..Len(m) : m[i] = CamposMotivo(r)[i].valor

\* After the PCB come the values of the reason.
LEMMA TrasElPCB ==
    ASSUME NEW p \in PCBs, NEW r, EsRetorno(r), NEW l, Prefijo(l, CamposDevuelta(p, r)),
           Largura(p) <= Len(l)
    PROVE  PrefijoMotivo(TrasPCB(l), r) /\ Len(TrasPCB(l)) = Len(l) - Largura(p)
<1>1. PICK f : f = CamposDevuelta(p, r)
  BY Zenon
<1>2. PICK n \in Nat, k \in Nat, o \in Nat :
          n = Largura(p) /\ k = Len(l) /\ o = Len(CamposMotivo(r))
  <2>1. Largura(p) \in Nat /\ Len(l) \in Nat /\ Len(CamposMotivo(r)) \in Nat
    BY TiposPCB, LugaresDevuelta DEF Prefijo
  <2> QED BY <2>1, Zenon
<1>3. /\ Lleva(f, p) /\ Len(f) = n + o
      /\ \A i \in 1..o : f[n + i] = CamposMotivo(r)[i]
  BY <1>1, <1>2, LugaresDevuelta, Zenon
<1>4. HastaPCB(l) = n
  BY <1>1, <1>2, <1>3, PCBEntero, Zenon
<1>5. l \in Seq(ValorT) /\ k <= n + o /\ n <= k
  <2>1. Len(l) <= Len(f) /\ l \in Seq(ValorT)
    BY <1>1, Zenon DEF Prefijo
  <2> QED BY <2>1, <1>2, <1>3, Zenon
<1>6. TrasPCB(l) = SubSeq(l, n + 1, k)
  BY <1>2, <1>4, Zenon DEF TrasPCB
<1> DEFINE m == SubSeq(l, n + 1, k)
<1>7. m \in Seq(ValorT) /\ Len(m) = k - n /\ \A i \in 1..(k - n) : m[i] = l[n + i]
  <2>1. k <= Len(l)
    BY <1>2
  <2>2. EsTramo(ValorT, m, l, n, k)
    BY <1>5, <2>1, Tramo, Zenon
  <2> QED BY <2>2, Zenon DEF EsTramo
<1> HIDE DEF m
<1>8. \A i \in 1..(k - n) : m[i] = CamposMotivo(r)[i].valor
  <2>1. \A i \in 1..(k - n) : i \in 1..o /\ n + i \in 1..k
    BY <1>5
  <2>2. \A j \in 1..k : l[j] = f[j].valor
    BY <1>1, <1>2, Zenon DEF Prefijo
  <2> QED BY <2>1, <2>2, <1>3, <1>7, Zenon
<1>9. k - n <= o
  BY <1>5
<1>10. PrefijoMotivo(m, r)
  BY <1>2, <1>7, <1>8, <1>9, Zenon DEF PrefijoMotivo
<1> QED BY <1>2, <1>6, <1>7, <1>10, Zenon DEF m

\* recibirPCB_Dispatch reads the reason as deserializarPCB the PCB: it asks for
\* the bytes of the next field and knows when there is none.
LEMMA MotivoAMedias ==
    ASSUME NEW r, EsRetorno(r), NEW m, PrefijoMotivo(m, r)
    PROVE  /\ Len(m) < Len(CamposMotivo(r)) =>
                 BytesDelMotivo(m) = CamposMotivo(r)[Len(m) + 1].ancho
           /\ Len(m) >= 1 => (MotivoCompleto(m) <=> Len(m) = Len(CamposMotivo(r)))
<1>1. PICK k \in Nat : k = Len(m)
  BY DEF PrefijoMotivo
<1>v. /\ \A i \in 1..k : m[i] = CamposMotivo(r)[i].valor
      /\ k <= Len(CamposMotivo(r))
  BY <1>1, Zenon DEF PrefijoMotivo
<1>c. k >= 1 => m # <<>>
  BY <1>1
<1>i. IO # PAGEFAULT /\ IO \in Int
  BY DEF IO, PAGEFAULT
<1>2. CASE r.motivo = IO
  <2>1. /\ Len(CamposMotivo(r)) = 4
        /\ CamposMotivo(r)[1] = CampoInt(IO)
        /\ CamposMotivo(r)[2] = CampoInt(Largo[r.carga[1]])
        /\ CamposMotivo(r)[3] = CampoTexto(r.carga[1])
        /\ CamposMotivo(r)[4] = CampoInt(r.carga[2])
    BY <1>2, TiposMotivo
  <2>a. /\ CamposMotivo(r)[1].ancho = TamanioInt /\ CamposMotivo(r)[2].ancho = TamanioInt
        /\ CamposMotivo(r)[3].ancho = Largo[r.carga[1]] /\ CamposMotivo(r)[4].ancho = TamanioInt
    <3>1. /\ CampoInt(IO).ancho = TamanioInt /\ CampoInt(Largo[r.carga[1]]).ancho = TamanioInt
          /\ CampoTexto(r.carga[1]).ancho = Largo[r.carga[1]]
          /\ CampoInt(r.carga[2]).ancho = TamanioInt
      BY LosCampos, Zenon
    <3> QED BY <2>1, <3>1, Zenon
  <2>2. k >= 1 => m[1] = IO
    <3>1. k >= 1 => 1 \in 1..k
      OBVIOUS
    <3> QED BY <3>1, <2>1, <1>v, LosCampos, Zenon
  <2>3. k = 2 => m[2] = Largo[r.carga[1]]
    <3>1. k = 2 => 2 \in 1..k
      OBVIOUS
    <3> QED BY <3>1, <2>1, <1>v, LosCampos, Zenon
  <2>4. k = 0 \/ k = 1 \/ k = 2 \/ k = 3 \/ k = 4
    BY <1>v, <2>1
  <2>5. ASSUME k < 4 PROVE BytesDelMotivo(m) = CamposMotivo(r)[k + 1].ancho
    <3>1. CASE k = 2
      <4>1. BytesDelMotivo(m) = m[2]
        <5>1. k >= 1
          BY <3>1
        <5> QED BY <5>1, <3>1, <1>1, <2>2, Zenon DEF BytesDelMotivo
      <4>2. k + 1 = 3
        BY <3>1
      <4> QED BY <4>1, <4>2, <3>1, <2>a, <2>3, Zenon
    <3>2. CASE k # 2
      <4>1. BytesDelMotivo(m) = TamanioInt
        BY <3>2, <1>1, Zenon DEF BytesDelMotivo
      <4>2. k + 1 = 1 \/ k + 1 = 2 \/ k + 1 = 4
        BY <3>2, <2>4, <2>5
      <4> QED BY <4>1, <4>2, <2>a, Zenon
    <3> QED BY <3>1, <3>2, Zenon
  <2>6. k >= 1 => (MotivoCompleto(m) <=> k = 4)
    <3>1. Operandos(IO) = 3 /\ 1 + 3 = 4
      BY <1>i DEF Operandos
    <3> QED BY <3>1, <1>1, <1>c, <2>2, Zenon DEF MotivoCompleto
  <2> QED BY <1>1, <2>1, <2>5, <2>6, Zenon
<1>3. CASE r.motivo = PAGEFAULT
  <2>1. /\ Len(CamposMotivo(r)) = 2
        /\ CamposMotivo(r)[1] = CampoInt(PAGEFAULT)
        /\ CamposMotivo(r)[2] = CampoInt(r.carga[1])
    BY <1>3, TiposMotivo
  <2>a. CamposMotivo(r)[1].ancho = TamanioInt /\ CamposMotivo(r)[2].ancho = TamanioInt
    BY <2>1, LosCampos, Zenon
  <2>2. k >= 1 => m[1] = PAGEFAULT
    <3>1. k >= 1 => 1 \in 1..k
      OBVIOUS
    <3> QED BY <3>1, <2>1, <1>v, LosCampos, Zenon
  <2>5. ASSUME k < 2 PROVE BytesDelMotivo(m) = CamposMotivo(r)[k + 1].ancho
    <3>1. k # 2 /\ (k + 1 = 1 \/ k + 1 = 2)
      BY <2>5
    <3>2. BytesDelMotivo(m) = TamanioInt
      BY <3>1, <1>1, Zenon DEF BytesDelMotivo
    <3> QED BY <3>1, <3>2, <2>a, Zenon
  <2>6. k >= 1 => (MotivoCompleto(m) <=> k = 2)
    <3>1. Operandos(PAGEFAULT) = 1 /\ 1 + 1 = 2
      BY <1>i DEF Operandos
    <3> QED BY <3>1, <1>1, <1>c, <2>2, Zenon DEF MotivoCompleto
  <2> QED BY <1>1, <2>1, <2>5, <2>6, Zenon
<1>4. CASE r.motivo \notin {IO, PAGEFAULT}
  <2>1. Len(CamposMotivo(r)) = 1 /\ CamposMotivo(r)[1] = CampoInt(r.motivo)
    BY <1>4, TiposMotivo
  <2>a. CamposMotivo(r)[1].ancho = TamanioInt
    BY <2>1, LosCampos, Zenon
  <2>2. k >= 1 => m[1] = r.motivo
    <3>1. k >= 1 => 1 \in 1..k
      OBVIOUS
    <3> QED BY <3>1, <2>1, <1>v, LosCampos, Zenon
  <2>5. ASSUME k < 1 PROVE BytesDelMotivo(m) = CamposMotivo(r)[k + 1].ancho
    <3>1. k # 2 /\ k + 1 = 1
      BY <2>5
    <3>2. BytesDelMotivo(m) = TamanioInt
      BY <3>1, <1>1, Zenon DEF BytesDelMotivo
    <3> QED BY <3>1, <3>2, <2>a, Zenon
  <2>6. k >= 1 => (MotivoCompleto(m) <=> k = 1)
    <3>1. Operandos(r.motivo) = 0 /\ 1 + 0 = 1
      <4>1. r.motivo # IO /\ r.motivo # PAGEFAULT
        BY <1>4
      <4> QED BY <4>1 DEF Operandos
    <3> QED BY <3>1, <1>1, <1>c, <2>2, Zenon DEF MotivoCompleto
  <2> QED BY <1>1, <2>1, <2>5, <2>6, Zenon
<1> QED BY <1>2, <1>3, <1>4, Zenon

\* And it makes of the values the reason that was sent.
LEMMA MotivoEntero ==
    ASSUME NEW r, EsRetorno(r), NEW m, PrefijoMotivo(m, r), Len(m) = Len(CamposMotivo(r))
    PROVE  MotivoDe(m) = r
<1>v. \A i \in 1..Len(m) : m[i] = CamposMotivo(r)[i].valor
  BY Zenon DEF PrefijoMotivo
<1>i. IO # PAGEFAULT
  BY DEF IO, PAGEFAULT
<1>r. r = [motivo |-> r.motivo, carga |-> r.carga] /\ r.carga \in Seq(ValorT)
  BY DEF EsRetorno, ValorT
<1>2. CASE r.motivo = IO
  <2>1. /\ Len(m) = 4
        /\ CamposMotivo(r)[1] = CampoInt(IO)
        /\ CamposMotivo(r)[3] = CampoTexto(r.carga[1])
        /\ CamposMotivo(r)[4] = CampoInt(r.carga[2])
    BY <1>2, TiposMotivo
  <2>2. 1 \in 1..4 /\ 3 \in 1..4 /\ 4 \in 1..4
    OBVIOUS
  <2>a. /\ CamposMotivo(r)[1].valor = IO /\ CamposMotivo(r)[3].valor = r.carga[1]
        /\ CamposMotivo(r)[4].valor = r.carga[2]
    BY <2>1, LosCampos, Zenon
  <2>b. 1 \in 1..Len(m) /\ 3 \in 1..Len(m) /\ 4 \in 1..Len(m)
    BY <2>1, <2>2, Zenon
  <2>3. m[1] = IO /\ m[3] = r.carga[1] /\ m[4] = r.carga[2]
    BY <1>v, <2>a, <2>b, Zenon
  <2>4. Len(r.carga) = 2
    BY <1>2, Zenon DEF EsRetorno
  <2>5. r.carga = <<r.carga[1], r.carga[2]>>
    BY <1>r, <2>4
  <2>6. MotivoDe(m) = [motivo |-> IO, carga |-> <<r.carga[1], r.carga[2]>>]
    BY <1>i, <2>3, Zenon DEF MotivoDe
  <2> QED BY <1>r, <1>2, <2>5, <2>6, Zenon
<1>3. CASE r.motivo = PAGEFAULT
  <2>1. /\ Len(m) = 2 /\ CamposMotivo(r)[1] = CampoInt(PAGEFAULT)
        /\ CamposMotivo(r)[2] = CampoInt(r.carga[1])
    BY <1>3, TiposMotivo
  <2>2. 1 \in 1..2 /\ 2 \in 1..2
    OBVIOUS
  <2>a. CamposMotivo(r)[1].valor = PAGEFAULT /\ CamposMotivo(r)[2].valor = r.carga[1]
    BY <2>1, LosCampos, Zenon
  <2>b. 1 \in 1..Len(m) /\ 2 \in 1..Len(m)
    BY <2>1, <2>2, Zenon
  <2>3. m[1] = PAGEFAULT /\ m[2] = r.carga[1]
    BY <1>v, <2>a, <2>b, Zenon
  <2>4. Len(r.carga) = 1
    BY <1>3, Zenon DEF EsRetorno
  <2>5. r.carga = <<r.carga[1]>>
    BY <1>r, <2>4
  <2>6. MotivoDe(m) = [motivo |-> PAGEFAULT, carga |-> <<r.carga[1]>>]
    BY <1>i, <2>3, Zenon DEF MotivoDe
  <2> QED BY <1>r, <1>3, <2>5, <2>6, Zenon
<1>4. CASE r.motivo \notin {IO, PAGEFAULT}
  <2>1. Len(m) = 1 /\ CamposMotivo(r)[1] = CampoInt(r.motivo)
    BY <1>4, TiposMotivo
  <2>2. 1 \in 1..1 /\ r.motivo # IO /\ r.motivo # PAGEFAULT
    BY <1>4
  <2>3. m[1] = r.motivo
    BY <1>v, <2>1, <2>2, LosCampos, Zenon
  <2>4. r.carga = <<>>
    BY <1>4, Zenon DEF EsRetorno
  <2>5. MotivoDe(m) = [motivo |-> r.motivo, carga |-> <<>>]
    BY <2>2, <2>3, Zenon DEF MotivoDe
  <2> QED BY <1>r, <2>4, <2>5, Zenon
<1> QED BY <1>2, <1>3, <1>4, Zenon

\* After i recv's of the message m, of fields c, the q bytes are still to be
\* read, the ones that were delivered first.
Va(m, c, i, leidos, q) ==
    /\ m \in BytesT /\ c \in Seq(CampoT) /\ i \in 0..Len(c)
    /\ leidos = [j \in 1..i |-> Trozo(c[j])]
    /\ \E r : Desarma(r, m, c) /\ q = r[i]
    /\ Concatenar(leidos) \o q = m

\* Before the first recv all of the message is to be read.
LEMMA VaEmpieza ==
    ASSUME NEW m, NEW c, EsMensaje(m, c)
    PROVE  Va(m, c, 0, <<>>, m)
<1>1. m \in BytesT /\ c \in Seq(CampoT) /\ \E r : Desarma(r, m, c)
  BY Zenon DEF EsMensaje
<1>2. 0 \in 0..Len(c)
  BY <1>1
<1>3. <<>> = [j \in 1..0 |-> Trozo(c[j])]
  OBVIOUS
<1>4. \E r : Desarma(r, m, c) /\ m = r[0]
  BY <1>1, Zenon DEF Desarma
<1>5. Concatenar(<<>>) \o m = m
  <2>1. Concatenar(<<>>) = <<>>
    BY ConcatenarVacia DEF Concatenar
  <2>2. <<>> \o m = m
    BY <1>1 DEF BytesT
  <2> QED BY <2>1, <2>2, Zenon
<1> QED BY <1>1, <1>2, <1>3, <1>4, <1>5, Zenon DEF Va

\* The i recv's done returned the first i fields.
LEMMA VaTrozos ==
    ASSUME NEW m, NEW c, NEW i, NEW leidos, NEW q, Va(m, c, i, leidos, q)
    PROVE  /\ i \in Nat /\ i <= Len(c) /\ q \in BytesT /\ leidos \in Seq(BytesT) /\ Len(leidos) = i
           /\ \A j \in 1..i : leidos[j] = Trozo(c[j]) /\ c[j] \in CampoT
           /\ i < Len(c) => i + 1 \in 1..Len(c) /\ c[i + 1] \in CampoT
           /\ i = Len(c) => q = <<>>
<1>1. /\ c \in Seq(CampoT) /\ i \in 0..Len(c) /\ leidos = [j \in 1..i |-> Trozo(c[j])]
  BY Zenon DEF Va
<1>2. PICK r : Desarma(r, m, c) /\ q = r[i]
  BY Zenon DEF Va
<1>3. i \in Nat /\ i <= Len(c) /\ Len(c) \in Nat
  BY <1>1
<1>4. q \in BytesT
  BY <1>1, <1>2, Zenon DEF Desarma
<1>5. \A j \in 1..i : j \in 1..Len(c)
  BY <1>3
<1>6. \A j \in 1..Len(c) : c[j] \in CampoT
  BY <1>1
<1>7. \A j \in 1..i : Trozo(c[j]) \in BytesT
  BY <1>5, <1>6, TrozoTipo, Zenon
<1>8. leidos \in Seq(BytesT) /\ Len(leidos) = i /\ \A j \in 1..i : leidos[j] = Trozo(c[j])
  BY <1>1, <1>3, <1>7
<1>9. i < Len(c) => i + 1 \in 1..Len(c)
  BY <1>3
<1>10. i = Len(c) => q = <<>>
  BY <1>2, Zenon DEF Desarma
<1> QED BY <1>3, <1>4, <1>5, <1>6, <1>8, <1>9, <1>10, Zenon

\* The values read so far are those of the first fields, each of them from a
\* single field.
LEMMA VaValores ==
    ASSUME NEW m, NEW c, NEW i, NEW leidos, NEW q, Va(m, c, i, leidos, q)
    PROVE  /\ Prefijo(Valores(leidos), c) /\ Len(Valores(leidos)) = i
           /\ \A k \in DOMAIN leidos : EsUnCampo(leidos[k])
<1>1. /\ i \in Nat /\ i <= Len(c) /\ leidos \in Seq(BytesT) /\ Len(leidos) = i
      /\ \A j \in 1..i : leidos[j] = Trozo(c[j]) /\ c[j] \in CampoT
  BY VaTrozos
<1>2. DOMAIN leidos = 1..i
  BY <1>1
<1>3. \A j \in 1..i : EsUnCampo(Trozo(c[j])) /\ Valor(Trozo(c[j])) = c[j].valor
  BY <1>1, TrozoTipo, Zenon
<1>4. Valores(leidos) = [k \in 1..i |-> Valor(leidos[k])]
  BY <1>2, Zenon DEF Valores
<1>5. \A k \in 1..i : Valor(leidos[k]) = c[k].valor /\ c[k].valor \in ValorT
  <2>1. \A x \in CampoT : x.valor \in ValorT
    BY DEF CampoT
  <2> QED BY <1>1, <1>3, <2>1, Zenon
<1>6. /\ Valores(leidos) \in Seq(ValorT) /\ Len(Valores(leidos)) = i
      /\ \A k \in 1..i : Valores(leidos)[k] = c[k].valor
  <2>1. \A k \in 1..i : Valor(leidos[k]) \in ValorT
    BY <1>5, Zenon
  <2>2. PICK v : v = [k \in 1..i |-> Valor(leidos[k])]
    BY Zenon
  <2>3. v \in Seq(ValorT) /\ Len(v) = i
    BY <1>1, <2>1, <2>2
  <2>4. \A k \in 1..i : v[k] = c[k].valor
    BY <1>5, <2>2, Zenon
  <2> QED BY <1>4, <2>2, <2>3, <2>4, Zenon
<1> QED BY <1>1, <1>2, <1>3, <1>6, Zenon DEF Prefijo

\* One recv more, of exactly the bytes of the next field, returns that field.
LEMMA VaLee ==
    ASSUME NEW m, NEW c, NEW i, NEW leidos, NEW a \in BytesT, NEW b \in BytesT,
           Va(m, c, i, leidos, a \o b), i < Len(c), NEW n, n = c[i + 1].ancho, Alcanza(a, n)
    PROVE  /\ Resto(a, n) \in BytesT
           /\ Va(m, c, i + 1, Append(leidos, Primeros(a, n)), Resto(a, n) \o b)
<1>1. /\ i \in Nat /\ leidos \in Seq(BytesT) /\ Len(leidos) = i /\ i + 1 \in 1..Len(c)
      /\ c[i + 1] \in CampoT /\ \A j \in 1..i : leidos[j] = Trozo(c[j])
  BY VaTrozos
<1>2. PICK r : Desarma(r, m, c) /\ a \o b = r[i]
  BY Zenon DEF Va
<1>3. PICK t : t = Trozo(c[i + 1])
  BY Zenon
<1>4. t \in BytesT /\ Len(t) = n
  BY <1>1, <1>3, TrozoTipo, Zenon
<1>5. PICK u : u = r[i + 1]
  BY Zenon
<1>6. u \in BytesT /\ a \o b = t \o u
  <2>1. (i + 1) - 1 = i /\ i + 1 \in 0..Len(c)
    BY <1>1
  <2> QED BY <1>1, <1>2, <1>3, <1>5, <2>1, Zenon DEF Desarma
<1>7. Len(a) >= Len(t)
  BY <1>4, Zenon DEF Alcanza
<1>8. /\ SubSeq(a, 1, Len(t)) = t /\ SubSeq(a, Len(t) + 1, Len(a)) \in BytesT
      /\ SubSeq(a, Len(t) + 1, Len(a)) \o b = u
  <2>1. Reparto(ByteT, a, b, t, u)
    BY <1>4, <1>6, <1>7, Recibido, Zenon DEF BytesT
  <2> QED BY <2>1, Zenon DEF Reparto, BytesT
<1>9. Primeros(a, n) = t /\ Resto(a, n) \in BytesT /\ Resto(a, n) \o b = u
  BY <1>4, <1>8, Zenon DEF Primeros, Resto
<1>10. Append(leidos, t) = [j \in 1..(i + 1) |-> Trozo(c[j])]
  <2>1. PICK z : z = Append(leidos, t)
    BY Zenon
  <2>2. z \in Seq(BytesT) /\ Len(z) = i + 1 /\ z[i + 1] = t /\ \A j \in 1..i : z[j] = leidos[j]
    BY <1>1, <1>4, <2>1
  <2>3. \A j \in 1..(i + 1) : z[j] = Trozo(c[j])
    <3>1. \A j \in 1..(i + 1) : j \in 1..i \/ j = i + 1
      BY <1>1
    <3> QED BY <1>1, <1>3, <2>2, <3>1, Zenon
  <2>4. z = [j \in 1..(i + 1) |-> z[j]]
    BY <1>1, <2>2
  <2> QED BY <2>1, <2>3, <2>4, Zenon
<1>11. Concatenar(Append(leidos, t)) \o u = m
  <2>1. Concatenar(Append(leidos, t)) = Concatenar(leidos) \o t
    BY <1>1, <1>4, ConcatenarAgregar DEF Concatenar, BytesT
  <2>2. Concatenar(leidos) \in BytesT
    BY <1>1, ConcatenarTipo DEF Concatenar, BytesT
  <2>3. Concatenar(leidos) \o (t \o u) = m
    BY <1>6, Zenon DEF Va
  <2>4. (Concatenar(leidos) \o t) \o u = Concatenar(leidos) \o (t \o u)
    BY <1>4, <1>6, <2>2, Asociativa
  <2> QED BY <2>1, <2>3, <2>4, Zenon
<1>12. i + 1 \in 0..Len(c)
  BY <1>1
<1>13. Va(m, c, i + 1, Append(leidos, t), u)
  BY <1>2, <1>5, <1>10, <1>11, <1>12, Zenon DEF Va
<1> QED BY <1>9, <1>13, Zenon

\* Two messages alike that begin with fields of one width begin with the same
\* field.
LEMMA Decodificacion ==
    ASSUME NEW a \in CampoT, NEW b \in CampoT, NEW x \in BytesT, NEW y \in BytesT,
           Trozo(a) \o x = Trozo(b) \o y, a.ancho = b.ancho
    PROVE  a = b /\ x = y
<1>1. /\ Trozo(a) \in BytesT /\ Trozo(b) \in BytesT /\ Len(Trozo(a)) = Len(Trozo(b))
      /\ Trozo(a)[1][1] = a.valor /\ Trozo(b)[1][1] = b.valor
  BY TrozoTipo
<1>2. Trozo(a) = Trozo(b) /\ x = y
  BY <1>1, MismoCorte, Zenon DEF BytesT
<1>3. a.valor = b.valor
  BY <1>1, <1>2, Zenon
<1>4. a = [valor |-> a.valor, ancho |-> a.ancho] /\ b = [valor |-> b.valor, ancho |-> b.ancho]
  BY DEF CampoT
<1> QED BY <1>2, <1>3, <1>4, Zenon

\* What the values l say of the rest of an answer, whose fields are f.
Rumbo(l, f, n, r) ==
    /\ n < Len(f)
    /\ n <= Len(l) /\ Len(l) < Len(f) => BytesDelMotivo(TrasPCB(l)) = f[Len(l) + 1].ancho
    /\ n < Len(l) => (MotivoCompleto(TrasPCB(l)) <=> Len(l) = Len(f))
    /\ Len(l) = Len(f) => MotivoDe(TrasPCB(l)) = r

\* What the kernel knows of an answer when it has read the values l of it.
LEMMA AnchoDevuelta ==
    ASSUME NEW p \in PCBs, NEW r, EsRetorno(r), NEW l, NEW f, f = CamposDevuelta(p, r),
           Prefijo(l, f)
    PROVE  Rumbo(l, f, Largura(p), r)
<1>1. PICK n \in Nat, k \in Nat, o \in Nat :
          n = Largura(p) /\ k = Len(l) /\ o = Len(CamposMotivo(r))
  <2>1. Largura(p) \in Nat /\ Len(l) \in Nat /\ Len(CamposMotivo(r)) \in Nat
    BY TiposPCB, LugaresDevuelta DEF Prefijo
  <2> QED BY <2>1, Zenon
<1>2. /\ Len(f) = n + o
      /\ \A i \in 1..o : f[n + i] = CamposMotivo(r)[i]
  BY <1>1, LugaresDevuelta, Zenon
<1>3. o = 1 \/ o = 2 \/ o = 4
  <2>1. CASE r.motivo = IO
    BY <2>1, <1>1, TiposMotivo
  <2>2. CASE r.motivo = PAGEFAULT
    BY <2>2, <1>1, TiposMotivo
  <2>3. CASE r.motivo \notin {IO, PAGEFAULT}
    BY <2>3, <1>1, TiposMotivo
  <2> QED BY <2>1, <2>2, <2>3, Zenon
<1>4. n < n + o
  BY <1>3
<1>p. k <= n + o
  BY <1>1, <1>2, Zenon DEF Prefijo
<1>5. PICK m : m = TrasPCB(l)
  BY Zenon
<1>6. n <= k => PrefijoMotivo(m, r) /\ Len(m) = k - n
  BY <1>1, <1>5, TrasElPCB, Zenon
<1>7. n <= k /\ k < n + o => BytesDelMotivo(m) = f[k + 1].ancho
  <2> SUFFICES ASSUME n <= k, k < n + o PROVE BytesDelMotivo(m) = f[k + 1].ancho
    OBVIOUS
  <2>1. k - n < o /\ (k - n) + 1 \in 1..o /\ n + ((k - n) + 1) = k + 1
    OBVIOUS
  <2>2. BytesDelMotivo(m) = CamposMotivo(r)[(k - n) + 1].ancho
    BY <1>1, <1>6, <2>1, MotivoAMedias, Zenon
  <2>3. f[n + ((k - n) + 1)] = CamposMotivo(r)[(k - n) + 1]
    BY <1>2, <2>1, Zenon
  <2> QED BY <2>1, <2>2, <2>3, Zenon
<1>8. n < k => (MotivoCompleto(m) <=> k = n + o)
  <2> SUFFICES ASSUME n < k PROVE MotivoCompleto(m) <=> k = n + o
    OBVIOUS
  <2>1. n <= k /\ k - n >= 1 /\ (k - n = o <=> k = n + o)
    OBVIOUS
  <2>2. PrefijoMotivo(m, r) /\ Len(m) = k - n
    BY <1>6, <2>1, Zenon
  <2>3. Len(m) >= 1
    BY <2>1, <2>2, Zenon
  <2>4. MotivoCompleto(m) <=> Len(m) = Len(CamposMotivo(r))
    BY <2>2, <2>3, MotivoAMedias
  <2> QED BY <1>1, <2>1, <2>2, <2>4, Zenon
<1>9. k = n + o => MotivoDe(m) = r
  <2> SUFFICES ASSUME k = n + o PROVE MotivoDe(m) = r
    OBVIOUS
  <2>1. n <= k /\ k - n = o
    OBVIOUS
  <2>2. PrefijoMotivo(m, r) /\ Len(m) = Len(CamposMotivo(r))
    BY <1>1, <1>6, <2>1, Zenon
  <2> QED BY <2>2, MotivoEntero
<1> QED BY <1>1, <1>2, <1>4, <1>5, <1>7, <1>8, <1>9, Zenon DEF Rumbo

\* Two lists of fields that make one message are one, if each field's width is
\* told by the fields before it: by induction over the fields.
LEMMA MismosCampos ==
    ASSUME NEW c \in Seq(CampoT), NEW d \in Seq(CampoT), NEW r, NEW s, NEW m,
           Desarma(r, m, c), Desarma(s, m, d),
           NEW K \in Nat, K <= Len(c), K <= Len(d),
           \A i \in Nat : i < K /\ (\A j \in 1..i : c[j] = d[j]) => c[i + 1].ancho = d[i + 1].ancho
    PROVE  \A j \in 1..K : c[j] = d[j]
<1> DEFINE T == {i \in Nat : i <= K => r[i] = s[i] /\ \A j \in 1..i : c[j] = d[j]}
<1>1. 0 \in T
  <2>1. r[0] = s[0]
    BY Zenon DEF Desarma
  <2>2. \A j \in 1..0 : c[j] = d[j]
    OBVIOUS
  <2> QED BY <2>1, <2>2
<1>2. ASSUME NEW i \in Nat, i \in T PROVE i + 1 \in T
  <2> SUFFICES ASSUME i + 1 <= K
               PROVE  r[i + 1] = s[i + 1] /\ \A j \in 1..(i + 1) : c[j] = d[j]
    OBVIOUS
  <2>1. i < K /\ i <= K /\ (i + 1) - 1 = i
    OBVIOUS
  <2>2. r[i] = s[i] /\ \A j \in 1..i : c[j] = d[j]
    BY <1>2, <2>1
  <2> HIDE DEF T
  <2>3. c[i + 1].ancho = d[i + 1].ancho
    BY <2>1, <2>2, Zenon
  <2>4. i + 1 \in 1..Len(c) /\ i + 1 \in 1..Len(d) /\ i + 1 \in 0..Len(c) /\ i + 1 \in 0..Len(d)
    OBVIOUS
  <2>5. c[i + 1] \in CampoT /\ d[i + 1] \in CampoT
    BY <2>4, ElementOfSeq, Zenon
  <2>6. r[i + 1] \in BytesT /\ s[i + 1] \in BytesT
    BY <2>4, Zenon DEF Desarma
  <2>7. Trozo(c[i + 1]) \o r[i + 1] = Trozo(d[i + 1]) \o s[i + 1]
    <3>1. r[i] = Trozo(c[i + 1]) \o r[i + 1]
      BY <2>1, <2>4, Zenon DEF Desarma
    <3>2. s[i] = Trozo(d[i + 1]) \o s[i + 1]
      BY <2>1, <2>4, Zenon DEF Desarma
    <3> QED BY <2>2, <3>1, <3>2, Zenon
  <2>8. c[i + 1] = d[i + 1] /\ r[i + 1] = s[i + 1]
    <3>1. PICK a \in CampoT, b \in CampoT : a = c[i + 1] /\ b = d[i + 1]
      BY <2>5, Zenon
    <3>2. PICK x \in BytesT, y \in BytesT : x = r[i + 1] /\ y = s[i + 1]
      BY <2>6, Zenon
    <3>3. Trozo(a) \o x = Trozo(b) \o y /\ a.ancho = b.ancho
      BY <2>3, <2>7, <3>1, <3>2, Zenon
    <3>4. a = b /\ x = y
      BY <3>3, Decodificacion
    <3> QED BY <3>1, <3>2, <3>4, Zenon
  <2>9. \A j \in 1..(i + 1) : j \in 1..i \/ j = i + 1
    OBVIOUS
  <2> QED BY <2>2, <2>8, <2>9, Zenon
<1>3. Nat \subseteq T
  <2> HIDE DEF T
  <2> QED BY <1>1, <1>2, InduccionNat
<1>4. K \in T /\ K <= K
  <2> HIDE DEF T
  <2> QED BY <1>3
<1> QED BY <1>4

\* The values of the first n fields.
LosValores(f, n) == [j \in 1..n |-> f[j].valor]

\* The values of the fields that two messages share.
LEMMA PrefijoDe ==
    ASSUME NEW f \in Seq(CampoT), NEW g \in Seq(CampoT), NEW n \in Nat, n <= Len(f), n <= Len(g),
           \A j \in 1..n : f[j] = g[j]
    PROVE  /\ Prefijo(LosValores(f, n), f) /\ Prefijo(LosValores(f, n), g)
           /\ Len(LosValores(f, n)) = n
<1>1. \A j \in 1..n : f[j].valor \in ValorT
  <2>1. \A j \in 1..n : f[j] \in CampoT
    OBVIOUS
  <2>2. \A x \in CampoT : x.valor \in ValorT
    BY DEF CampoT
  <2> QED BY <2>1, <2>2, Zenon
<1>2. PICK l : l = LosValores(f, n)
  BY Zenon
<1>3. l \in Seq(ValorT) /\ Len(l) = n /\ \A j \in 1..n : l[j] = f[j].valor
  <2>1. l = [j \in 1..n |-> f[j].valor]
    BY <1>2, Zenon DEF LosValores
  <2>2. l \in Seq(ValorT) /\ Len(l) = n
    BY <1>1, <2>1
  <2> QED BY <2>1, <2>2, Zenon
<1>4. \A j \in 1..n : l[j] = g[j].valor
  BY <1>3, Zenon
<1> QED BY <1>2, <1>3, <1>4, Zenon DEF Prefijo

\* Two PCBs serialized alike are one: serializarPCB loses nothing.
LEMMA MismoPCB ==
    ASSUME NEW p \in PCBs, NEW q \in PCBs, NEW f, NEW g, NEW m,
           Lleva(f, p), Lleva(g, q), EsMensaje(m, f), EsMensaje(m, g), Largura(p) <= Largura(q)
    PROVE  p = q /\ \A j \in 1..Largura(p) : f[j] = g[j]
<1>1. PICK r, s : Desarma(r, m, f) /\ Desarma(s, m, g)
  BY Zenon DEF EsMensaje
<1>2. PICK K \in Nat, L \in Nat : K = Largura(p) /\ L = Largura(q)
  BY TiposPCB
<1>3. f \in Seq(CampoT) /\ g \in Seq(CampoT) /\ K <= Len(f) /\ L <= Len(g) /\ K <= L
  BY <1>2, Zenon DEF Lleva
<1>4. K <= Len(g)
  BY <1>3
<1>5. ASSUME NEW i \in Nat, i < K, \A j \in 1..i : f[j] = g[j]
      PROVE  f[i + 1].ancho = g[i + 1].ancho
  <2>1. i <= Len(f) /\ i <= Len(g) /\ i < L
    BY <1>3, <1>5
  <2>2. PICK l : l = LosValores(f, i)
    BY Zenon
  <2>3. Prefijo(l, f) /\ Prefijo(l, g) /\ Len(l) = i
    BY <1>3, <1>5, <2>1, <2>2, PrefijoDe, Zenon
  <2>4. BytesDelProximo(l) = f[i + 1].ancho
    BY <1>2, <1>5, <2>3, PCBAMedias, Zenon
  <2>5. BytesDelProximo(l) = g[i + 1].ancho
    BY <1>2, <2>1, <2>3, PCBAMedias, Zenon
  <2> QED BY <2>4, <2>5, Zenon
<1>6. \A j \in 1..K : f[j] = g[j]
  BY <1>1, <1>3, <1>4, <1>5, MismosCampos
<1>7. PICK l : l = LosValores(f, K)
  BY Zenon
<1>8. Prefijo(l, f) /\ Prefijo(l, g) /\ Len(l) = K
  BY <1>3, <1>4, <1>6, <1>7, PrefijoDe, Zenon
<1>9. K <= K
  OBVIOUS
<1>10. PCBLeido(l) = p /\ PCBCompleto(l)
  BY <1>2, <1>8, <1>9, PCBEntero, Zenon
<1>11. K = L
  <2>1. ~(K < L)
    BY <1>2, <1>8, <1>10, PCBAMedias, Zenon
  <2> QED BY <1>3, <2>1
<1>12. PCBLeido(l) = q
  BY <1>2, <1>8, <1>9, <1>11, PCBEntero, Zenon
<1> QED BY <1>2, <1>6, <1>10, <1>12, Zenon

\* The bytes on their way to the CPU tell the process.
LEMMA PedidoUnico ==
    ASSUME NEW p \in PCBs, NEW q \in PCBs, SerializarPCB(p) = SerializarPCB(q)
    PROVE  p = q
<1>1. PICK m : m = SerializarPCB(p) /\ m = SerializarPCB(q)
  BY Zenon
<1>2. /\ Lleva(CamposPedido(p), p) /\ EsMensaje(m, CamposPedido(p))
      /\ Lleva(CamposPedido(q), q) /\ EsMensaje(m, CamposPedido(q))
  BY <1>1, MensajePedido, Zenon
<1>3. Largura(p) <= Largura(q) \/ Largura(q) <= Largura(p)
  <2>1. Largura(p) \in Nat /\ Largura(q) \in Nat
    BY TiposPCB
  <2> QED BY <2>1
<1> QED BY <1>2, <1>3, MismoPCB, Zenon

\* After the same PCB, answers alike have the same reason.
LEMMA MismoMotivo ==
    ASSUME NEW p \in PCBs, NEW r, NEW s, EsRetorno(r), EsRetorno(s), NEW m,
           EsMensaje(m, CamposDevuelta(p, r)), EsMensaje(m, CamposDevuelta(p, s)),
           Len(CamposDevuelta(p, r)) <= Len(CamposDevuelta(p, s))
    PROVE  r = s
<1>1. PICK f, g : f = CamposDevuelta(p, r) /\ g = CamposDevuelta(p, s)
  BY Zenon
<1>2. PICK a, b : Desarma(a, m, f) /\ Desarma(b, m, g)
  BY <1>1, Zenon DEF EsMensaje
<1>3. Lleva(f, p) /\ Lleva(g, p)
  BY <1>1, LugaresDevuelta, Zenon
<1>4. f \in Seq(CampoT) /\ g \in Seq(CampoT) /\ Len(f) <= Len(g)
  BY <1>1, <1>3, Zenon DEF Lleva
<1>5. PICK n \in Nat, K \in Nat, L \in Nat : n = Largura(p) /\ K = Len(f) /\ L = Len(g)
  <2>1. Largura(p) \in Nat
    BY TiposPCB
  <2>2. Len(f) \in Nat /\ Len(g) \in Nat
    BY <1>4
  <2> QED BY <2>1, <2>2, Zenon
<1>6. \A j \in 1..n : f[j] = g[j]
  <2>1. Largura(p) <= Largura(p)
    BY <1>5
  <2>2. EsMensaje(m, f) /\ EsMensaje(m, g)
    BY <1>1, Zenon
  <2> QED BY <1>3, <1>5, <2>1, <2>2, MismoPCB
<1>7. ASSUME NEW i \in Nat, i < K, \A j \in 1..i : f[j] = g[j]
      PROVE  f[i + 1].ancho = g[i + 1].ancho
  <2>1. i <= Len(f) /\ i <= Len(g) /\ i < L
    BY <1>4, <1>5, <1>7
  <2>2. PICK l : l = LosValores(f, i)
    BY Zenon
  <2>3. Prefijo(l, f) /\ Prefijo(l, g) /\ Len(l) = i
    BY <1>4, <1>7, <2>1, <2>2, PrefijoDe, Zenon
  <2>4. CASE i < n
    <3>1. BytesDelProximo(l) = f[i + 1].ancho
      BY <1>3, <1>5, <2>3, <2>4, PCBAMedias, Zenon
    <3>2. BytesDelProximo(l) = g[i + 1].ancho
      BY <1>3, <1>5, <2>3, <2>4, PCBAMedias, Zenon
    <3> QED BY <3>1, <3>2, Zenon
  <2>5. CASE n <= i
    <3>1. Rumbo(l, f, n, r) /\ Rumbo(l, g, n, s)
      BY <1>1, <1>5, <2>3, AnchoDevuelta, Zenon
    <3>2. BytesDelMotivo(TrasPCB(l)) = f[i + 1].ancho
      BY <1>5, <1>7, <2>3, <2>5, <3>1, Zenon DEF Rumbo
    <3>3. BytesDelMotivo(TrasPCB(l)) = g[i + 1].ancho
      BY <1>5, <2>1, <2>3, <2>5, <3>1, Zenon DEF Rumbo
    <3> QED BY <3>2, <3>3, Zenon
  <2>6. i < n \/ n <= i
    OBVIOUS
  <2> QED BY <2>4, <2>5, <2>6, Zenon
<1>8. K <= Len(f) /\ K <= Len(g)
  BY <1>4, <1>5
<1>9. \A j \in 1..K : f[j] = g[j]
  BY <1>2, <1>4, <1>7, <1>8, MismosCampos
<1>10. PICK l : l = LosValores(f, K)
  BY Zenon
<1>11. Prefijo(l, f) /\ Prefijo(l, g) /\ Len(l) = K
  BY <1>4, <1>8, <1>9, <1>10, PrefijoDe, Zenon
<1>12. Rumbo(l, f, n, r) /\ Rumbo(l, g, n, s)
  BY <1>1, <1>5, <1>11, AnchoDevuelta, Zenon
<1>13. n < K /\ MotivoCompleto(TrasPCB(l)) /\ MotivoDe(TrasPCB(l)) = r
  BY <1>5, <1>11, <1>12, Zenon DEF Rumbo
<1>14. Len(l) = Len(g)
  BY <1>5, <1>11, <1>12, <1>13, Zenon DEF Rumbo
<1>15. MotivoDe(TrasPCB(l)) = s
  BY <1>12, <1>14, Zenon DEF Rumbo
<1> QED BY <1>13, <1>15, Zenon

\* The bytes on their way to the kernel tell the process and the reason.
LEMMA DevueltaUnica ==
    ASSUME NEW p \in PCBs, NEW q \in PCBs, NEW r, NEW s, EsRetorno(r), EsRetorno(s),
           Devolver(p, r) = Devolver(q, s)
    PROVE  p = q /\ r = s
<1>1. PICK m : m = Devolver(p, r) /\ m = Devolver(q, s)
  BY Zenon
<1>2. /\ Lleva(CamposDevuelta(p, r), p) /\ EsMensaje(m, CamposDevuelta(p, r))
      /\ Lleva(CamposDevuelta(q, s), q) /\ EsMensaje(m, CamposDevuelta(q, s))
  BY <1>1, MensajeDevuelta, LugaresDevuelta, Zenon
<1>3. Largura(p) <= Largura(q) \/ Largura(q) <= Largura(p)
  <2>1. Largura(p) \in Nat /\ Largura(q) \in Nat
    BY TiposPCB
  <2> QED BY <2>1
<1>4. p = q
  BY <1>2, <1>3, MismoPCB, Zenon
<1>5. \/ Len(CamposDevuelta(p, r)) <= Len(CamposDevuelta(p, s))
      \/ Len(CamposDevuelta(p, s)) <= Len(CamposDevuelta(p, r))
  <2>1. Len(CamposDevuelta(p, r)) \in Nat /\ Len(CamposDevuelta(p, s)) \in Nat
    BY LugaresDevuelta
  <2> QED BY <2>1
<1>6. EsMensaje(m, CamposDevuelta(p, s))
  BY <1>2, <1>4, Zenon
<1>7. r = s
  BY <1>2, <1>5, <1>6, MismoMotivo, Zenon
<1> QED BY <1>4, <1>7

\* A message of fields c is on its way: i recv's done, and bytes still to come.
Viaja(m, c, i, leidos, a, b) ==
    /\ i \in Nat /\ i < Len(c) /\ a \in BytesT /\ b \in BytesT
    /\ Va(m, c, i, leidos, a \o b)

\* If two parts make nothing, there was nothing in each.
LEMMA NadaQueda ==
    ASSUME NEW a \in BytesT, NEW b \in BytesT, a \o b = <<>>
    PROVE  a = <<>> /\ b = <<>>
<1>1. Len(a) = 0 /\ Len(b) = 0
  BY DEF BytesT
<1> QED BY <1>1 DEF BytesT

\* No recv ends with nothing delivered.
LEMMA NadaAlcanza == ~Alcanza(<<>>, BytesDelProximo(Valores(<<>>)))
<1>1. Valores(<<>>) = <<>>
  BY DEF Valores
<1>2. ~SigueTexto(<<>>)
  BY DEF SigueTexto, HastaCantInstr
<1>3. BytesDelProximo(<<>>) = 4
  BY <1>2, Zenon DEF BytesDelProximo, TamanioInt
<1>4. ~Alcanza(<<>>, 4)
  BY DEF Alcanza
<1> QED BY <1>1, <1>3, <1>4, Zenon

\* A message just sent is on its way.
LEMMA ViajaEmpieza ==
    ASSUME NEW m, NEW c, EsMensaje(m, c), 0 < Len(c)
    PROVE  Viaja(m, c, 0, <<>>, <<>>, m)
<1>1. m \in BytesT /\ <<>> \in BytesT /\ 0 \in Nat
  BY DEF EsMensaje, BytesT
<1>2. <<>> \o m = m
  BY <1>1 DEF BytesT
<1>3. Va(m, c, 0, <<>>, m)
  BY VaEmpieza
<1> QED BY <1>1, <1>2, <1>3, Zenon DEF Viaja

\* The network delivers one byte more, and nothing else changes.
LEMMA ViajaEntrega ==
    ASSUME NEW m, NEW c, NEW i, NEW leidos, NEW a, NEW b, Viaja(m, c, i, leidos, a, b), b # <<>>
    PROVE  Viaja(m, c, i, leidos, Append(a, Head(b)), Tail(b))
<1>1. a \in BytesT /\ b \in BytesT
  BY Zenon DEF Viaja
<1>2. /\ Append(a, Head(b)) \in BytesT /\ Tail(b) \in BytesT
      /\ Append(a, Head(b)) \o Tail(b) = a \o b
  BY <1>1, Entregado, Zenon DEF BytesT
<1> QED BY <1>2, Zenon DEF Viaja

\* Read, delivered or on its way, the bytes are those that were sent.
LEMMA ViajaTodo ==
    ASSUME NEW m, NEW c, NEW i, NEW leidos, NEW a, NEW b, Viaja(m, c, i, leidos, a, b)
    PROVE  /\ Concatenar(leidos) \o a \o b = m
           /\ \A k \in DOMAIN leidos : EsUnCampo(leidos[k])
<1>1. /\ a \in BytesT /\ b \in BytesT /\ Va(m, c, i, leidos, a \o b)
      /\ leidos \in Seq(BytesT)
  BY VaTrozos, Zenon DEF Viaja
<1>2. Concatenar(leidos) \in BytesT
  BY <1>1, ConcatenarTipo DEF Concatenar, BytesT
<1>3. (Concatenar(leidos) \o a) \o b = Concatenar(leidos) \o (a \o b)
  BY <1>1, <1>2, Asociativa
<1>4. Concatenar(leidos) \o (a \o b) = m
  BY <1>1, Zenon DEF Va
<1>5. \A k \in DOMAIN leidos : EsUnCampo(leidos[k])
  BY <1>1, VaValores, Zenon
<1> QED BY <1>3, <1>4, <1>5, Zenon

\* After one more recv: l are the fields received, a and b the bytes to come.
Avanza(m, c, i, l, a, b) ==
    /\ i + 1 \in Nat /\ i + 1 <= Len(c) /\ a \in BytesT
    /\ Va(m, c, i + 1, l, a \o b)
    /\ i + 1 < Len(c) => Viaja(m, c, i + 1, l, a, b)
    /\ i + 1 = Len(c) => a = <<>> /\ b = <<>>

\* A recv of the bytes of the next field leaves the message one field further on
\* its way, or at its end with nothing left in the socket.
LEMMA UnRecv ==
    ASSUME NEW m, NEW c, NEW i, NEW leidos, NEW a, NEW b, Viaja(m, c, i, leidos, a, b),
           NEW n, n = c[i + 1].ancho, Alcanza(a, n)
    PROVE  Avanza(m, c, i, Append(leidos, Primeros(a, n)), Resto(a, n), b)
<1>1. /\ i \in Nat /\ i < Len(c) /\ a \in BytesT /\ b \in BytesT
      /\ Va(m, c, i, leidos, a \o b)
  BY Zenon DEF Viaja
<1>2. /\ Resto(a, n) \in BytesT
      /\ Va(m, c, i + 1, Append(leidos, Primeros(a, n)), Resto(a, n) \o b)
  BY <1>1, VaLee, Zenon
<1>3. i + 1 \in Nat /\ i + 1 <= Len(c)
  BY <1>2, VaTrozos, Zenon
<1>4. i + 1 = Len(c) => Resto(a, n) \o b = <<>>
  <2>1. PICK k, l, q : k = i + 1 /\ l = Append(leidos, Primeros(a, n)) /\ q = Resto(a, n) \o b
    BY Zenon
  <2>2. Va(m, c, k, l, q)
    BY <1>2, <2>1, Zenon
  <2>3. k = Len(c) => q = <<>>
    BY <2>2, VaTrozos
  <2> QED BY <2>1, <2>3, Zenon
<1>5. i + 1 = Len(c) => Resto(a, n) = <<>> /\ b = <<>>
  BY <1>1, <1>2, <1>4, NadaQueda, Zenon
<1>6. i + 1 < Len(c) => Viaja(m, c, i + 1, Append(leidos, Primeros(a, n)), Resto(a, n), b)
  BY <1>1, <1>2, <1>3, Zenon DEF Viaja
<1> QED BY <1>2, <1>3, <1>5, <1>6, Zenon DEF Avanza

\* A recv of deserializarPCB on a message that carries p.
LeyoPCB(m, c, p, i, l, a, b) ==
    /\ Avanza(m, c, i, l, a, b)
    /\ i + 1 <= Largura(p)
    /\ PCBCompleto(Valores(l)) <=> i + 1 = Largura(p)
    /\ i + 1 = Largura(p) => PCBLeido(Valores(l)) = p

\* A recv of deserializarPCB: it ends the PCB exactly when it reads its last
\* field.
LEMMA RecvDelPCB ==
    ASSUME NEW p \in PCBs, NEW m, NEW c, Lleva(c, p), NEW i, NEW leidos, NEW a, NEW b,
           Viaja(m, c, i, leidos, a, b), i < Largura(p),
           NEW n, n = BytesDelProximo(Valores(leidos)), Alcanza(a, n)
    PROVE  LeyoPCB(m, c, p, i, Append(leidos, Primeros(a, n)), Resto(a, n), b)
<1>1. i \in Nat /\ Va(m, c, i, leidos, a \o b)
  BY Zenon DEF Viaja
<1>2. Prefijo(Valores(leidos), c) /\ Len(Valores(leidos)) = i
  BY <1>1, VaValores, Zenon
<1>3. n = c[i + 1].ancho
  BY <1>2, PCBAMedias, Zenon
<1>4. PICK l : l = Append(leidos, Primeros(a, n))
  BY Zenon
<1>5. Avanza(m, c, i, l, Resto(a, n), b)
  BY <1>3, <1>4, UnRecv, Zenon
<1>6. Va(m, c, i + 1, l, Resto(a, n) \o b)
  BY <1>5, Zenon DEF Avanza
<1>7. Prefijo(Valores(l), c) /\ Len(Valores(l)) = i + 1
  BY <1>6, VaValores, Zenon
<1>8. Largura(p) \in Nat
  BY TiposPCB
<1>9. i + 1 <= Largura(p) /\ (i + 1 < Largura(p) \/ (i + 1 = Largura(p) /\ Largura(p) <= i + 1))
  BY <1>1, <1>8
<1>10. CASE i + 1 < Largura(p)
  <2>1. ~PCBCompleto(Valores(l))
    BY <1>7, <1>10, PCBAMedias, Zenon
  <2>2. i + 1 # Largura(p)
    BY <1>1, <1>8, <1>10
  <2> QED BY <1>4, <1>5, <1>9, <2>1, <2>2, Zenon DEF LeyoPCB
<1>11. CASE i + 1 = Largura(p) /\ Largura(p) <= i + 1
  <2>1. PCBCompleto(Valores(l)) /\ PCBLeido(Valores(l)) = p
    BY <1>7, <1>11, PCBEntero, Zenon
  <2> QED BY <1>4, <1>5, <1>9, <1>11, <2>1, Zenon DEF LeyoPCB
<1> QED BY <1>9, <1>10, <1>11, Zenon

\* A recv of recibirPCB_Dispatch after the PCB, on a message with the return r.
LeyoMotivo(m, c, r, i, l, a, b) ==
    /\ Avanza(m, c, i, l, a, b)
    /\ MotivoCompleto(TrasPCB(Valores(l))) <=> i + 1 = Len(c)
    /\ i + 1 = Len(c) => MotivoDe(TrasPCB(Valores(l))) = r

\* A recv of recibirPCB_Dispatch after the PCB: the same for the reason.
LEMMA RecvDelMotivo ==
    ASSUME NEW p \in PCBs, NEW r, EsRetorno(r), NEW m, NEW c, c = CamposDevuelta(p, r),
           NEW i, NEW leidos, NEW a, NEW b,
           Viaja(m, c, i, leidos, a, b), Largura(p) <= i,
           NEW n, n = BytesDelMotivo(TrasPCB(Valores(leidos))), Alcanza(a, n)
    PROVE  LeyoMotivo(m, c, r, i, Append(leidos, Primeros(a, n)), Resto(a, n), b)
<1>1. i \in Nat /\ i < Len(c) /\ Va(m, c, i, leidos, a \o b)
  BY Zenon DEF Viaja
<1>2. Prefijo(Valores(leidos), c) /\ Len(Valores(leidos)) = i
  BY <1>1, VaValores, Zenon
<1>3. n = c[i + 1].ancho
  <2>1. Rumbo(Valores(leidos), c, Largura(p), r)
    BY <1>2, AnchoDevuelta, Zenon
  <2> QED BY <1>1, <1>2, <2>1, Zenon DEF Rumbo
<1>4. PICK l : l = Append(leidos, Primeros(a, n))
  BY Zenon
<1>5. Avanza(m, c, i, l, Resto(a, n), b)
  BY <1>3, <1>4, UnRecv, Zenon
<1>6. Va(m, c, i + 1, l, Resto(a, n) \o b)
  BY <1>5, Zenon DEF Avanza
<1>7. Prefijo(Valores(l), c) /\ Len(Valores(l)) = i + 1
  BY <1>6, VaValores, Zenon
<1>8. Rumbo(Valores(l), c, Largura(p), r)
  BY <1>7, AnchoDevuelta, Zenon
<1>9. Largura(p) < i + 1
  <2>1. Largura(p) \in Nat
    BY TiposPCB
  <2> QED BY <1>1, <2>1
<1> QED BY <1>4, <1>5, <1>7, <1>8, <1>9, Zenon DEF LeyoMotivo, Rumbo

\* A message with some field has some byte.
LEMMA MensajeConAlgo ==
    ASSUME NEW m, NEW c, EsMensaje(m, c), 0 < Len(c)
    PROVE  m # <<>>
<1>1. c \in Seq(CampoT) /\ \E r : Desarma(r, m, c)
  BY Zenon DEF EsMensaje
<1>2. PICK r : Desarma(r, m, c)
  BY <1>1, Zenon
<1>3. 1 \in 1..Len(c) /\ 1 \in 0..Len(c) /\ 1 - 1 = 0
  BY <1>1
<1>4. c[1] \in CampoT
  BY <1>1, <1>3
<1>5. PICK t, u : t = Trozo(c[1]) /\ u = r[1]
  BY Zenon
<1>6. m = t \o u /\ u \in BytesT
  BY <1>2, <1>3, <1>5, Zenon DEF Desarma
<1>7. t \in BytesT /\ Len(t) > 0
  <2>1. t \in BytesT /\ Len(t) = c[1].ancho
    BY <1>4, <1>5, TrozoTipo, Zenon
  <2>2. \A x \in CampoT : x.ancho > 0
    BY DEF CampoT
  <2> QED BY <1>4, <2>1, <2>2
<1>8. Len(t \o u) > 0
  BY <1>6, <1>7 DEF BytesT
<1> QED BY <1>6, <1>8

\* An answer has fields, and more than its PCB.
LEMMA LargoDevuelta ==
    ASSUME NEW p \in PCBs, NEW r, EsRetorno(r)
    PROVE  0 < Len(CamposDevuelta(p, r)) /\ Largura(p) < Len(CamposDevuelta(p, r))
<1>1. Largura(p) \in Nat /\ Len(CamposMotivo(r)) \in Nat
  BY TiposPCB, LugaresDevuelta
<1>2. Len(CamposDevuelta(p, r)) = Largura(p) + Len(CamposMotivo(r))
  BY LugaresDevuelta
<1>3. Len(CamposMotivo(r)) > 0
  <2>1. CASE r.motivo = IO
    BY <2>1, TiposMotivo
  <2>2. CASE r.motivo = PAGEFAULT
    BY <2>2, TiposMotivo
  <2>3. CASE r.motivo \notin {IO, PAGEFAULT}
    BY <2>3, TiposMotivo
  <2> QED BY <2>1, <2>2, <2>3, Zenon
<1> QED BY <1>1, <1>2, <1>3

\* What the kernel sends and what the CPU answers, as PCBs and reasons.
LEMMA Tipos ==
    /\ \A p \in Programas : p \in PCBs
    /\ \A d \in Devueltos : d.pcb \in PCBs /\ EsRetorno(d.motivo) /\ d.motivo \in Respuestas
    /\ \A d \in Devueltos : d = [pcb |-> d.pcb, motivo |-> d.motivo]
<1>1. \A p \in Programas : p \in PCBs
  BY ProgramasSonPCBs
<1>2. \A p \in PCBs : [p EXCEPT !.pid = PidDeLaCPU] \in PCBs
  BY PidNatural DEF PCBs
<1>3. SUFFICES ASSUME NEW d \in Devueltos
               PROVE  /\ d.pcb \in PCBs /\ EsRetorno(d.motivo) /\ d.motivo \in Respuestas
                      /\ d = [pcb |-> d.pcb, motivo |-> d.motivo]
  BY <1>1, Zenon
<1>4. PICK p \in Programas, r \in Respuestas :
          d = [pcb |-> [p EXCEPT !.pid = PidDeLaCPU], motivo |-> r]
  BY DEF Devueltos
<1>5. PICK q : q = [p EXCEPT !.pid = PidDeLaCPU]
  BY Zenon
<1>6. q \in PCBs
  BY <1>1, <1>2, <1>5, Zenon
<1>7. d = [pcb |-> q, motivo |-> r]
  BY <1>4, <1>5, Zenon
<1>8. d.pcb = q /\ d.motivo = r
  BY <1>7
<1> QED BY <1>6, <1>7, <1>8, RespuestasSonRetornos, Zenon

\* From the bytes, Mensaje finds the process that was sent.
LEMMA MensajeEs ==
    ASSUME NEW p \in Programas
    PROVE  Mensaje(SerializarPCB(p)) = p /\ SerializarPCB(p) # <<>>
<1>1. p \in PCBs
  BY Tipos
<1>2. \A q \in Programas : Mensajes[q] = SerializarPCB(p) <=> q = p
  <2> SUFFICES ASSUME NEW q \in Programas
               PROVE  SerializarPCB(q) = SerializarPCB(p) <=> q = p
    BY Zenon DEF Mensajes
  <2>1. q \in PCBs
    BY Tipos
  <2> QED BY <1>1, <2>1, PedidoUnico, Zenon
<1>3. Mensaje(SerializarPCB(p)) = p
  <2>1. Mensaje(SerializarPCB(p)) = CHOOSE q \in Programas : Mensajes[q] = SerializarPCB(p)
    BY Zenon DEF Mensaje
  <2> QED BY <1>2, <2>1, Zenon
<1>4. SerializarPCB(p) # <<>>
  <2>1. EsMensaje(SerializarPCB(p), CamposPedido(p)) /\ Len(CamposPedido(p)) = Largura(p)
    BY <1>1, MensajePedido
  <2>2. 0 < Largura(p)
    BY <1>1, TiposPCB
  <2> QED BY <2>1, <2>2, MensajeConAlgo
<1> QED BY <1>3, <1>4

\* From the bytes, Devolucion finds the answer that was sent.
LEMMA DevolucionEs ==
    ASSUME NEW d \in Devueltos
    PROVE  /\ Devolucion(Devolver(d.pcb, d.motivo)) = d
           /\ Devolver(d.pcb, d.motivo) # <<>>
<1>1. d.pcb \in PCBs /\ EsRetorno(d.motivo)
  BY Tipos
<1>2. \A e \in Devueltos : Devoluciones[e] = Devolver(d.pcb, d.motivo) <=> e = d
  <2> SUFFICES ASSUME NEW e \in Devueltos
               PROVE  Devolver(e.pcb, e.motivo) = Devolver(d.pcb, d.motivo) <=> e = d
    BY Zenon DEF Devoluciones
  <2>1. e.pcb \in PCBs /\ EsRetorno(e.motivo)
    BY Tipos
  <2>2. e = [pcb |-> e.pcb, motivo |-> e.motivo] /\ d = [pcb |-> d.pcb, motivo |-> d.motivo]
    BY Tipos, Zenon
  <2>3. ASSUME Devolver(e.pcb, e.motivo) = Devolver(d.pcb, d.motivo) PROVE e = d
    <3>1. e.pcb = d.pcb /\ e.motivo = d.motivo
      BY <1>1, <2>1, <2>3, DevueltaUnica
    <3> QED BY <2>2, <3>1, Zenon
  <2> QED BY <2>3, Zenon
<1>3. Devolucion(Devolver(d.pcb, d.motivo)) = d
  <2>1. Devolucion(Devolver(d.pcb, d.motivo))
            = CHOOSE e \in Devueltos : Devoluciones[e] = Devolver(d.pcb, d.motivo)
    BY Zenon DEF Devolucion
  <2> QED BY <1>2, <2>1, Zenon
<1>4. Devolver(d.pcb, d.motivo) # <<>>
  <2>1. EsMensaje(Devolver(d.pcb, d.motivo), CamposDevuelta(d.pcb, d.motivo))
    BY <1>1, MensajeDevuelta
  <2>2. 0 < Len(CamposDevuelta(d.pcb, d.motivo))
    BY <1>1, LargoDevuelta
  <2> QED BY <2>1, <2>2, MensajeConAlgo
<1> QED BY <1>3, <1>4

-----------------------------------------------------------------------------
(* The round of a PCB, from the kernel to the CPU and back *)

CPUEnEspera == pcCPU = "recibir" /\ leidosCPU = <<>> /\ redACPU = <<>> /\ llegadoACPU = <<>>
NadaAlKernel == redAKernel = <<>> /\ llegadoAKernel = <<>>
ActualEsPCB == pcbActual \in PCBs \cup {Nulo}

\* The kernel has nothing in the CPU.
Libre ==
    /\ pcKernel = "ejecutar" /\ pcbKernel = Nulo /\ leidosKernel = <<>>
    /\ CPUEnEspera /\ NadaAlKernel /\ ActualEsPCB

\* p is on its way to the CPU, in part read already.
Yendo(p) ==
    /\ pcKernel = "recibirPCB" /\ pcbKernel = p /\ leidosKernel = <<>>
    /\ NadaAlKernel /\ pcCPU = "recibir" /\ ActualEsPCB
    /\ \E i \in Nat :
          Viaja(SerializarPCB(p), CamposPedido(p), i, leidosCPU, llegadoACPU, redACPU)

\* The CPU executes p.
Ejecutando(p) ==
    /\ pcKernel = "recibirPCB" /\ pcbKernel = p /\ leidosKernel = <<>>
    /\ NadaAlKernel
    /\ pcCPU = "responder" /\ pcbActual = p /\ leidosCPU = <<>>
    /\ redACPU = <<>> /\ llegadoACPU = <<>>

\* The answer d is on its way back: the kernel has read i fields of it.
VolviendoEn(d, i) ==
    /\ Viaja(Devolver(d.pcb, d.motivo), CamposDevuelta(d.pcb, d.motivo), i,
             leidosKernel, llegadoAKernel, redAKernel)
    /\ \/ i < Largura(d.pcb) /\ pcKernel = "recibirPCB" /\ pcbKernel \in PCBs
       \/ Largura(d.pcb) <= i /\ pcKernel = "recibirMotivo" /\ pcbKernel = d.pcb
Volviendo(d) == CPUEnEspera /\ ActualEsPCB /\ \E i \in Nat : VolviendoEn(d, i)

\* The kernel has d in full.
Recibida(d) ==
    /\ pcKernel = "liberar" /\ pcbKernel = d.pcb /\ MotivoLeido = d.motivo
    /\ \A k \in DOMAIN leidosKernel : EsUnCampo(leidosKernel[k])
    /\ NadaAlKernel /\ CPUEnEspera /\ ActualEsPCB

\* The inductive invariant.
IInv ==
    \/ Libre
    \/ \E p \in Programas : Yendo(p) \/ Ejecutando(p)
    \/ \E d \in Devueltos : Volviendo(d) \/ Recibida(d)

\* At the start the CPU waits, and nothing is on its way.
LEMMA InitLibre == Init => Libre
BY DEF Init, Libre, CPUEnEspera, NadaAlKernel, ActualEsPCB

\* The only step is the kernel's ejecutar.
LEMMA PasoLibre == Libre /\ Next => \E p \in Programas : Yendo(p)'
<1> SUFFICES ASSUME Libre, Next PROVE \E p \in Programas : Yendo(p)'
  OBVIOUS
<1>l. /\ pcKernel = "ejecutar" /\ pcbKernel = Nulo /\ leidosKernel = <<>>
      /\ pcCPU = "recibir" /\ leidosCPU = <<>> /\ redACPU = <<>> /\ llegadoACPU = <<>>
      /\ redAKernel = <<>> /\ llegadoAKernel = <<>> /\ ActualEsPCB
  BY Zenon DEF Libre, CPUEnEspera, NadaAlKernel
<1>1. CASE EjecutarProceso
  <2>1. PICK p \in Programas : pcbKernel' = p /\ redACPU' = redACPU \o SerializarPCB(p)
    BY <1>1, Zenon DEF EjecutarProceso
  <2>2. /\ pcKernel' = "recibirPCB" /\ leidosKernel' = <<>> /\ pcCPU' = "recibir"
        /\ pcbActual' = pcbActual /\ leidosCPU' = <<>> /\ llegadoACPU' = <<>>
        /\ redAKernel' = <<>> /\ llegadoAKernel' = <<>>
    BY <1>l, <1>1, Zenon DEF EjecutarProceso, cpu, haciaKernel
  <2>3. p \in PCBs
    BY Tipos
  <2>4. EsMensaje(SerializarPCB(p), CamposPedido(p)) /\ Len(CamposPedido(p)) = Largura(p)
    BY <2>3, MensajePedido
  <2>5. 0 < Largura(p)
    BY <2>3, TiposPCB
  <2>6. redACPU' = SerializarPCB(p)
    <3>1. PICK m : m = SerializarPCB(p)
      BY Zenon
    <3>2. m \in BytesT
      BY <2>4, <3>1, Zenon DEF EsMensaje
    <3>3. <<>> \o m = m
      BY <3>2 DEF BytesT
    <3> QED BY <1>l, <2>1, <3>1, <3>3, Zenon
  <2>7. Viaja(SerializarPCB(p), CamposPedido(p), 0, leidosCPU', llegadoACPU', redACPU')
    BY <2>2, <2>4, <2>5, <2>6, ViajaEmpieza, Zenon
  <2>8. ActualEsPCB'
    BY <1>l, <2>2, Zenon DEF ActualEsPCB
  <2>9. 0 \in Nat
    OBVIOUS
  <2> QED BY <2>1, <2>2, <2>7, <2>8, <2>9, Zenon DEF Yendo, NadaAlKernel
<1>2. ~RecibirCampo /\ ~RecibirMotivo /\ ~Liberar
  BY <1>l DEF RecibirCampo, RecibirMotivo, Liberar
<1>3. ~RecibirCampoCPU
  BY <1>l, NadaAlcanza, Zenon DEF RecibirCampoCPU
<1>4. ~Responder
  BY <1>l DEF Responder
<1>5. ~EntregarACPU /\ ~EntregarAKernel
  BY <1>l, Zenon DEF EntregarACPU, EntregarAKernel
<1> QED BY <1>1, <1>2, <1>3, <1>4, <1>5, Zenon DEF Next

\* With a process on its way to the CPU, a byte is delivered or the CPU reads a
\* field; after the last one it has the process the kernel sent.
LEMMA PasoYendo ==
    ASSUME NEW p \in Programas, Yendo(p), Next
    PROVE  Yendo(p)' \/ Ejecutando(p)'
<1>l. /\ pcKernel = "recibirPCB" /\ pcbKernel = p /\ leidosKernel = <<>>
      /\ redAKernel = <<>> /\ llegadoAKernel = <<>> /\ pcCPU = "recibir" /\ ActualEsPCB
  BY Zenon DEF Yendo, NadaAlKernel
<1>m. PICK m, c : m = SerializarPCB(p) /\ c = CamposPedido(p)
  BY Zenon
<1>v. PICK i \in Nat : Viaja(m, c, i, leidosCPU, llegadoACPU, redACPU)
  BY <1>m, Zenon DEF Yendo
<1>c. p \in PCBs /\ Lleva(c, p) /\ Len(c) = Largura(p)
  BY <1>m, Tipos, MensajePedido, Zenon
<1>i. i < Largura(p)
  BY <1>c, <1>v, Zenon DEF Viaja
<1>1. CASE RecibirCampoCPU
  <2>1. PICK n : n = BytesDelProximo(Valores(leidosCPU))
    BY Zenon
  <2>2. PICK l : l = Append(leidosCPU, Primeros(llegadoACPU, n))
    BY Zenon
  <2>3. /\ Alcanza(llegadoACPU, n) /\ llegadoACPU' = Resto(llegadoACPU, n)
        /\ PCBCompleto(Valores(l)) =>
              pcbActual' = PCBLeido(Valores(l)) /\ leidosCPU' = <<>> /\ pcCPU' = "responder"
        /\ ~PCBCompleto(Valores(l)) =>
              leidosCPU' = l /\ pcbActual' = pcbActual /\ pcCPU' = pcCPU
    BY <1>1, <2>1, <2>2, Zenon DEF RecibirCampoCPU
  <2>4. /\ pcKernel' = pcKernel /\ pcbKernel' = pcbKernel /\ leidosKernel' = leidosKernel
        /\ redACPU' = redACPU /\ redAKernel' = redAKernel /\ llegadoAKernel' = llegadoAKernel
    BY <1>1, Zenon DEF RecibirCampoCPU, kernel, haciaKernel
  <2>5. LeyoPCB(m, c, p, i, l, Resto(llegadoACPU, n), redACPU)
    BY <1>c, <1>i, <1>v, <2>1, <2>2, <2>3, RecvDelPCB, Zenon
  <2>6. /\ i + 1 \in Nat /\ i + 1 <= Largura(p)
        /\ i + 1 < Len(c) => Viaja(m, c, i + 1, l, llegadoACPU', redACPU')
        /\ i + 1 = Len(c) => llegadoACPU' = <<>> /\ redACPU' = <<>>
        /\ PCBCompleto(Valores(l)) <=> i + 1 = Largura(p)
        /\ i + 1 = Largura(p) => PCBLeido(Valores(l)) = p
    BY <2>3, <2>4, <2>5, Zenon DEF LeyoPCB, Avanza
  <2>7. Largura(p) \in Nat
    BY <1>c, TiposPCB
  <2>8. i + 1 < Largura(p) \/ i + 1 = Largura(p)
    BY <2>6, <2>7
  <2>9. i + 1 < Largura(p) => i + 1 # Largura(p)
    BY <2>6, <2>7
  <2>10. CASE i + 1 < Largura(p)
    <3>1. Viaja(m, c, i + 1, leidosCPU', llegadoACPU', redACPU') /\ ActualEsPCB' /\ pcCPU' = "recibir"
      BY <1>c, <1>l, <2>3, <2>6, <2>9, <2>10, Zenon DEF ActualEsPCB
    <3>2. Yendo(p)'
      BY <1>l, <1>m, <2>4, <2>6, <3>1, Zenon DEF Yendo, NadaAlKernel
    <3> QED BY <3>2
  <2>11. CASE i + 1 = Largura(p)
    <3>1. /\ pcbActual' = p /\ leidosCPU' = <<>> /\ pcCPU' = "responder"
          /\ llegadoACPU' = <<>> /\ redACPU' = <<>>
      BY <1>c, <2>3, <2>6, <2>11, Zenon
    <3>2. Ejecutando(p)'
      BY <1>l, <2>4, <3>1, Zenon DEF Ejecutando, NadaAlKernel
    <3> QED BY <3>2
  <2> QED BY <2>8, <2>10, <2>11, Zenon
<1>2. CASE EntregarACPU
  <2>1. /\ redACPU # <<>>
        /\ llegadoACPU' = Append(llegadoACPU, Head(redACPU)) /\ redACPU' = Tail(redACPU)
        /\ pcKernel' = pcKernel /\ pcbKernel' = pcbKernel /\ leidosKernel' = leidosKernel
        /\ pcCPU' = pcCPU /\ pcbActual' = pcbActual /\ leidosCPU' = leidosCPU
        /\ redAKernel' = redAKernel /\ llegadoAKernel' = llegadoAKernel
    BY <1>2, Zenon DEF EntregarACPU, kernel, cpu, haciaKernel
  <2>2. Viaja(m, c, i, leidosCPU', llegadoACPU', redACPU')
    BY <1>v, <2>1, ViajaEntrega, Zenon
  <2>3. Yendo(p)'
    BY <1>l, <1>m, <2>1, <2>2, Zenon DEF Yendo, NadaAlKernel, ActualEsPCB
  <2> QED BY <2>3
<1>3. ~EjecutarProceso /\ ~RecibirMotivo /\ ~Liberar /\ ~Responder
  BY <1>l DEF EjecutarProceso, RecibirMotivo, Liberar, Responder
<1>4. ~RecibirCampo
  BY <1>l, NadaAlcanza, Zenon DEF RecibirCampo
<1>5. ~EntregarAKernel
  BY <1>l, Zenon DEF EntregarAKernel
<1> QED BY <1>1, <1>2, <1>3, <1>4, <1>5, Zenon DEF Next

\* The CPU answers with the process, under its own pid, and some reason.
LEMMA PasoEjecutando ==
    ASSUME NEW p \in Programas, Ejecutando(p), Next
    PROVE  \E r \in Respuestas :
              /\ [pcb |-> [p EXCEPT !.pid = PidDeLaCPU], motivo |-> r] \in Devueltos
              /\ Volviendo([pcb |-> [p EXCEPT !.pid = PidDeLaCPU], motivo |-> r])'
<1>l. /\ pcKernel = "recibirPCB" /\ pcbKernel = p /\ leidosKernel = <<>>
      /\ redAKernel = <<>> /\ llegadoAKernel = <<>>
      /\ pcCPU = "responder" /\ pcbActual = p /\ leidosCPU = <<>>
      /\ redACPU = <<>> /\ llegadoACPU = <<>>
  BY Zenon DEF Ejecutando, NadaAlKernel
<1>1. CASE Responder
  <2>1. PICK q : q = [p EXCEPT !.pid = PidDeLaCPU]
    BY Zenon
  <2>2. PICK r \in Respuestas : redAKernel' = redAKernel \o Devolver(pcbActual', r)
    BY <1>1, Zenon DEF Responder
  <2>3. /\ pcbActual' = q /\ pcCPU' = "recibir" /\ leidosCPU' = <<>>
        /\ redACPU' = <<>> /\ llegadoACPU' = <<>> /\ llegadoAKernel' = <<>>
        /\ pcKernel' = "recibirPCB" /\ pcbKernel' = p /\ leidosKernel' = <<>>
    BY <1>l, <1>1, <2>1, Zenon DEF Responder, kernel, haciaCPU
  <2>4. PICK d : d = [pcb |-> q, motivo |-> r]
    BY Zenon
  <2>5. d \in Devueltos
    BY <2>1, <2>4 DEF Devueltos
  <2>6. d.pcb = q /\ d.motivo = r
    BY <2>4
  <2>7. q \in PCBs /\ EsRetorno(r) /\ p \in PCBs
    BY <2>5, <2>6, Tipos, Zenon
  <2>8. PICK m, c : m = Devolver(q, r) /\ c = CamposDevuelta(q, r)
    BY Zenon
  <2>9. EsMensaje(m, c) /\ 0 < Len(c)
    BY <2>7, <2>8, MensajeDevuelta, LargoDevuelta, Zenon
  <2>10. redAKernel' = m
    <3>1. m \in BytesT
      BY <2>9, Zenon DEF EsMensaje
    <3>2. <<>> \o m = m
      BY <3>1 DEF BytesT
    <3> QED BY <1>l, <2>2, <2>3, <2>8, <3>2, Zenon
  <2>11. Viaja(m, c, 0, leidosKernel', llegadoAKernel', redAKernel')
    BY <2>3, <2>9, <2>10, ViajaEmpieza, Zenon
  <2>12. 0 < Largura(q) /\ 0 \in Nat
    <3>1. q \in PCBs
      BY <2>7, Zenon
    <3> QED BY <3>1, TiposPCB
  <2>13. VolviendoEn(d, 0)'
    BY <2>3, <2>6, <2>7, <2>8, <2>11, <2>12, Zenon DEF VolviendoEn
  <2>14. CPUEnEspera' /\ ActualEsPCB'
    BY <2>3, <2>7, Zenon DEF CPUEnEspera, ActualEsPCB
  <2>15. Volviendo(d)'
    BY <2>12, <2>13, <2>14, Zenon DEF Volviendo
  <2> QED BY <2>1, <2>4, <2>5, <2>15, Zenon
<1>2. ~EjecutarProceso /\ ~RecibirMotivo /\ ~Liberar /\ ~RecibirCampoCPU
  BY <1>l DEF EjecutarProceso, RecibirMotivo, Liberar, RecibirCampoCPU
<1>3. ~RecibirCampo
  BY <1>l, NadaAlcanza, Zenon DEF RecibirCampo
<1>4. ~EntregarACPU /\ ~EntregarAKernel
  BY <1>l, Zenon DEF EntregarACPU, EntregarAKernel
<1> QED BY <1>1, <1>2, <1>3, <1>4, Zenon DEF Next

\* With the answer on its way, a byte is delivered or the kernel reads a field;
\* after the last one it has the process and the reason the CPU sent.
LEMMA PasoVolviendo ==
    ASSUME NEW d \in Devueltos, Volviendo(d), Next
    PROVE  Volviendo(d)' \/ Recibida(d)'
<1>a. PICK p, r, m, c : /\ p = d.pcb /\ r = d.motivo /\ m = Devolver(p, r)
                        /\ c = CamposDevuelta(p, r)
  BY Zenon
<1>b. p \in PCBs /\ EsRetorno(r) /\ Lleva(c, p) /\ Largura(p) < Len(c)
  BY <1>a, Tipos, LugaresDevuelta, LargoDevuelta, Zenon
<1>l. /\ pcCPU = "recibir" /\ leidosCPU = <<>> /\ redACPU = <<>> /\ llegadoACPU = <<>>
      /\ ActualEsPCB
  BY Zenon DEF Volviendo, CPUEnEspera
<1>i. PICK i \in Nat : VolviendoEn(d, i)
  BY Zenon DEF Volviendo
<1>v. /\ Viaja(m, c, i, leidosKernel, llegadoAKernel, redAKernel)
      /\ \/ i < Largura(p) /\ pcKernel = "recibirPCB" /\ pcbKernel \in PCBs
         \/ Largura(p) <= i /\ pcKernel = "recibirMotivo" /\ pcbKernel = p
  BY <1>a, <1>i, Zenon DEF VolviendoEn
<1>n. Largura(p) \in Nat /\ Len(c) \in Nat
  BY <1>b, TiposPCB DEF Lleva
<1>1. CASE RecibirCampo
  <2>1. PICK n : n = BytesDelProximo(Valores(leidosKernel))
    BY Zenon
  <2>2. PICK l : l = Append(leidosKernel, Primeros(llegadoAKernel, n))
    BY Zenon
  <2>3. /\ pcKernel = "recibirPCB"
        /\ Alcanza(llegadoAKernel, n) /\ llegadoAKernel' = Resto(llegadoAKernel, n)
        /\ leidosKernel' = l
        /\ PCBCompleto(Valores(l)) =>
              pcbKernel' = PCBLeido(Valores(l)) /\ pcKernel' = "recibirMotivo"
        /\ ~PCBCompleto(Valores(l)) => pcbKernel' = pcbKernel /\ pcKernel' = pcKernel
    BY <1>1, <2>1, <2>2, Zenon DEF RecibirCampo
  <2>4. /\ pcCPU' = pcCPU /\ pcbActual' = pcbActual /\ leidosCPU' = leidosCPU
        /\ redACPU' = redACPU /\ llegadoACPU' = llegadoACPU /\ redAKernel' = redAKernel
    BY <1>1, Zenon DEF RecibirCampo, cpu, haciaCPU
  <2>5. i < Largura(p) /\ pcbKernel \in PCBs
    BY <1>v, <2>3
  <2>6. LeyoPCB(m, c, p, i, l, Resto(llegadoAKernel, n), redAKernel)
    BY <1>b, <1>v, <2>1, <2>2, <2>3, <2>5, RecvDelPCB, Zenon
  <2>7. /\ i + 1 \in Nat /\ i + 1 <= Largura(p)
        /\ i + 1 < Len(c) => Viaja(m, c, i + 1, l, llegadoAKernel', redAKernel')
        /\ PCBCompleto(Valores(l)) <=> i + 1 = Largura(p)
        /\ i + 1 = Largura(p) => PCBLeido(Valores(l)) = p
    BY <2>3, <2>4, <2>6, Zenon DEF LeyoPCB, Avanza
  <2>8. /\ i + 1 < Len(c)
        /\ \/ i + 1 < Largura(p) /\ i + 1 # Largura(p)
           \/ i + 1 = Largura(p) /\ Largura(p) <= i + 1
    BY <1>b, <1>n, <2>7
  <2>9. VolviendoEn(d, i + 1)'
    <3>1. Viaja(m, c, i + 1, leidosKernel', llegadoAKernel', redAKernel')
      BY <2>3, <2>7, <2>8, Zenon
    <3>2. \/ i + 1 < Largura(p) /\ pcKernel' = "recibirPCB" /\ pcbKernel' \in PCBs
          \/ Largura(p) <= i + 1 /\ pcKernel' = "recibirMotivo" /\ pcbKernel' = p
      BY <2>3, <2>5, <2>7, <2>8, Zenon
    <3> QED BY <1>a, <3>1, <3>2, Zenon DEF VolviendoEn
  <2>10. CPUEnEspera' /\ ActualEsPCB'
    BY <1>l, <2>4, Zenon DEF CPUEnEspera, ActualEsPCB
  <2> QED BY <2>7, <2>9, <2>10, Zenon DEF Volviendo
<1>2. CASE RecibirMotivo
  <2>1. PICK n : n = BytesDelMotivo(TrasPCB(Valores(leidosKernel)))
    BY Zenon
  <2>2. PICK l : l = Append(leidosKernel, Primeros(llegadoAKernel, n))
    BY Zenon
  <2>3. /\ pcKernel = "recibirMotivo"
        /\ Alcanza(llegadoAKernel, n) /\ llegadoAKernel' = Resto(llegadoAKernel, n)
        /\ leidosKernel' = l
        /\ pcKernel' = IF MotivoCompleto(TrasPCB(Valores(l))) THEN "liberar" ELSE "recibirMotivo"
    BY <1>2, <2>1, <2>2, Zenon DEF RecibirMotivo
  <2>4. /\ pcCPU' = pcCPU /\ pcbActual' = pcbActual /\ leidosCPU' = leidosCPU
        /\ redACPU' = redACPU /\ llegadoACPU' = llegadoACPU /\ redAKernel' = redAKernel
        /\ pcbKernel' = pcbKernel
    BY <1>2, Zenon DEF RecibirMotivo, cpu, haciaCPU
  <2>5. Largura(p) <= i /\ pcbKernel = p
    BY <1>v, <2>3
  <2>6. LeyoMotivo(m, c, r, i, l, Resto(llegadoAKernel, n), redAKernel)
    BY <1>a, <1>b, <1>v, <2>1, <2>2, <2>3, <2>5, RecvDelMotivo, Zenon
  <2>7. /\ i + 1 \in Nat /\ i + 1 <= Len(c) /\ Va(m, c, i + 1, l, llegadoAKernel' \o redAKernel')
        /\ i + 1 < Len(c) => Viaja(m, c, i + 1, l, llegadoAKernel', redAKernel')
        /\ i + 1 = Len(c) => llegadoAKernel' = <<>> /\ redAKernel' = <<>>
        /\ MotivoCompleto(TrasPCB(Valores(l))) <=> i + 1 = Len(c)
        /\ i + 1 = Len(c) => MotivoDe(TrasPCB(Valores(l))) = r
    BY <2>3, <2>4, <2>6, Zenon DEF LeyoMotivo, Avanza
  <2>8. CPUEnEspera' /\ ActualEsPCB'
    BY <1>l, <2>4, Zenon DEF CPUEnEspera, ActualEsPCB
  <2>9. Largura(p) <= i + 1 /\ ((i + 1 < Len(c) /\ i + 1 # Len(c)) \/ i + 1 = Len(c))
    BY <1>n, <2>5, <2>7
  <2>10. CASE i + 1 < Len(c) /\ i + 1 # Len(c)
    <3>1. Viaja(m, c, i + 1, leidosKernel', llegadoAKernel', redAKernel')
      BY <2>3, <2>7, <2>10, Zenon
    <3>2. pcKernel' = "recibirMotivo" /\ pcbKernel' = p
      BY <2>3, <2>4, <2>5, <2>7, <2>10, Zenon
    <3>3. VolviendoEn(d, i + 1)'
      BY <1>a, <2>9, <3>1, <3>2, Zenon DEF VolviendoEn
    <3> QED BY <2>7, <2>8, <3>3, Zenon DEF Volviendo
  <2>11. CASE i + 1 = Len(c)
    <3>1. pcKernel' = "liberar" /\ pcbKernel' = p /\ llegadoAKernel' = <<>> /\ redAKernel' = <<>>
      BY <2>3, <2>4, <2>5, <2>7, <2>11, Zenon
    <3>2. \A k \in DOMAIN l : EsUnCampo(l[k])
      BY <2>7, VaValores, Zenon
    <3>3. MotivoLeido' = r
      <4>1. MotivoDe(TrasPCB(Valores(l))) = r
        BY <2>7, <2>11, Zenon
      <4>2. MotivoDe(TrasPCB(Valores(leidosKernel'))) = r
        BY <2>3, <4>1, Zenon
      <4>3. MotivoLeido' = MotivoDe(TrasPCB(Valores(leidosKernel')))
        BY Zenon DEF MotivoLeido, MotivoDe
      <4> QED BY <4>2, <4>3, Zenon
    <3> QED BY <1>a, <2>3, <2>8, <3>1, <3>2, <3>3, Zenon DEF Recibida, NadaAlKernel
  <2> QED BY <2>9, <2>10, <2>11, Zenon
<1>3. CASE EntregarAKernel
  <2>1. /\ redAKernel # <<>>
        /\ llegadoAKernel' = Append(llegadoAKernel, Head(redAKernel))
        /\ redAKernel' = Tail(redAKernel)
        /\ pcKernel' = pcKernel /\ pcbKernel' = pcbKernel /\ leidosKernel' = leidosKernel
        /\ pcCPU' = pcCPU /\ pcbActual' = pcbActual /\ leidosCPU' = leidosCPU
        /\ redACPU' = redACPU /\ llegadoACPU' = llegadoACPU
    BY <1>3, Zenon DEF EntregarAKernel, kernel, cpu, haciaCPU
  <2>2. Viaja(m, c, i, leidosKernel', llegadoAKernel', redAKernel')
    BY <1>v, <2>1, ViajaEntrega, Zenon
  <2>3. VolviendoEn(d, i)'
    BY <1>a, <1>v, <2>1, <2>2, Zenon DEF VolviendoEn
  <2> QED BY <1>l, <2>1, <2>3, Zenon DEF Volviendo, CPUEnEspera, ActualEsPCB
<1>4. ~EjecutarProceso /\ ~Liberar /\ ~Responder
  <2>1. pcKernel = "recibirPCB" \/ pcKernel = "recibirMotivo"
    BY <1>v, Zenon
  <2> QED BY <1>l, <2>1 DEF EjecutarProceso, Liberar, Responder
<1>5. ~RecibirCampoCPU
  BY <1>l, NadaAlcanza, Zenon DEF RecibirCampoCPU
<1>6. ~EntregarACPU
  BY <1>l, Zenon DEF EntregarACPU
<1> QED BY <1>1, <1>2, <1>3, <1>4, <1>5, <1>6, Zenon DEF Next

\* The kernel lets the answer go and is free again.
LEMMA PasoRecibida ==
    ASSUME NEW d \in Devueltos, Recibida(d), Next
    PROVE  Libre'
<1>l. /\ pcKernel = "liberar" /\ pcbKernel = d.pcb
      /\ redAKernel = <<>> /\ llegadoAKernel = <<>>
      /\ pcCPU = "recibir" /\ leidosCPU = <<>> /\ redACPU = <<>> /\ llegadoACPU = <<>>
      /\ ActualEsPCB
  BY Zenon DEF Recibida, NadaAlKernel, CPUEnEspera
<1>1. CASE Liberar
  BY <1>l, <1>1, Zenon DEF Liberar, Libre, cpu, haciaCPU, haciaKernel, NadaAlKernel, CPUEnEspera,
                           ActualEsPCB
<1>2. ~EjecutarProceso /\ ~RecibirCampo /\ ~RecibirMotivo /\ ~Responder
  BY <1>l DEF EjecutarProceso, RecibirCampo, RecibirMotivo, Responder
<1>3. ~RecibirCampoCPU
  BY <1>l, NadaAlcanza, Zenon DEF RecibirCampoCPU
<1>4. ~EntregarACPU /\ ~EntregarAKernel
  BY <1>l, Zenon DEF EntregarACPU, EntregarAKernel
<1> QED BY <1>1, <1>2, <1>3, <1>4, Zenon DEF Next

\* The invariant holds at the start.
LEMMA IInvInicial == Init => IInv
BY InitLibre, Zenon DEF IInv

\* Every step keeps the invariant: each phase goes on or turns into the next.
LEMMA IInvPaso == IInv /\ [Next]_vars => IInv'
<1> SUFFICES ASSUME IInv, [Next]_vars PROVE IInv'
  OBVIOUS
<1>1. CASE Next
  <2>1. CASE Libre
    BY <1>1, <2>1, PasoLibre, Zenon DEF IInv
  <2>2. ASSUME NEW p \in Programas, Yendo(p) PROVE IInv'
    BY <1>1, <2>2, PasoYendo, Zenon DEF IInv
  <2>3. ASSUME NEW p \in Programas, Ejecutando(p) PROVE IInv'
    BY <1>1, <2>3, PasoEjecutando, Zenon DEF IInv
  <2>4. ASSUME NEW d \in Devueltos, Volviendo(d) PROVE IInv'
    BY <1>1, <2>4, PasoVolviendo, Zenon DEF IInv
  <2>5. ASSUME NEW d \in Devueltos, Recibida(d) PROVE IInv'
    BY <1>1, <2>5, PasoRecibida, Zenon DEF IInv
  <2> QED BY <2>1, <2>2, <2>3, <2>4, <2>5, Zenon DEF IInv
<1>2. CASE UNCHANGED vars
  <2>1. /\ pcKernel' = pcKernel /\ pcbKernel' = pcbKernel /\ leidosKernel' = leidosKernel
        /\ pcCPU' = pcCPU /\ pcbActual' = pcbActual /\ leidosCPU' = leidosCPU
        /\ redACPU' = redACPU /\ llegadoACPU' = llegadoACPU
        /\ redAKernel' = redAKernel /\ llegadoAKernel' = llegadoAKernel
    BY <1>2, Zenon DEF vars, kernel, cpu, haciaCPU, haciaKernel
  <2>2. CPUEnEspera' = CPUEnEspera /\ NadaAlKernel' = NadaAlKernel /\ ActualEsPCB' = ActualEsPCB
    BY <2>1, Zenon DEF CPUEnEspera, NadaAlKernel, ActualEsPCB
  <2>3. MotivoLeido' = MotivoLeido
    BY <2>1, Zenon DEF MotivoLeido
  <2>4. CASE Libre
    <3>1. Libre'
      BY <2>1, <2>2, <2>4, Zenon DEF Libre
    <3> QED BY <3>1, Zenon DEF IInv
  <2>5. ASSUME NEW p \in Programas, Yendo(p) PROVE IInv'
    <3>1. Yendo(p)'
      BY <2>1, <2>2, <2>5, Zenon DEF Yendo
    <3> QED BY <3>1, Zenon DEF IInv
  <2>6. ASSUME NEW p \in Programas, Ejecutando(p) PROVE IInv'
    <3>1. Ejecutando(p)'
      BY <2>1, <2>2, <2>6, Zenon DEF Ejecutando
    <3> QED BY <3>1, Zenon DEF IInv
  <2>7. ASSUME NEW d \in Devueltos, Volviendo(d) PROVE IInv'
    <3>1. Volviendo(d)'
      BY <2>1, <2>2, <2>7, Zenon DEF Volviendo, VolviendoEn
    <3> QED BY <3>1, Zenon DEF IInv
  <2>8. ASSUME NEW d \in Devueltos, Recibida(d) PROVE IInv'
    <3>1. Recibida(d)'
      BY <2>1, <2>2, <2>3, <2>8, Zenon DEF Recibida
    <3> QED BY <3>1, Zenon DEF IInv
  <2> QED BY <2>4, <2>5, <2>6, <2>7, <2>8, Zenon DEF IInv
<1> QED BY <1>1, <1>2

\* The kernel and the CPU, with the network between them, go round five phases,
\* for every program, every reason and every way the bytes are delivered: the
\* kernel has nothing in the CPU, its process goes, the CPU executes it, the
\* answer returns, the kernel has it.
THEOREM InvarianteDelFlujo == Spec => []IInv
<1> QED BY IInvInicial, IInvPaso, PTL DEF Spec

\* The invariant is strong enough for what the run checks.
LEMMA EnterosLosDos ==
    ASSUME IInv
    PROVE  CamposEnteros /\ SinSobrantes /\ TypeOK
<1>v. /\ \A k \in DOMAIN <<>> : EsUnCampo(<<>>[k])
      /\ <<>> \o <<>> = <<>>
  OBVIOUS
<1>1. CASE Libre
  <2>1. /\ pcKernel = "ejecutar" /\ pcbKernel = Nulo /\ leidosKernel = <<>>
        /\ pcCPU = "recibir" /\ leidosCPU = <<>>
        /\ redAKernel = <<>> /\ llegadoAKernel = <<>> /\ pcbActual \in PCBs \cup {Nulo}
    BY <1>1, Zenon DEF Libre, CPUEnEspera, NadaAlKernel, ActualEsPCB
  <2>2. CamposEnteros
    BY <1>v, <2>1, Zenon DEF CamposEnteros
  <2>3. SinSobrantes
    BY <2>1 DEF SinSobrantes
  <2>4. TypeOK
    BY <2>1 DEF TypeOK
  <2> QED BY <2>2, <2>3, <2>4
<1>2. ASSUME NEW p \in Programas, Yendo(p) PROVE CamposEnteros /\ SinSobrantes /\ TypeOK
  <2>1. /\ pcKernel = "recibirPCB" /\ pcbKernel = p /\ leidosKernel = <<>>
        /\ pcCPU = "recibir" /\ pcbActual \in PCBs \cup {Nulo}
    BY <1>2, Zenon DEF Yendo, ActualEsPCB
  <2>2. PICK i \in Nat :
            Viaja(SerializarPCB(p), CamposPedido(p), i, leidosCPU, llegadoACPU, redACPU)
    BY <1>2, Zenon DEF Yendo
  <2>3. CamposEnteros
    <3>1. \A k \in DOMAIN leidosCPU : EsUnCampo(leidosCPU[k])
      BY <2>2, ViajaTodo, Zenon
    <3> QED BY <1>v, <2>1, <3>1, Zenon DEF CamposEnteros
  <2>4. SinSobrantes
    BY <2>1 DEF SinSobrantes
  <2>5. p \in PCBs
    BY Tipos
  <2>6. TypeOK
    BY <2>1, <2>5 DEF TypeOK
  <2> QED BY <2>3, <2>4, <2>6
<1>3. ASSUME NEW p \in Programas, Ejecutando(p) PROVE CamposEnteros /\ SinSobrantes /\ TypeOK
  <2>1. /\ pcKernel = "recibirPCB" /\ pcbKernel = p /\ leidosKernel = <<>>
        /\ pcCPU = "responder" /\ pcbActual = p /\ leidosCPU = <<>>
        /\ redACPU = <<>> /\ llegadoACPU = <<>>
    BY <1>3, Zenon DEF Ejecutando
  <2>2. CamposEnteros
    BY <1>v, <2>1, Zenon DEF CamposEnteros
  <2>3. SinSobrantes
    BY <2>1 DEF SinSobrantes
  <2>4. p \in PCBs
    BY Tipos
  <2>5. TypeOK
    BY <2>1, <2>4 DEF TypeOK
  <2> QED BY <2>2, <2>3, <2>5
<1>4. ASSUME NEW d \in Devueltos, Volviendo(d) PROVE CamposEnteros /\ SinSobrantes /\ TypeOK
  <2>1. d.pcb \in PCBs
    BY Tipos
  <2>2. pcCPU = "recibir" /\ leidosCPU = <<>> /\ pcbActual \in PCBs \cup {Nulo}
    BY <1>4, Zenon DEF Volviendo, CPUEnEspera, ActualEsPCB
  <2>3. PICK i \in Nat : VolviendoEn(d, i)
    BY <1>4, Zenon DEF Volviendo
  <2>4. \A k \in DOMAIN leidosKernel : EsUnCampo(leidosKernel[k])
    BY <2>3, ViajaTodo, Zenon DEF VolviendoEn
  <2>5. pcKernel \in {"recibirPCB", "recibirMotivo"} /\ pcbKernel \in PCBs
    BY <2>1, <2>3, Zenon DEF VolviendoEn
  <2>6. CamposEnteros
    BY <1>v, <2>2, <2>4, Zenon DEF CamposEnteros
  <2>7. SinSobrantes
    BY <2>2, <2>5 DEF SinSobrantes
  <2>8. TypeOK
    BY <2>2, <2>5 DEF TypeOK
  <2> QED BY <2>6, <2>7, <2>8
<1>5. ASSUME NEW d \in Devueltos, Recibida(d) PROVE CamposEnteros /\ SinSobrantes /\ TypeOK
  <2>1. /\ pcKernel = "liberar" /\ pcbKernel = d.pcb
        /\ pcCPU = "recibir" /\ leidosCPU = <<>> /\ pcbActual \in PCBs \cup {Nulo}
        /\ redAKernel = <<>> /\ llegadoAKernel = <<>>
        /\ \A k \in DOMAIN leidosKernel : EsUnCampo(leidosKernel[k])
    BY <1>5, Zenon DEF Recibida, CPUEnEspera, NadaAlKernel, ActualEsPCB
  <2>2. CamposEnteros
    BY <1>v, <2>1, Zenon DEF CamposEnteros
  <2>3. SinSobrantes
    BY <1>v, <2>1, Zenon DEF SinSobrantes
  <2>4. d.pcb \in PCBs
    BY Tipos
  <2>5. TypeOK
    BY <2>1, <2>4 DEF TypeOK
  <2> QED BY <2>2, <2>3, <2>5
<1> QED BY <1>1, <1>2, <1>3, <1>4, <1>5, Zenon DEF IInv

\* Type correctness of both readers and of both directions of the socket.
THEOREM TipoDelFlujo == Spec => []TypeOK
<1>1. IInv => TypeOK
  BY EnterosLosDos
<1> QED BY <1>1, InvarianteDelFlujo, PTL

\* CamposEnteros: no recv ever returns bytes of two fields, nor part of one,
\* whatever the lists in the PCB and however the bytes come: deserializarPCB and
\* recibirPCB_Dispatch always ask for the width serializarPCB wrote.
THEOREM CamposSiempreEnteros == Spec => []CamposEnteros
<1>1. IInv => CamposEnteros
  BY EnterosLosDos
<1> QED BY <1>1, InvarianteDelFlujo, PTL

\* SinSobrantes: a message read in full leaves no byte in the socket, so the
\* next one is read from its first byte.
THEOREM NuncaSobra == Spec => []SinSobrantes
<1>1. IInv => SinSobrantes
  BY EnterosLosDos
<1> QED BY <1>1, InvarianteDelFlujo, PTL

-----------------------------------------------------------------------------
(* Dispatch *)

\* What the two processes mean to Dispatch.
EnCPU ==
    IF pcCPU = "responder" THEN pcbActual
    ELSE IF BytesACPU = <<>> THEN Nulo ELSE Mensaje(BytesACPU)
Devuelto == IF BytesAKernel = <<>> THEN Nulo ELSE Devolucion(BytesAKernel)
EnElKernel ==
    IF pcKernel = "liberar" THEN [pcb |-> pcbKernel, motivo |-> MotivoLeido] ELSE Nulo

\* Nothing read, nothing delivered and nothing on its way are no bytes.
LEMMA Vacia == Concatenar(<<>>) \o <<>> \o <<>> = <<>> /\ <<>> \o <<>> \o <<>> = <<>>
<1>1. Concatenar(<<>>) = <<>>
  BY ConcatenarVacia DEF Concatenar
<1>2. <<>> \o <<>> \o <<>> = <<>>
  OBVIOUS
<1> QED BY <1>1, <1>2, Zenon

\* What Dispatch sees when the kernel has nothing in the CPU: nobody.
LEMMA VistaLibre == Libre => EnCPU = Nulo /\ Devuelto = Nulo /\ EnElKernel = Nulo
<1> SUFFICES ASSUME Libre PROVE EnCPU = Nulo /\ Devuelto = Nulo /\ EnElKernel = Nulo
  OBVIOUS
<1>1. /\ pcKernel = "ejecutar" /\ leidosCPU = <<>> /\ pcCPU = "recibir"
      /\ redACPU = <<>> /\ llegadoACPU = <<>> /\ redAKernel = <<>> /\ llegadoAKernel = <<>>
  BY Zenon DEF Libre, CPUEnEspera, NadaAlKernel
<1>2. BytesACPU = <<>>
  BY <1>1, Vacia, Zenon DEF BytesACPU
<1>3. pcKernel \notin {"recibirPCB", "recibirMotivo"} /\ pcKernel # "liberar" /\ pcCPU # "responder"
  BY <1>1
<1>4. BytesAKernel = <<>>
  BY <1>1, <1>3, Vacia, Zenon DEF BytesAKernel
<1> QED BY <1>2, <1>3, <1>4, Zenon DEF EnCPU, Devuelto, EnElKernel

\* When a process goes, Dispatch has it in the CPU already.
LEMMA VistaYendo ==
    \A p \in Programas : Yendo(p) => EnCPU = p /\ Devuelto = Nulo /\ EnElKernel = Nulo
<1> SUFFICES ASSUME NEW p \in Programas, Yendo(p)
             PROVE  EnCPU = p /\ Devuelto = Nulo /\ EnElKernel = Nulo
  OBVIOUS
<1>1. /\ pcKernel = "recibirPCB" /\ leidosKernel = <<>> /\ pcCPU = "recibir"
      /\ redAKernel = <<>> /\ llegadoAKernel = <<>>
  BY Zenon DEF Yendo, NadaAlKernel
<1>2. BytesACPU = SerializarPCB(p)
  <2>1. PICK i \in Nat :
            Viaja(SerializarPCB(p), CamposPedido(p), i, leidosCPU, llegadoACPU, redACPU)
    BY Zenon DEF Yendo
  <2>2. Concatenar(leidosCPU) \o llegadoACPU \o redACPU = SerializarPCB(p)
    BY <2>1, ViajaTodo
  <2> QED BY <2>2, Zenon DEF BytesACPU
<1>3. BytesAKernel = <<>>
  BY <1>1, Vacia, Zenon DEF BytesAKernel
<1>4. pcKernel # "liberar" /\ pcCPU # "responder"
  BY <1>1
<1> QED BY <1>2, <1>3, <1>4, MensajeEs, Zenon DEF EnCPU, Devuelto, EnElKernel

\* When the CPU executes it, too.
LEMMA VistaEjecutando ==
    \A p \in Programas : Ejecutando(p) => EnCPU = p /\ Devuelto = Nulo /\ EnElKernel = Nulo
<1> SUFFICES ASSUME NEW p \in Programas, Ejecutando(p)
             PROVE  EnCPU = p /\ Devuelto = Nulo /\ EnElKernel = Nulo
  OBVIOUS
<1>1. /\ pcKernel = "recibirPCB" /\ leidosKernel = <<>> /\ pcCPU = "responder" /\ pcbActual = p
      /\ redAKernel = <<>> /\ llegadoAKernel = <<>>
  BY Zenon DEF Ejecutando, NadaAlKernel
<1>2. BytesAKernel = <<>>
  BY <1>1, Vacia, Zenon DEF BytesAKernel
<1>3. pcKernel # "liberar"
  BY <1>1
<1> QED BY <1>1, <1>2, <1>3, Zenon DEF EnCPU, Devuelto, EnElKernel

\* An answer on its way is Dispatch's answer, whatever part was read.
LEMMA VistaVolviendo ==
    \A d \in Devueltos : Volviendo(d) => EnCPU = Nulo /\ Devuelto = d /\ EnElKernel = Nulo
<1> SUFFICES ASSUME NEW d \in Devueltos, Volviendo(d)
             PROVE  EnCPU = Nulo /\ Devuelto = d /\ EnElKernel = Nulo
  OBVIOUS
<1>1. pcCPU = "recibir" /\ leidosCPU = <<>> /\ redACPU = <<>> /\ llegadoACPU = <<>>
  BY Zenon DEF Volviendo, CPUEnEspera
<1>2. PICK i \in Nat : VolviendoEn(d, i)
  BY Zenon DEF Volviendo
<1>3. BytesACPU = <<>>
  BY <1>1, Vacia, Zenon DEF BytesACPU
<1>4. pcKernel \in {"recibirPCB", "recibirMotivo"}
  BY <1>2, Zenon DEF VolviendoEn
<1>5. BytesAKernel = Devolver(d.pcb, d.motivo)
  <2>1. PICK m, c : m = Devolver(d.pcb, d.motivo) /\ c = CamposDevuelta(d.pcb, d.motivo)
    BY Zenon
  <2>2. Viaja(m, c, i, leidosKernel, llegadoAKernel, redAKernel)
    BY <1>2, <2>1, Zenon DEF VolviendoEn
  <2>3. Concatenar(leidosKernel) \o llegadoAKernel \o redAKernel = m
    BY <2>2, ViajaTodo
  <2> QED BY <1>4, <2>1, <2>3, Zenon DEF BytesAKernel
<1>6. pcKernel # "liberar" /\ pcCPU # "responder"
  BY <1>1, <1>4
<1> QED BY <1>3, <1>5, <1>6, DevolucionEs, Zenon DEF EnCPU, Devuelto, EnElKernel

\* And then it is the kernel's.
LEMMA VistaRecibida ==
    \A d \in Devueltos : Recibida(d) => EnCPU = Nulo /\ Devuelto = Nulo /\ EnElKernel = d
<1> SUFFICES ASSUME NEW d \in Devueltos, Recibida(d)
             PROVE  EnCPU = Nulo /\ Devuelto = Nulo /\ EnElKernel = d
  OBVIOUS
<1>1. /\ pcKernel = "liberar" /\ pcbKernel = d.pcb /\ MotivoLeido = d.motivo
      /\ leidosCPU = <<>> /\ pcCPU = "recibir"
      /\ redACPU = <<>> /\ llegadoACPU = <<>> /\ redAKernel = <<>> /\ llegadoAKernel = <<>>
  BY Zenon DEF Recibida, CPUEnEspera, NadaAlKernel
<1>2. BytesACPU = <<>>
  BY <1>1, Vacia, Zenon DEF BytesACPU
<1>3. pcKernel \notin {"recibirPCB", "recibirMotivo"} /\ pcCPU # "responder"
  BY <1>1
<1>4. BytesAKernel = <<>>
  BY <1>1, <1>3, Vacia, Zenon DEF BytesAKernel
<1>5. EnElKernel = d
  <2>1. d = [pcb |-> d.pcb, motivo |-> d.motivo]
    BY Tipos, Zenon
  <2> QED BY <1>1, <2>1, Zenon DEF EnElKernel
<1> QED BY <1>2, <1>3, <1>4, <1>5, Zenon DEF EnCPU, Devuelto

\* What each phase is to Dispatch.
Vistas ==
    /\ Libre => EnCPU = Nulo /\ Devuelto = Nulo /\ EnElKernel = Nulo
    /\ \A p \in Programas : Yendo(p) => EnCPU = p /\ Devuelto = Nulo /\ EnElKernel = Nulo
    /\ \A p \in Programas : Ejecutando(p) => EnCPU = p /\ Devuelto = Nulo /\ EnElKernel = Nulo
    /\ \A d \in Devueltos : Volviendo(d) => EnCPU = Nulo /\ Devuelto = d /\ EnElKernel = Nulo
    /\ \A d \in Devueltos : Recibida(d) => EnCPU = Nulo /\ Devuelto = Nulo /\ EnElKernel = d

\* The five phases, as Dispatch sees them.
LEMMA SonVistas == Vistas
BY VistaLibre, VistaYendo, VistaEjecutando, VistaVolviendo, VistaRecibida, Zenon DEF Vistas

\* The same after a step.
LEMMA SonVistasDespues == Vistas'
BY SonVistas, PTL

\* No process and no answer is Nulo.
LEMMA NuloNoEsNadie ==
    (\A p \in Programas : p # Nulo) /\ (\A d \in Devueltos : d # Nulo)
BY NuloAparte

\* A step that changes nothing changes nothing of what Dispatch sees.
LEMMA VistaQuieta ==
    ASSUME UNCHANGED vars
    PROVE  EnCPU' = EnCPU /\ Devuelto' = Devuelto /\ EnElKernel' = EnElKernel
<1>1. /\ pcKernel' = pcKernel /\ pcbKernel' = pcbKernel /\ leidosKernel' = leidosKernel
      /\ pcCPU' = pcCPU /\ pcbActual' = pcbActual /\ leidosCPU' = leidosCPU
      /\ redACPU' = redACPU /\ llegadoACPU' = llegadoACPU
      /\ redAKernel' = redAKernel /\ llegadoAKernel' = llegadoAKernel
  BY Zenon DEF vars, kernel, cpu, haciaCPU, haciaKernel
<1>2. BytesACPU' = BytesACPU /\ BytesAKernel' = BytesAKernel /\ MotivoLeido' = MotivoLeido
  BY <1>1, Zenon DEF BytesACPU, BytesAKernel, MotivoLeido
<1> QED BY <1>1, <1>2, Zenon DEF EnCPU, Devuelto, EnElKernel

\* What Dispatch says, of what the two processes mean to it.
EsEjecutar ==
    /\ EnCPU = Nulo /\ Devuelto = Nulo /\ EnElKernel = Nulo
    /\ EnCPU' \in Programas /\ Devuelto' = Devuelto /\ EnElKernel' = EnElKernel
EsContestar ==
    /\ EnCPU # Nulo
    /\ \E r \in Respuestas : Devuelto' = [pcb |-> [EnCPU EXCEPT !.pid = PidDeLaCPU], motivo |-> r]
    /\ EnCPU' = Nulo /\ EnElKernel' = EnElKernel
EsRecibir ==
    Devuelto # Nulo /\ EnElKernel' = Devuelto /\ Devuelto' = Nulo /\ EnCPU' = EnCPU
EsLiberar ==
    EnElKernel # Nulo /\ EnElKernel' = Nulo /\ EnCPU' = EnCPU /\ Devuelto' = Devuelto
EsNada == EnCPU' = EnCPU /\ Devuelto' = Devuelto /\ EnElKernel' = EnElKernel
EsUnPaso == EsEjecutar \/ EsContestar \/ EsRecibir \/ EsLiberar \/ EsNada

\* Every step of the two processes and the network is a step of Dispatch or
\* none: ejecutar, the CPU's answer, the kernel's last recv and its release are
\* steps; every delivery and every other recv is none.
LEMMA CadaPaso == IInv /\ [Next]_vars => EsUnPaso
<1> SUFFICES ASSUME IInv, [Next]_vars PROVE EsUnPaso
  OBVIOUS
<1>v. Vistas /\ Vistas'
  BY SonVistas, SonVistasDespues
<1>1. CASE Next
  <2>1. CASE Libre
    <3>1. EnCPU = Nulo /\ Devuelto = Nulo /\ EnElKernel = Nulo
      BY <2>1, VistaLibre
    <3>2. PICK p \in Programas : Yendo(p)'
      BY <1>1, <2>1, PasoLibre, Zenon
    <3>3. EnCPU' = p /\ Devuelto' = Nulo /\ EnElKernel' = Nulo
      BY <1>v, <3>2, Zenon DEF Vistas
    <3>4. EsEjecutar
      BY <3>1, <3>3, Zenon DEF EsEjecutar
    <3> QED BY <3>4, Zenon DEF EsUnPaso
  <2>2. ASSUME NEW p \in Programas, Yendo(p) PROVE EsUnPaso
    <3>1. EnCPU = p /\ Devuelto = Nulo /\ EnElKernel = Nulo
      BY <2>2, VistaYendo, Zenon
    <3>2. Yendo(p)' \/ Ejecutando(p)'
      BY <1>1, <2>2, PasoYendo, Zenon
    <3>3. EnCPU' = p /\ Devuelto' = Nulo /\ EnElKernel' = Nulo
      BY <1>v, <3>2, Zenon DEF Vistas
    <3> QED BY <3>1, <3>3, Zenon DEF EsUnPaso, EsNada
  <2>3. ASSUME NEW p \in Programas, Ejecutando(p) PROVE EsUnPaso
    <3>1. EnCPU = p /\ Devuelto = Nulo /\ EnElKernel = Nulo
      BY <2>3, VistaEjecutando, Zenon
    <3>2. PICK q : q = [p EXCEPT !.pid = PidDeLaCPU]
      BY Zenon
    <3>3. PICK r \in Respuestas :
              [pcb |-> q, motivo |-> r] \in Devueltos /\ Volviendo([pcb |-> q, motivo |-> r])'
      BY <1>1, <2>3, <3>2, PasoEjecutando, Zenon
    <3>4. EnCPU' = Nulo /\ Devuelto' = [pcb |-> q, motivo |-> r] /\ EnElKernel' = Nulo
      BY <1>v, <3>3, Zenon DEF Vistas
    <3>5. EsContestar
      BY <3>1, <3>2, <3>4, NuloNoEsNadie, Zenon DEF EsContestar
    <3> QED BY <3>5, Zenon DEF EsUnPaso
  <2>4. ASSUME NEW d \in Devueltos, Volviendo(d) PROVE EsUnPaso
    <3>1. EnCPU = Nulo /\ Devuelto = d /\ EnElKernel = Nulo
      BY <2>4, VistaVolviendo, Zenon
    <3>2. Volviendo(d)' \/ Recibida(d)'
      BY <1>1, <2>4, PasoVolviendo, Zenon
    <3>3. \/ EnCPU' = Nulo /\ Devuelto' = d /\ EnElKernel' = Nulo
          \/ EnCPU' = Nulo /\ Devuelto' = Nulo /\ EnElKernel' = d
      BY <1>v, <3>2, Zenon DEF Vistas
    <3> QED BY <3>1, <3>3, NuloNoEsNadie, Zenon DEF EsUnPaso, EsNada, EsRecibir
  <2>5. ASSUME NEW d \in Devueltos, Recibida(d) PROVE EsUnPaso
    <3>1. EnCPU = Nulo /\ Devuelto = Nulo /\ EnElKernel = d
      BY <2>5, VistaRecibida, Zenon
    <3>2. Libre'
      BY <1>1, <2>5, PasoRecibida, Zenon
    <3>3. EnCPU' = Nulo /\ Devuelto' = Nulo /\ EnElKernel' = Nulo
      BY <1>v, <3>2, Zenon DEF Vistas
    <3> QED BY <3>1, <3>3, NuloNoEsNadie, Zenon DEF EsUnPaso, EsLiberar
  <2> QED BY <2>1, <2>2, <2>3, <2>4, <2>5, Zenon DEF IInv
<1>2. CASE UNCHANGED vars
  BY <1>2, VistaQuieta, Zenon DEF EsUnPaso, EsNada
<1> QED BY <1>1, <1>2

\* Those are Dispatch's actions and its initial state.
LEMMA EsElCanal ==
    /\ Canal!Ejecutar <=> EsEjecutar
    /\ Canal!Contestar <=> EsContestar
    /\ Canal!Recibir <=> EsRecibir
    /\ Canal!Liberar <=> EsLiberar
    /\ UNCHANGED Canal!vars <=> EsNada
    /\ Canal!Init <=> EnCPU = Nulo /\ Devuelto = Nulo /\ EnElKernel = Nulo
<1>1. Canal!Ejecutar <=> EsEjecutar
  BY Zenon DEF Canal!Ejecutar, EsEjecutar, EnCPU, Devuelto, EnElKernel
<1>2. Canal!Contestar <=> EsContestar
  BY Zenon DEF Canal!Contestar, EsContestar, EnCPU, Devuelto, EnElKernel
<1>3. Canal!Recibir <=> EsRecibir
  BY Zenon DEF Canal!Recibir, EsRecibir, EnCPU, Devuelto, EnElKernel
<1>4. Canal!Liberar <=> EsLiberar
  BY Zenon DEF Canal!Liberar, EsLiberar, EnCPU, Devuelto, EnElKernel
<1>5. UNCHANGED Canal!vars <=> EsNada
  BY Zenon DEF Canal!vars, EsNada, EnCPU, Devuelto, EnElKernel
<1>6. Canal!Init <=> EnCPU = Nulo /\ Devuelto = Nulo /\ EnElKernel = Nulo
  BY Zenon DEF Canal!Init, EnCPU, Devuelto, EnElKernel
<1> QED BY <1>1, <1>2, <1>3, <1>4, <1>5, <1>6

\* The byte streams implement the two queues: Dispatch!Seguro, what Dispatch
\* says without its fairness. Field by field and byte by byte, the kernel and
\* the CPU exchange whole PCBs, in order, each once.
THEOREM FlujoImplementaDispatch == Spec => DispatchSeguro
<1>1. Init => Canal!Init
  BY InitLibre, VistaLibre, EsElCanal
<1>2. IInv /\ [Next]_vars => [Canal!Next]_(Canal!vars)
  BY CadaPaso, EsElCanal DEF EsUnPaso, Canal!Next
<1> QED BY <1>1, <1>2, InvarianteDelFlujo, PTL DEF Spec, DispatchSeguro, Canal!Seguro
=============================================================================
