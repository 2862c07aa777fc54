----------------------------- MODULE SegmentosProofs -----------------------------
(***************************************************************************)
(* Threads that share the position of strtok, in any number: no thread     *)
(* takes a token twice, and one that was alone has its own segments.       *)
(***************************************************************************)
EXTENDS Segmentos, TLAPS

Posiciones == Hilos \X Nat

Tipos ==
    /\ pc \in [Hilos -> {"separar", "guardar", "siguiente", "cortar", "listo"}]
    /\ olds \in Posiciones \cup {NULL}
    /\ ceros \in [Hilos -> SUBSET Nat]
    /\ s \in [Hilos -> Posiciones \cup {NULL}]
    /\ token \in [Hilos -> Posiciones \cup {NULL}]
    /\ proximo \in [Hilos -> Posiciones \cup {NULL}]
    /\ tabla \in [Hilos -> Seq(Posiciones)]
    /\ solapado \in [Hilos -> BOOLEAN]
    /\ \A h \in Hilos :
          /\ pc[h] \in {"siguiente", "cortar"} => olds # NULL
          /\ pc[h] = "cortar" => s[h] # NULL
          /\ pc[h] = "guardar" => proximo[h] # NULL
          /\ pc[h] = "separar" => tabla[h] = <<>>

\* Where a token may be: about to be cut, cut, in a table; or about to be
\* stored as the next one.
CortaEn(h, q) == pc[h] = "cortar" /\ s[h] = q
TieneToken(h, q) == pc[h] = "guardar" /\ token[h] = q
EnTabla(h, q) == \E k \in 1..Len(tabla[h]) : tabla[h][k] = q
Pendiente(h, q) == pc[h] = "guardar" /\ proximo[h] = q

Aparece(q) ==
    \/ olds = q
    \/ \E h \in Hilos : CortaEn(h, q) \/ TieneToken(h, q) \/ EnTabla(h, q)

\* A token other than the first is reached only after the zero before it was
\* written, by the one call that wrote it; until that call stores it, nobody
\* has it.
Alcanzado ==
    \A c \in Hilos, i \in Nat \ {0, 1} :
        Aparece(Posicion(c, i)) \/ (\E g \in Hilos : Pendiente(g, Posicion(c, i)))
            => i - 1 \in ceros[c]

UnSoloPendiente ==
    \A c \in Hilos, i \in Nat \ {0} : \A g \in Hilos : Pendiente(g, Posicion(c, i)) =>
        /\ ~Aparece(Posicion(c, i))
        /\ \A f \in Hilos : Pendiente(f, Posicion(c, i)) => f = g

\* The first token of a string is only cut by the first call of its thread.
PrimerToken ==
    \A c \in Hilos :
        /\ olds # Posicion(c, 1)
        /\ \A g \in Hilos : ~CortaEn(g, Posicion(c, 1)) /\ ~Pendiente(g, Posicion(c, 1))
        /\ \A g \in Hilos : TieneToken(g, Posicion(c, 1)) => g = c /\ tabla[c] = <<>>

\* A token that a thread has in its table is out of its reach.
FueraDeAlcance ==
    \A h \in Hilos, c \in Hilos, i \in Nat \ {0} : EnTabla(h, Posicion(c, i)) =>
        olds # Posicion(c, i) /\ ~CortaEn(h, Posicion(c, i)) /\ ~TieneToken(h, Posicion(c, i))

Tokenes == \A h \in Hilos : /\ TieneToken(h, NULL) \/ (pc[h] = "guardar" => token[h][2] # 0)
                            /\ \A k \in 1..Len(tabla[h]) : tabla[h][k][2] # 0

RInv == Tipos /\ Tokenes /\ Alcanzado /\ UnSoloPendiente /\ PrimerToken /\ FueraDeAlcance
             /\ SinRepetidos
-----------------------------------------------------------------------------
\* Positions tell threads and places apart, and NULL is none.
LEMMA Posic ==
    /\ \A h \in Hilos, i \in Nat : Posicion(h, i) \in Posiciones
    /\ \A h, g, i, j : Posicion(h, i) = Posicion(g, j) <=> h = g /\ i = j
    /\ \A p \in Posiciones : p[1] \in Hilos /\ p[2] \in Nat /\ p = Posicion(p[1], p[2]) /\ p # NULL
BY DEF Posicion, Posiciones, NULL

\* A call of strtok on a string begins at its first position or the second.
LEMMA ComienzoTipo == \A h \in Hilos : \E i \in {0, 1} : Comienzo(h) = Posicion(h, i)
BY DEF Comienzo, FinDeCadena

\* What one call finds from the position i of the string c.
LEMMA BuscarEfecto ==
    ASSUME Tipos, NEW h \in Hilos, NEW c \in Hilos, NEW i \in Nat,
           Buscar(h, Posicion(c, i))
    PROVE  /\ token' \in [Hilos -> Posiciones \cup {NULL}]
           /\ proximo' \in [Hilos -> Posiciones \cup {NULL}]
           /\ ceros' \in [Hilos -> SUBSET Nat]
           /\ \A g \in Hilos \ {h} : token'[g] = token[g] /\ proximo'[g] = proximo[g]
           /\ \A g \in Hilos \ {c} : ceros'[g] = ceros[g]
           /\ proximo'[h] # NULL
           /\ token'[h] = IF i = 0 THEN NULL ELSE Posicion(c, i)
           /\ \/ proximo'[h] = Posicion(c, 0) /\ ceros' = ceros
              \/ /\ i # 0 /\ i \notin ceros[c] /\ i # Len(Cadenas[c])
                 /\ proximo'[h] = Posicion(c, i + 1)
                 /\ ceros'[c] = ceros[c] \cup {i}
<1>1. /\ Posicion(c, i) \in Posiciones /\ Posicion(c, 0) \in Posiciones
      /\ Posicion(c, i + 1) \in Posiciones
      /\ Posicion(c, i)[1] = c /\ Posicion(c, i)[2] = i
  BY Posic DEF Posicion
<1>2. CASE i = 0
  <2>1. /\ token' = [token EXCEPT ![h] = NULL]
        /\ proximo' = [proximo EXCEPT ![h] = Posicion(c, i)] /\ ceros' = ceros
    BY <1>1, <1>2 DEF Buscar, FinDeCadena
  <2> QED BY <1>1, <1>2, <2>1, Posic DEF Tipos
<1>3. CASE i # 0 /\ Ultimo(Posicion(c, i))
  <2>1. /\ token' = [token EXCEPT ![h] = Posicion(c, i)]
        /\ proximo' = [proximo EXCEPT ![h] = Posicion(c, 0)] /\ ceros' = ceros
    BY <1>1, <1>3 DEF Buscar, FinDeCadena
  <2> QED BY <1>1, <1>3, <2>1, Posic DEF Tipos
<1>4. CASE i # 0 /\ ~Ultimo(Posicion(c, i))
  <2>1. /\ token' = [token EXCEPT ![h] = Posicion(c, i)]
        /\ proximo' = [proximo EXCEPT ![h] = Posicion(c, i + 1)]
        /\ ceros' = [ceros EXCEPT ![c] = ceros[c] \cup {i}]
    BY <1>1, <1>4 DEF Buscar, FinDeCadena
  <2>2. i \notin ceros[c] /\ i # Len(Cadenas[c])
    BY <1>1, <1>4 DEF Ultimo
  <2> QED BY <1>1, <1>4, <2>1, <2>2, Posic DEF Tipos
<1> QED BY <1>2, <1>3, <1>4

-----------------------------------------------------------------------------
(* No thread takes a token twice *)

\* One step of a thread, seen from the tokens of the strings.
LEMMA RPrimera ==
    ASSUME RInv, NEW h \in Hilos, PrimeraLlamada(h)
    PROVE  RInv'
<1>1. PICK i \in {0, 1} : Comienzo(h) = Posicion(h, i)
  BY ComienzoTipo
<1>2. /\ pc[h] = "separar" /\ pc' = [pc EXCEPT ![h] = "guardar"] /\ tabla[h] = <<>>
      /\ UNCHANGED <<olds, s, tabla>> /\ Buscar(h, Posicion(h, i)) /\ Tipos
      /\ solapado' \in [Hilos -> BOOLEAN]
  BY <1>1 DEF PrimeraLlamada, RInv, Tipos, OtrosCortando, Cortando
<1>3. /\ token' \in [Hilos -> Posiciones \cup {NULL}]
      /\ proximo' \in [Hilos -> Posiciones \cup {NULL}]
      /\ ceros' \in [Hilos -> SUBSET Nat]
      /\ \A g \in Hilos \ {h} : token'[g] = token[g] /\ proximo'[g] = proximo[g]
      /\ \A g \in Hilos \ {h} : ceros'[g] = ceros[g]
      /\ proximo'[h] # NULL
      /\ token'[h] = IF i = 0 THEN NULL ELSE Posicion(h, i)
      /\ \/ proximo'[h] = Posicion(h, 0) /\ ceros' = ceros
         \/ /\ i = 1 /\ 1 \notin ceros[h]
            /\ proximo'[h] = Posicion(h, 2)
            /\ ceros'[h] = ceros[h] \cup {1}
  BY <1>2, BuscarEfecto
<1>4. Tipos'
  BY <1>2, <1>3 DEF Tipos
<1>5. /\ \A g \in Hilos : g # h => pc'[g] = pc[g]
      /\ pc'[h] = "guardar"
  BY <1>2 DEF Tipos
<1>6. \A g \in Hilos : \A q :
          /\ CortaEn(g, q)' => CortaEn(g, q)
          /\ EnTabla(g, q)' <=> EnTabla(g, q)
          /\ TieneToken(g, q)' => TieneToken(g, q) \/ (g = h /\ q = token'[h])
          /\ Pendiente(g, q)' => Pendiente(g, q) \/ (g = h /\ q = proximo'[h])
          /\ ~TieneToken(h, q) /\ ~Pendiente(h, q)
  BY <1>2, <1>3, <1>5 DEF CortaEn, EnTabla, TieneToken, Pendiente
<1>7. \A q : Aparece(q)' => Aparece(q) \/ q = token'[h]
  BY <1>2, <1>6 DEF Aparece
<1>8. \A c \in Hilos : ceros[c] \subseteq ceros'[c]
  BY <1>2, <1>3 DEF Tipos
<1>9. Tokenes'
  BY <1>2, <1>3, <1>5, Posic DEF RInv, Tokenes, TieneToken, Posicion
<1>10. Alcanzado'
  <2> SUFFICES ASSUME NEW c \in Hilos, NEW j \in Nat \ {0, 1},
                      Aparece(Posicion(c, j))' \/ (\E g \in Hilos : Pendiente(g, Posicion(c, j))')
               PROVE  j - 1 \in ceros'[c]
    BY DEF Alcanzado, Posicion
  <2>1. Posicion(c, j) # token'[h]
    BY <1>3, Posic
  <2>2. CASE Posicion(c, j) = proximo'[h]
    BY <2>2, <1>3, Posic
  <2>3. CASE Posicion(c, j) # proximo'[h]
    BY <2>1, <2>3, <1>6, <1>7, <1>8 DEF RInv, Alcanzado
  <2> QED BY <2>2, <2>3
<1>11. UnSoloPendiente'
  <2> SUFFICES ASSUME NEW c \in Hilos, NEW j \in Nat \ {0}, NEW g \in Hilos,
                      Pendiente(g, Posicion(c, j))'
               PROVE  /\ ~Aparece(Posicion(c, j))'
                      /\ \A f \in Hilos : Pendiente(f, Posicion(c, j))' => f = g
    BY DEF UnSoloPendiente, Posicion
  <2>1. CASE Posicion(c, j) = proximo'[h]
    <3>1. j = 2 /\ c = h /\ 1 \notin ceros[h]
      BY <2>1, <1>3, Posic
    <3>2. ~Aparece(Posicion(c, j)) /\ \A f \in Hilos : ~Pendiente(f, Posicion(c, j))
      BY <3>1 DEF RInv, Alcanzado
    <3>3. Posicion(c, j) # token'[h]
      BY <3>1, <1>3, Posic
    <3> QED BY <3>2, <3>3, <1>6, <1>7
  <2>2. CASE Posicion(c, j) # proximo'[h]
    <3>1. Pendiente(g, Posicion(c, j)) /\ \A f \in Hilos :
              Pendiente(f, Posicion(c, j))' => Pendiente(f, Posicion(c, j))
      BY <2>2, <1>6
    <3>2. /\ ~Aparece(Posicion(c, j)) /\ Posicion(c, j) # Posicion(h, 1)
          /\ \A f \in Hilos : Pendiente(f, Posicion(c, j)) => f = g
      BY <3>1 DEF RInv, UnSoloPendiente, PrimerToken
    <3>3. Posicion(c, j) # token'[h]
      BY <3>2, <1>3, Posic
    <3> QED BY <3>1, <3>2, <3>3, <1>7
  <2> QED BY <2>1, <2>2
<1>12. PrimerToken'
  <2> SUFFICES ASSUME NEW c \in Hilos
               PROVE  /\ olds' # Posicion(c, 1)
                      /\ \A g \in Hilos : ~CortaEn(g, Posicion(c, 1))' /\ ~Pendiente(g, Posicion(c, 1))'
                      /\ \A g \in Hilos : TieneToken(g, Posicion(c, 1))' => g = c /\ tabla'[c] = <<>>
    BY DEF PrimerToken, Posicion
  <2>1. proximo'[h] # Posicion(c, 1)
    BY <1>3, Posic
  <2>2. token'[h] = Posicion(c, 1) => h = c
    BY <1>3, Posic
  <2> QED BY <1>2, <1>6, <2>1, <2>2 DEF RInv, PrimerToken
<1>13. FueraDeAlcance'
  <2> SUFFICES ASSUME NEW g \in Hilos, NEW c \in Hilos, NEW j \in Nat \ {0},
                      EnTabla(g, Posicion(c, j))
               PROVE  /\ olds' # Posicion(c, j) /\ ~CortaEn(g, Posicion(c, j))'
                      /\ ~TieneToken(g, Posicion(c, j))'
    BY <1>6 DEF FueraDeAlcance, Posicion
  <2>1. g # h
    BY <1>2 DEF EnTabla
  <2> QED BY <1>2, <1>6, <2>1 DEF RInv, FueraDeAlcance
<1>14. SinRepetidos'
  BY <1>2 DEF RInv, SinRepetidos
<1> QED BY <1>4, <1>9, <1>10, <1>11, <1>12, <1>13, <1>14 DEF RInv

\* Loading the shared position repeats no token.
LEMMA RCargar ==
    ASSUME RInv, NEW h \in Hilos, Cargar(h)
    PROVE  RInv'
<1>1. /\ pc[h] = "siguiente" /\ pc' = [pc EXCEPT ![h] = "cortar"]
      /\ s' = [s EXCEPT ![h] = olds] /\ olds # NULL
      /\ UNCHANGED <<olds, ceros, token, proximo, tabla, solapado>> /\ Tipos
  BY DEF Cargar, RInv, Tipos
<1>2. Tipos'
  BY <1>1 DEF Tipos
<1>3. \A g \in Hilos : \A q :
          /\ CortaEn(g, q)' => CortaEn(g, q) \/ (g = h /\ q = olds)
          /\ EnTabla(g, q)' <=> EnTabla(g, q)
          /\ TieneToken(g, q)' <=> TieneToken(g, q)
          /\ Pendiente(g, q)' <=> Pendiente(g, q)
  BY <1>1 DEF CortaEn, EnTabla, TieneToken, Pendiente, Tipos
<1>4. \A q : Aparece(q)' => Aparece(q)
  BY <1>1, <1>3 DEF Aparece
<1>5. Tokenes'
  BY <1>1 DEF RInv, Tokenes, TieneToken, Tipos
<1>6. Alcanzado'
  BY <1>1, <1>3, <1>4 DEF RInv, Alcanzado, Posicion
<1>7. UnSoloPendiente'
  BY <1>3, <1>4 DEF RInv, UnSoloPendiente, Posicion
<1>8. PrimerToken'
  BY <1>1, <1>3 DEF RInv, PrimerToken, Posicion
<1>9. FueraDeAlcance'
  BY <1>1, <1>3 DEF RInv, FueraDeAlcance, Posicion
<1>10. SinRepetidos'
  BY <1>1 DEF RInv, SinRepetidos
<1> QED BY <1>2, <1>5, <1>6, <1>7, <1>8, <1>9, <1>10 DEF RInv

\* Cutting one: the zero is written where nobody wrote it.
LEMMA RCortar ==
    ASSUME RInv, NEW h \in Hilos, Cortar(h)
    PROVE  RInv'
<1>1. /\ pc[h] = "cortar" /\ pc' = [pc EXCEPT ![h] = "guardar"] /\ s[h] \in Posiciones
      /\ UNCHANGED <<olds, s, tabla, solapado>> /\ Tipos
  BY DEF Cortar, RInv, Tipos
<1>2. PICK c \in Hilos, i \in Nat : s[h] = Posicion(c, i)
  BY <1>1, Posic
<1>3. /\ token' \in [Hilos -> Posiciones \cup {NULL}]
      /\ proximo' \in [Hilos -> Posiciones \cup {NULL}]
      /\ ceros' \in [Hilos -> SUBSET Nat]
      /\ \A g \in Hilos \ {h} : token'[g] = token[g] /\ proximo'[g] = proximo[g]
      /\ \A g \in Hilos \ {c} : ceros'[g] = ceros[g]
      /\ proximo'[h] # NULL
      /\ token'[h] = IF i = 0 THEN NULL ELSE Posicion(c, i)
      /\ \/ proximo'[h] = Posicion(c, 0) /\ ceros' = ceros
         \/ /\ i # 0 /\ i \notin ceros[c]
            /\ proximo'[h] = Posicion(c, i + 1)
            /\ ceros'[c] = ceros[c] \cup {i}
  BY <1>1, <1>2, BuscarEfecto DEF Cortar
<1>4. Tipos'
  BY <1>1, <1>3 DEF Tipos
<1>5. CortaEn(h, Posicion(c, i))
  BY <1>1, <1>2 DEF CortaEn
<1>6. i # 1
  BY <1>5 DEF RInv, PrimerToken
<1>7. /\ \A g \in Hilos : g # h => pc'[g] = pc[g]
      /\ pc'[h] = "guardar"
  BY <1>1 DEF Tipos
<1>8. \A g \in Hilos : \A q :
          /\ CortaEn(g, q)' => CortaEn(g, q)
          /\ EnTabla(g, q)' <=> EnTabla(g, q)
          /\ TieneToken(g, q)' => TieneToken(g, q) \/ (g = h /\ q = token'[h])
          /\ Pendiente(g, q)' => Pendiente(g, q) \/ (g = h /\ q = proximo'[h])
          /\ ~TieneToken(h, q) /\ ~Pendiente(h, q)
  BY <1>1, <1>3, <1>7 DEF CortaEn, EnTabla, TieneToken, Pendiente
<1>9. \A a \in Hilos, j \in Nat \ {0} : Aparece(Posicion(a, j))' => Aparece(Posicion(a, j))
  <2> SUFFICES ASSUME NEW a \in Hilos, NEW j \in Nat \ {0}, Aparece(Posicion(a, j))'
               PROVE  Aparece(Posicion(a, j))
    BY DEF Aparece, Posicion
  <2>1. Aparece(Posicion(a, j)) \/ Posicion(a, j) = token'[h]
    BY <1>1, <1>8 DEF Aparece
  <2>2. CASE Posicion(a, j) = token'[h]
    <3>1. Posicion(a, j) = Posicion(c, i)
      BY <2>2, <1>3, Posic
    <3> QED BY <3>1, <1>5 DEF Aparece
  <2> QED BY <2>1, <2>2
<1>10. \A a \in Hilos : ceros[a] \subseteq ceros'[a]
  BY <1>1, <1>3 DEF Tipos
<1>11. Tokenes'
  BY <1>1, <1>3, <1>7, Posic DEF RInv, Tokenes, TieneToken, Posicion
<1>12. Alcanzado'
  <2> SUFFICES ASSUME NEW a \in Hilos, NEW j \in Nat \ {0, 1},
                      Aparece(Posicion(a, j))' \/ (\E g \in Hilos : Pendiente(g, Posicion(a, j))')
               PROVE  j - 1 \in ceros'[a]
    BY DEF Alcanzado, Posicion
  <2>1. CASE Posicion(a, j) = proximo'[h]
    BY <2>1, <1>3, Posic
  <2>2. CASE Posicion(a, j) # proximo'[h]
    <3>1. Aparece(Posicion(a, j)) \/ \E g \in Hilos : Pendiente(g, Posicion(a, j))
      BY <2>2, <1>8, <1>9
    <3> QED BY <3>1, <1>10 DEF RInv, Alcanzado
  <2> QED BY <2>1, <2>2
<1>13. UnSoloPendiente'
  <2> SUFFICES ASSUME NEW a \in Hilos, NEW j \in Nat \ {0}, NEW g \in Hilos,
                      Pendiente(g, Posicion(a, j))'
               PROVE  /\ ~Aparece(Posicion(a, j))'
                      /\ \A f \in Hilos : Pendiente(f, Posicion(a, j))' => f = g
    BY DEF UnSoloPendiente, Posicion
  <2>1. CASE Posicion(a, j) = proximo'[h]
    <3>1. j = i + 1 /\ a = c /\ i \notin ceros[c] /\ i # 0
      BY <2>1, <1>3, Posic
    <3>2. ~Aparece(Posicion(a, j)) /\ \A f \in Hilos : ~Pendiente(f, Posicion(a, j))
      BY <3>1 DEF RInv, Alcanzado
    <3> QED BY <3>2, <1>8, <1>9
  <2>2. CASE Posicion(a, j) # proximo'[h]
    <3>1. Pendiente(g, Posicion(a, j)) /\ \A f \in Hilos :
              Pendiente(f, Posicion(a, j))' => Pendiente(f, Posicion(a, j))
      BY <2>2, <1>8
    <3> QED BY <3>1, <1>9 DEF RInv, UnSoloPendiente
  <2> QED BY <2>1, <2>2
<1>14. PrimerToken'
  <2> SUFFICES ASSUME NEW a \in Hilos
               PROVE  /\ olds' # Posicion(a, 1)
                      /\ \A g \in Hilos : ~CortaEn(g, Posicion(a, 1))' /\ ~Pendiente(g, Posicion(a, 1))'
                      /\ \A g \in Hilos : TieneToken(g, Posicion(a, 1))' => g = a /\ tabla'[a] = <<>>
    BY DEF PrimerToken, Posicion
  <2>1. proximo'[h] # Posicion(a, 1)
    BY <1>3, Posic
  <2>2. token'[h] # Posicion(a, 1)
    BY <1>3, <1>6, Posic
  <2> QED BY <1>1, <1>8, <2>1, <2>2 DEF RInv, PrimerToken
<1>15. FueraDeAlcance'
  <2> SUFFICES ASSUME NEW g \in Hilos, NEW a \in Hilos, NEW j \in Nat \ {0},
                      EnTabla(g, Posicion(a, j))
               PROVE  /\ olds' # Posicion(a, j) /\ ~CortaEn(g, Posicion(a, j))'
                      /\ ~TieneToken(g, Posicion(a, j))'
    BY <1>8 DEF FueraDeAlcance, Posicion
  <2>1. /\ olds # Posicion(a, j) /\ ~CortaEn(g, Posicion(a, j))
        /\ ~TieneToken(g, Posicion(a, j))
    BY DEF RInv, FueraDeAlcance
  <2>2. ~(g = h /\ Posicion(a, j) = token'[h])
    BY <2>1, <1>3, <1>5, Posic
  <2> QED BY <1>1, <1>8, <2>1, <2>2
<1>16. SinRepetidos'
  BY <1>1 DEF RInv, SinRepetidos
<1> QED BY <1>4, <1>11, <1>12, <1>13, <1>14, <1>15, <1>16 DEF RInv

\* Storing the shared position repeats no token.
LEMMA RGuardar ==
    ASSUME RInv, NEW h \in Hilos, Guardar(h)
    PROVE  RInv'
<1>1. /\ pc[h] = "guardar" /\ olds' = proximo[h] /\ proximo[h] \in Posiciones
      /\ token[h] \in Posiciones \cup {NULL}
      /\ UNCHANGED <<ceros, s, token, proximo, solapado>> /\ Tipos
      /\ pc' \in [Hilos -> {"separar", "guardar", "siguiente", "cortar", "listo"}]
      /\ pc'[h] \in {"siguiente", "listo"} /\ \A g \in Hilos : g # h => pc'[g] = pc[g]
  BY DEF Guardar, RInv, Tipos
<1>2. /\ tabla' \in [Hilos -> Seq(Posiciones)]
      /\ \A g \in Hilos : g # h => tabla'[g] = tabla[g]
      /\ \/ token[h] = NULL /\ tabla'[h] = tabla[h]
         \/ token[h] \in Posiciones /\ tabla'[h] = Append(tabla[h], token[h])
  <2>1. CASE token[h] = NULL
    BY <1>1, <2>1 DEF Guardar, Tipos
  <2>2. CASE token[h] # NULL
    <3>1. token[h] \in Posiciones /\ tabla[h] \in Seq(Posiciones)
      BY <1>1, <2>2 DEF Tipos
    <3>2. PICK t \in Seq(Posiciones) : t = Append(tabla[h], token[h])
      <4>1. \A u \in Seq(Posiciones), p \in Posiciones : Append(u, p) \in Seq(Posiciones)
        OBVIOUS
      <4> QED BY <3>1, <4>1
    <3>3. tabla' = [tabla EXCEPT ![h] = t]
      BY <2>2, <3>2 DEF Guardar
    <3> QED BY <1>1, <3>1, <3>2, <3>3 DEF Tipos
  <2> QED BY <2>1, <2>2
<1>3. Tipos'
  BY <1>1, <1>2, Posic DEF Tipos
<1>4. PICK n \in Nat : n = Len(tabla[h])
  BY <1>1 DEF Tipos
<1>5. CASE token[h] = NULL
  <2>1. tabla' = tabla
    BY <1>1, <1>2, <1>5, Posic DEF Tipos
  <2> QED
    <3>1. \A g \in Hilos : \A q :
              /\ CortaEn(g, q)' <=> CortaEn(g, q)
              /\ EnTabla(g, q)' <=> EnTabla(g, q)
              /\ TieneToken(g, q)' => TieneToken(g, q)
              /\ Pendiente(g, q)' => Pendiente(g, q) /\ g # h
      BY <1>1, <2>1 DEF CortaEn, EnTabla, TieneToken, Pendiente
    <3>2. Pendiente(h, proximo[h])
      BY <1>1 DEF Pendiente
    <3>3. \A q : Aparece(q)' => Aparece(q) \/ q = proximo[h]
      BY <1>1, <3>1 DEF Aparece
    <3>4. Tokenes'
      BY <1>1, <2>1 DEF RInv, Tokenes, TieneToken
    <3>5. Alcanzado'
      BY <1>1, <3>1, <3>2, <3>3 DEF RInv, Alcanzado, Posicion
    <3>6. UnSoloPendiente'
      <4> SUFFICES ASSUME NEW a \in Hilos, NEW j \in Nat \ {0}, NEW g \in Hilos,
                          Pendiente(g, Posicion(a, j))'
                   PROVE  /\ ~Aparece(Posicion(a, j))'
                          /\ \A f \in Hilos : Pendiente(f, Posicion(a, j))' => f = g
        BY DEF UnSoloPendiente, Posicion
      <4>1. Pendiente(g, Posicion(a, j)) /\ g # h
        BY <3>1, <3>2, <3>3
      <4>2. /\ ~Aparece(Posicion(a, j))
            /\ \A f \in Hilos : Pendiente(f, Posicion(a, j)) => f = g
        BY <4>1 DEF RInv, UnSoloPendiente
      <4>3. Posicion(a, j) # proximo[h]
        BY <4>1, <4>2, <3>2
      <4> QED BY <4>2, <4>3, <3>1, <3>2, <3>3
    <3>7. PrimerToken'
      BY <1>1, <2>1, <3>1, <3>2 DEF RInv, PrimerToken, Posicion
    <3>8. FueraDeAlcance'
      <4> SUFFICES ASSUME NEW g \in Hilos, NEW c \in Hilos, NEW j \in Nat \ {0},
                          EnTabla(g, Posicion(c, j))
                   PROVE  /\ olds' # Posicion(c, j) /\ ~CortaEn(g, Posicion(c, j))'
                          /\ ~TieneToken(g, Posicion(c, j))'
        BY <3>1 DEF FueraDeAlcance, Posicion
      <4>1. ~Pendiente(h, Posicion(c, j))
        BY DEF RInv, UnSoloPendiente, Aparece
      <4> QED BY <1>1, <3>1, <3>2, <4>1 DEF RInv, FueraDeAlcance
    <3>9. SinRepetidos'
      BY <2>1 DEF RInv, SinRepetidos
    <3> QED BY <1>3, <3>4, <3>5, <3>6, <3>7, <3>8, <3>9 DEF RInv
<1>6. CASE token[h] \in Posiciones
  <2>1. PICK c \in Hilos, i \in Nat \ {0} : token[h] = Posicion(c, i)
    BY <1>1, <1>6, Posic DEF RInv, Tokenes, TieneToken
  <2>2. TieneToken(h, Posicion(c, i)) /\ Aparece(Posicion(c, i))
    BY <1>1, <2>1 DEF TieneToken, Aparece
  <2>3. tabla'[h] = Append(tabla[h], Posicion(c, i))
    BY <1>2, <1>6, <2>1, Posic
  <2>4. /\ tabla[h] \in Seq(Posiciones) /\ Len(tabla'[h]) = n + 1
        /\ \A k \in 1..n : tabla'[h][k] = tabla[h][k]
        /\ tabla'[h][n + 1] = Posicion(c, i)
    BY <1>1, <1>4, <2>3 DEF Tipos
  <2>5. \A g \in Hilos : \A q :
            /\ CortaEn(g, q)' => CortaEn(g, q) /\ g # h
            /\ EnTabla(g, q)' => EnTabla(g, q) \/ (g = h /\ q = Posicion(c, i))
            /\ TieneToken(g, q)' => TieneToken(g, q) /\ g # h
            /\ Pendiente(g, q)' => Pendiente(g, q) /\ g # h
    <3>1. \A q : EnTabla(h, q)' => EnTabla(h, q) \/ q = Posicion(c, i)
      BY <1>4, <2>4 DEF EnTabla
    <3>2. \A g \in Hilos : \A q : g # h => (EnTabla(g, q)' <=> EnTabla(g, q))
      BY <1>2 DEF EnTabla
    <3>3. \A g \in Hilos : \A q :
            /\ CortaEn(g, q)' => CortaEn(g, q) /\ g # h
            /\ TieneToken(g, q)' => TieneToken(g, q) /\ g # h
            /\ Pendiente(g, q)' => Pendiente(g, q) /\ g # h
      BY <1>1 DEF CortaEn, TieneToken, Pendiente
    <3> QED BY <3>1, <3>2, <3>3
  <2>6. Pendiente(h, proximo[h])
    BY <1>1 DEF Pendiente
  <2>7. \A q : Aparece(q)' => Aparece(q) \/ q = proximo[h]
    BY <1>1, <2>2, <2>5 DEF Aparece
  <2>8. Tokenes'
    <3>1. Posicion(c, i)[2] # 0
      BY DEF Posicion
    <3>2. \A k \in 1..Len(tabla'[h]) : tabla'[h][k][2] # 0
      BY <1>4, <2>4, <3>1 DEF RInv, Tokenes
    <3>3. \A g \in Hilos : g # h => \A k \in 1..Len(tabla'[g]) : tabla'[g][k][2] # 0
      BY <1>2 DEF RInv, Tokenes
    <3> QED BY <1>1, <3>2, <3>3 DEF RInv, Tokenes, TieneToken
  <2>9. Alcanzado'
    BY <1>1, <2>5, <2>6, <2>7 DEF RInv, Alcanzado, Posicion
  <2>10. UnSoloPendiente'
    <3> SUFFICES ASSUME NEW a \in Hilos, NEW j \in Nat \ {0}, NEW g \in Hilos,
                        Pendiente(g, Posicion(a, j))'
                 PROVE  /\ ~Aparece(Posicion(a, j))'
                        /\ \A f \in Hilos : Pendiente(f, Posicion(a, j))' => f = g
      BY DEF UnSoloPendiente, Posicion
    <3>1. Pendiente(g, Posicion(a, j)) /\ g # h
      BY <2>5, <2>6, <2>7
    <3>2. /\ ~Aparece(Posicion(a, j))
          /\ \A f \in Hilos : Pendiente(f, Posicion(a, j)) => f = g
      BY <3>1 DEF RInv, UnSoloPendiente
    <3>3. Posicion(a, j) # proximo[h]
      BY <3>1, <3>2, <2>6
    <3> QED BY <3>2, <3>3, <2>5, <2>6, <2>7
  <2>11. PrimerToken'
    <3> SUFFICES ASSUME NEW a \in Hilos
                 PROVE  /\ olds' # Posicion(a, 1)
                        /\ \A g \in Hilos : ~CortaEn(g, Posicion(a, 1))' /\ ~Pendiente(g, Posicion(a, 1))'
                        /\ \A g \in Hilos : TieneToken(g, Posicion(a, 1))' => g = a /\ tabla'[a] = <<>>
      BY DEF PrimerToken, Posicion
    <3> QED BY <1>1, <1>2, <2>5, <2>6 DEF RInv, PrimerToken
  <2>12. FueraDeAlcance'
    <3> SUFFICES ASSUME NEW g \in Hilos, NEW a \in Hilos, NEW j \in Nat \ {0},
                        EnTabla(g, Posicion(a, j))'
                 PROVE  /\ olds' # Posicion(a, j) /\ ~CortaEn(g, Posicion(a, j))'
                        /\ ~TieneToken(g, Posicion(a, j))'
      BY DEF FueraDeAlcance, Posicion
    <3>1. CASE EnTabla(g, Posicion(a, j))
      <4>1. ~Pendiente(h, Posicion(a, j))
        BY <3>1 DEF RInv, UnSoloPendiente, Aparece
      <4> QED BY <3>1, <1>1, <2>5, <2>6, <4>1 DEF RInv, FueraDeAlcance
    <3>2. CASE g = h /\ Posicion(a, j) = Posicion(c, i)
      <4>1. ~Pendiente(h, Posicion(c, i))
        BY <2>2 DEF RInv, UnSoloPendiente
      <4> QED BY <3>2, <1>1, <2>5, <2>6, <4>1
    <3> QED BY <2>5, <3>1, <3>2
  <2>13. SinRepetidos'
    <3> SUFFICES ASSUME NEW g \in Hilos, NEW j \in DOMAIN tabla'[g], NEW k \in DOMAIN tabla'[g],
                        tabla'[g][j] = tabla'[g][k]
                 PROVE  j = k
      BY DEF SinRepetidos
    <3>1. CASE g # h
      BY <3>1, <1>2 DEF RInv, SinRepetidos
    <3>2. CASE g = h
      <4>1. \A m \in 1..n : tabla[h][m] # Posicion(c, i)
        BY <2>2, <1>4 DEF RInv, FueraDeAlcance, EnTabla
      <4>2. j \in 1..(n + 1) /\ k \in 1..(n + 1) /\ DOMAIN tabla[h] = 1..n
        BY <3>2, <1>2, <1>4, <2>4
      <4>3. CASE j = n + 1 \/ k = n + 1
        BY <3>2, <4>1, <4>2, <4>3, <2>4
      <4>4. CASE j # n + 1 /\ k # n + 1
        <5>1. j \in 1..n /\ k \in 1..n
          BY <4>2, <4>4
        <5> QED BY <3>2, <4>2, <5>1, <2>4 DEF RInv, SinRepetidos
      <4> QED BY <4>3, <4>4
    <3> QED BY <3>1, <3>2
  <2> QED BY <1>3, <2>8, <2>9, <2>10, <2>11, <2>12, <2>13 DEF RInv
<1> QED BY <1>1, <1>5, <1>6

\* A step that changes nothing.
LEMMA RQuieto == RInv /\ UNCHANGED vars => RInv'
<1> SUFFICES ASSUME RInv, UNCHANGED vars PROVE RInv'
  OBVIOUS
<1>1. UNCHANGED <<pc, olds, ceros, s, token, proximo, tabla, solapado>>
  BY DEF vars
<1>2. \A g \in Hilos : \A q :
          /\ CortaEn(g, q)' <=> CortaEn(g, q)
          /\ EnTabla(g, q)' <=> EnTabla(g, q)
          /\ TieneToken(g, q)' <=> TieneToken(g, q)
          /\ Pendiente(g, q)' <=> Pendiente(g, q)
  BY <1>1 DEF CortaEn, EnTabla, TieneToken, Pendiente
<1>3. \A q : Aparece(q)' <=> Aparece(q)
  BY <1>1, <1>2 DEF Aparece
<1>4. Tipos' /\ Tokenes' /\ SinRepetidos'
  BY <1>1 DEF RInv, Tipos, Tokenes, TieneToken, SinRepetidos
<1>5. Alcanzado'
  BY <1>1, <1>2, <1>3 DEF RInv, Alcanzado, Posicion
<1>6. UnSoloPendiente'
  BY <1>2, <1>3 DEF RInv, UnSoloPendiente, Posicion
<1>7. PrimerToken' /\ FueraDeAlcance'
  BY <1>1, <1>2 DEF RInv, PrimerToken, FueraDeAlcance, Posicion
<1> QED BY <1>4, <1>5, <1>6, <1>7 DEF RInv

\* Nothing is cut at the start.
LEMMA RInicio == Init => RInv
<1> SUFFICES ASSUME Init PROVE RInv
  OBVIOUS
<1>1. Tipos
  BY DEF Init, Tipos
<1>2. \A h \in Hilos : \A q : ~CortaEn(h, q) /\ ~TieneToken(h, q) /\ ~EnTabla(h, q) /\ ~Pendiente(h, q)
  BY DEF Init, CortaEn, TieneToken, EnTabla, Pendiente
<1>3. \A c \in Hilos, i \in Nat : olds # Posicion(c, i)
  BY Posic DEF Init
<1>4. \A c \in Hilos, i \in Nat : ~Aparece(Posicion(c, i))
  BY <1>2, <1>3 DEF Aparece
<1>5. Tokenes /\ SinRepetidos
  BY DEF Init, Tokenes, SinRepetidos
<1>6. Alcanzado /\ UnSoloPendiente /\ PrimerToken /\ FueraDeAlcance
  BY <1>2, <1>3, <1>4 DEF Alcanzado, UnSoloPendiente, PrimerToken, FueraDeAlcance
<1> QED BY <1>1, <1>5, <1>6 DEF RInv

\* No step repeats a token.
LEMMA RPaso == RInv /\ [Next]_vars => RInv'
BY RPrimera, RCargar, RCortar, RGuardar, RQuieto DEF Next, Separar, Fin

\* Whatever the number of consoles, of their segments, and the order in which
\* their threads run inside strtok.
THEOREM SinRepetidosSiempre == Spec => []SinRepetidos
<1>1. RInv => SinRepetidos
  BY DEF RInv
<1> QED BY RInicio, RPaso, <1>1, PTL DEF Spec

-----------------------------------------------------------------------------
(* A thread that was alone *)

\* Nobody has a position of the string of a thread that has not begun.
SinEmpezar ==
    \A h \in Hilos : pc[h] = "separar" =>
        /\ ceros[h] = {}
        /\ \A i \in Nat : olds # Posicion(h, i)
        /\ \A g \in Hilos, i \in Nat :
               ~CortaEn(g, Posicion(h, i)) /\ ~Pendiente(g, Posicion(h, i))

\* Two threads that cut at the same time are both marked.
Marcados ==
    \A h \in Hilos, g \in Hilos : h # g /\ Cortando(h) /\ Cortando(g) => solapado[h]

Tamanios(h) == Len(Cadenas[h])
Propios(h) == /\ Len(tabla[h]) <= Tamanios(h)
              /\ \A k \in 1..Len(tabla[h]) : tabla[h][k] = Posicion(h, k)

\* The position from which the next token of a thread is looked for.
Proxima(h, k) == Posicion(h, IF k = Tamanios(h) THEN FinDeCadena ELSE k + 1)

\* One that is alone takes its own tokens, one after the other.
Solo(h) ==
    /\ Propios(h)
    /\ pc[h] = "siguiente" => olds = Proxima(h, Len(tabla[h]))
    /\ pc[h] = "cortar" => s[h] = Proxima(h, Len(tabla[h]))
    /\ pc[h] \in {"siguiente", "cortar"} => ceros[h] \subseteq 1..Len(tabla[h])
    /\ pc[h] = "guardar" =>
          \/ /\ token[h] = NULL /\ Len(tabla[h]) = Tamanios(h)
          \/ /\ token[h] = Posicion(h, Len(tabla[h]) + 1) /\ Len(tabla[h]) < Tamanios(h)
             /\ proximo[h] = Proxima(h, Len(tabla[h]) + 1)
             /\ ceros[h] \subseteq 1..(Len(tabla[h]) + 1)
    /\ pc[h] = "listo" => Len(tabla[h]) = Tamanios(h)

SInv ==
    /\ Tipos /\ SinEmpezar /\ Marcados
    /\ \A h \in Hilos : ~solapado[h] => Solo(h)

\* The strings of the consoles, and how many tokens each has.
LEMMA Cadena == \A h \in Hilos : Cadenas[h] \in Seq(Nat) /\ Tamanios(h) \in Nat
                                     /\ (Cadenas[h] = <<>> <=> Tamanios(h) = 0)
BY CadenasDeTamanios DEF Tamanios

\* The step of a thread, for the threads that do not take it.
LEMMA SoloDeOtros ==
    ASSUME SInv, NEW h \in Hilos, Separar(h), Tipos',
           NEW g \in Hilos \ {h}, ~solapado'[g]
    PROVE  Solo(g)'
<1>1. ~solapado[g] /\ pc[g] = pc'[g] /\ tabla'[g] = tabla[g]
      /\ s'[g] = s[g]
  BY DEF SInv, Tipos, Separar, PrimeraLlamada, Cargar, Cortar, Guardar
<1>2. Solo(g)
  BY <1>1 DEF SInv
<1>3. CASE Cortando(g)
  <2>1. ~Cortando(h)
    BY <1>1, <1>3 DEF SInv, Marcados
  <2>2. PrimeraLlamada(h)
    BY <2>1 DEF Separar, Cargar, Cortar, Guardar, Cortando
  <2>3. solapado'[g]
    BY <1>1, <1>3, <2>2 DEF PrimeraLlamada, OtrosCortando, Cortando, SInv, Tipos
  <2> QED BY <2>3
<1>4. CASE ~Cortando(g)
  BY <1>1, <1>2, <1>4 DEF Solo, Propios, Cortando, Tamanios, Posicion, SInv, Tipos
<1> QED BY <1>3, <1>4

\* Nobody has a position in the string of a thread that did not begin.
LEMMA SinEmpezarPaso ==
    ASSUME SInv, NEW h \in Hilos, Separar(h), Tipos'
    PROVE  SinEmpezar'
<1> SUFFICES ASSUME NEW g \in Hilos, pc'[g] = "separar"
             PROVE  /\ ceros'[g] = {}
                    /\ \A i \in Nat : olds' # Posicion(g, i)
                    /\ \A f \in Hilos, i \in Nat :
                           ~CortaEn(f, Posicion(g, i))' /\ ~Pendiente(f, Posicion(g, i))'
  BY DEF SinEmpezar, Posicion
<1>1. g # h /\ pc[g] = "separar" /\ Tipos /\ SinEmpezar
  BY DEF SInv, Tipos, Separar, PrimeraLlamada, Cargar, Cortar, Guardar
<1>2. /\ ceros[g] = {} /\ \A i \in Nat : olds # Posicion(g, i)
      /\ \A f \in Hilos, i \in Nat :
             ~CortaEn(f, Posicion(g, i)) /\ ~Pendiente(f, Posicion(g, i))
  BY <1>1 DEF SinEmpezar
<1>3. CASE PrimeraLlamada(h) \/ Cortar(h)
  <2>1. PICK c \in Hilos, i \in Nat : c # g /\ Buscar(h, Posicion(c, i))
    <3>1. CASE PrimeraLlamada(h)
      <4>1. PICK i \in {0, 1} : Comienzo(h) = Posicion(h, i)
        BY ComienzoTipo
      <4> QED BY <3>1, <4>1, <1>1 DEF PrimeraLlamada
    <3>2. CASE Cortar(h)
      <4>1. s[h] \in Posiciones /\ pc[h] = "cortar"
        BY <3>2, <1>1 DEF Cortar, Tipos
      <4>2. PICK c \in Hilos, i \in Nat : s[h] = Posicion(c, i)
        BY <4>1, Posic
      <4>3. c # g
        BY <1>2, <4>1, <4>2 DEF CortaEn
      <4> QED BY <3>2, <4>2, <4>3 DEF Cortar
    <3> QED BY <1>3, <3>1, <3>2
  <2>2. /\ \A f \in Hilos \ {h} : proximo'[f] = proximo[f]
        /\ ceros'[g] = ceros[g]
        /\ proximo'[h] = Posicion(c, 0) \/ proximo'[h] = Posicion(c, i + 1)
    BY <1>1, <2>1, BuscarEfecto
  <2>3. \A j : proximo'[h] # Posicion(g, j)
    BY <2>1, <2>2, Posic
  <2>4. /\ olds' = olds /\ s' = s /\ pc' = [pc EXCEPT ![h] = "guardar"]
    BY <1>3 DEF PrimeraLlamada, Cortar
  <2>5. \A f \in Hilos : pc'[f] = IF f = h THEN "guardar" ELSE pc[f]
    BY <2>4, <1>1 DEF Tipos
  <2> QED BY <1>2, <2>2, <2>3, <2>4, <2>5 DEF CortaEn, Pendiente
<1>4. CASE Cargar(h)
  <2>1. \A f \in Hilos : /\ pc'[f] = IF f = h THEN "cortar" ELSE pc[f]
                         /\ s'[f] = IF f = h THEN olds ELSE s[f]
    BY <1>4, <1>1 DEF Cargar, Tipos
  <2> QED BY <1>2, <1>4, <2>1 DEF Cargar, CortaEn, Pendiente
<1>5. CASE Guardar(h)
  <2>1. /\ \A f \in Hilos : pc'[f] = IF f = h THEN pc'[h] ELSE pc[f]
        /\ pc'[h] \in {"listo", "siguiente"} /\ pc[h] = "guardar" /\ olds' = proximo[h]
        /\ UNCHANGED <<ceros, s, proximo>>
    BY <1>5, <1>1 DEF Guardar, Tipos
  <2> QED BY <1>2, <2>1 DEF CortaEn, Pendiente
<1> QED BY <1>3, <1>4, <1>5 DEF Separar

\* Two threads that cut at once are both marked.
LEMMA MarcadosPaso ==
    ASSUME SInv, NEW h \in Hilos, Separar(h), Tipos'
    PROVE  Marcados'
<1> SUFFICES ASSUME NEW f \in Hilos, NEW g \in Hilos, f # g, Cortando(f)', Cortando(g)'
             PROVE  solapado'[f]
  BY DEF Marcados
<1>1. \A e \in Hilos : solapado[e] => solapado'[e]
  BY DEF SInv, Tipos, Separar, PrimeraLlamada, Cargar, Cortar, Guardar
<1>2. \A e \in Hilos \ {h} : pc'[e] = pc[e]
  BY DEF SInv, Tipos, Separar, PrimeraLlamada, Cargar, Cortar, Guardar
<1>3. CASE PrimeraLlamada(h)
  <2>1. \A e \in Hilos :
            solapado'[e] = (solapado[e] \/ (OtrosCortando(h) # {} /\ (e = h \/ Cortando(e))))
    BY <1>3 DEF PrimeraLlamada
  <2>2. CASE f = h
    <3>1. g \in OtrosCortando(h)
      BY <2>2, <1>2 DEF OtrosCortando, Cortando
    <3> QED BY <2>1, <2>2, <3>1
  <2>3. CASE g = h
    <3>1. f \in OtrosCortando(h) /\ Cortando(f)
      BY <2>3, <1>2 DEF OtrosCortando, Cortando
    <3> QED BY <2>1, <2>3, <3>1
  <2>4. CASE f # h /\ g # h
    <3>1. Cortando(f) /\ Cortando(g)
      BY <2>4, <1>2 DEF Cortando
    <3> QED BY <3>1, <1>1 DEF SInv, Marcados
  <2> QED BY <2>2, <2>3, <2>4
<1>4. CASE Cargar(h) \/ Cortar(h) \/ Guardar(h)
  <2>1. Cortando(h)
    BY <1>4 DEF Cortando, Cargar, Cortar, Guardar
  <2>2. Cortando(f) /\ Cortando(g)
    BY <2>1, <1>2 DEF Cortando
  <2> QED BY <2>2, <1>1 DEF SInv, Marcados
<1> QED BY <1>3, <1>4 DEF Separar

\* The step of a thread that is alone.
LEMMA SoloPropio ==
    ASSUME SInv, NEW h \in Hilos, Separar(h), Tipos', ~solapado'[h]
    PROVE  Solo(h)'
<1>1. ~solapado[h] /\ Tipos
  BY DEF SInv, Tipos, Separar, PrimeraLlamada, Cargar, Cortar, Guardar
<1>2. Solo(h)
  BY <1>1 DEF SInv
<1>3. /\ Tamanios(h) \in Nat /\ tabla[h] \in Seq(Posiciones)
      /\ (Cadenas[h] = <<>> <=> Tamanios(h) = 0) /\ Len(Cadenas[h]) = Tamanios(h)
  BY <1>1, Cadena DEF Tipos, Tamanios
<1>4. PICK n \in Nat : n = Len(tabla[h]) /\ n <= Tamanios(h)
  BY <1>2, <1>3 DEF Solo, Propios
<1>5. Tamanios(h)' = Tamanios(h)
  BY DEF Tamanios
<1>6. ASSUME tabla'[h] = tabla[h] PROVE Propios(h)' /\ Len(tabla'[h]) = n
  BY <1>2, <1>4, <1>5, <1>6 DEF Solo, Propios, Posicion
<1>7. ASSUME NEW i \in Nat, Buscar(h, Posicion(h, i)),
             i = 0 => n = Tamanios(h),
             i # 0 => i = n + 1 /\ n < Tamanios(h),
             ceros[h] \subseteq 1..n, tabla'[h] = tabla[h], pc'[h] = "guardar"
      PROVE  Solo(h)'
  <2>1. /\ token'[h] = IF i = 0 THEN NULL ELSE Posicion(h, i)
        /\ \/ proximo'[h] = Posicion(h, 0) /\ ceros' = ceros
           \/ /\ i # 0 /\ i \notin ceros[h] /\ i # Tamanios(h)
              /\ proximo'[h] = Posicion(h, i + 1)
              /\ ceros'[h] = ceros[h] \cup {i}
    BY <1>1, <1>3, <1>7, BuscarEfecto
  <2>2. CASE i = 0
    BY <1>6, <1>7, <2>1, <2>2, <1>5 DEF Solo
  <2>3. CASE i # 0
    <3>1. token'[h] = Posicion(h, n + 1) /\ n < Tamanios(h)
      BY <1>7, <2>1, <2>3
    <3>2. Ultimo(Posicion(h, i)) <=> i = Tamanios(h)
      BY <1>3, <1>4, <1>7, <2>3 DEF Ultimo, Posicion
    <3>3. proximo'[h] = IF i = Tamanios(h) THEN Posicion(h, 0) ELSE Posicion(h, i + 1)
      <4>1. /\ Posicion(h, i)[2] = i /\ Posicion(h, i)[1] = h
        BY DEF Posicion
      <4>2. proximo' = [proximo EXCEPT ![h] =
                            IF i = Tamanios(h) THEN Posicion(h, 0) ELSE Posicion(h, i + 1)]
        BY <1>7, <2>3, <3>2, <4>1 DEF Buscar, FinDeCadena
      <4> QED BY <4>2, <1>1 DEF Tipos
    <3>4. ceros'[h] \subseteq 1..(n + 1)
      BY <2>1, <1>7, <1>4, <2>3
    <3>5. proximo'[h] = Proxima(h, n + 1)'
      BY <3>3, <1>5, <1>7, <2>3 DEF Proxima, Posicion, FinDeCadena
    <3>6. token'[h] = Posicion(h, Len(tabla[h]) + 1)' /\ proximo'[h] = Proxima(h, Len(tabla[h]) + 1)'
      BY <3>1, <3>5, <1>4, <1>7 DEF Posicion, Proxima
    <3>7. Len(tabla'[h]) = n /\ Propios(h)'
      BY <1>6, <1>7
    <3> QED BY <3>1, <3>4, <3>6, <3>7, <1>5, <1>7 DEF Solo
  <2> QED BY <2>2, <2>3
<1>8. CASE PrimeraLlamada(h)
  <2>1. /\ pc[h] = "separar" /\ tabla[h] = <<>> /\ ceros[h] = {} /\ n = 0
        /\ tabla'[h] = tabla[h] /\ pc'[h] = "guardar" /\ Buscar(h, Comienzo(h))
    BY <1>1, <1>4, <1>8 DEF PrimeraLlamada, Tipos, SInv, SinEmpezar
  <2>2. PICK i \in {0, 1} : /\ Comienzo(h) = Posicion(h, i)
                            /\ i = 0 <=> Tamanios(h) = 0
    BY <1>3 DEF Comienzo, FinDeCadena
  <2> QED BY <1>3, <1>7, <2>1, <2>2
<1>9. CASE Cargar(h)
  <2>1. /\ pc[h] = "siguiente" /\ pc'[h] = "cortar" /\ s'[h] = olds
        /\ tabla'[h] = tabla[h] /\ ceros'[h] = ceros[h]
    BY <1>1, <1>9 DEF Cargar, Tipos
  <2>2. olds = Proxima(h, n) /\ ceros[h] \subseteq 1..n
    BY <1>2, <1>4, <2>1 DEF Solo
  <2>3. s'[h] = Proxima(h, Len(tabla[h]))'
    BY <2>1, <2>2, <1>4, <1>5 DEF Proxima, Posicion, FinDeCadena
  <2> QED BY <1>4, <1>6, <2>1, <2>2, <2>3 DEF Solo
<1>10. CASE Cortar(h)
  <2>1. /\ pc[h] = "cortar" /\ pc'[h] = "guardar" /\ tabla'[h] = tabla[h]
        /\ Buscar(h, s[h])
    BY <1>1, <1>10 DEF Cortar, Tipos
  <2>2. s[h] = Proxima(h, n) /\ ceros[h] \subseteq 1..n
    BY <1>2, <1>4, <2>1 DEF Solo
  <2>3. CASE n = Tamanios(h)
    <3>1. Buscar(h, Posicion(h, 0))
      BY <2>1, <2>2, <2>3 DEF Proxima, FinDeCadena
    <3> QED BY <3>1, <2>1, <2>2, <2>3, <1>7
  <2>4. CASE n # Tamanios(h)
    <3>1. Buscar(h, Posicion(h, n + 1)) /\ n < Tamanios(h) /\ n + 1 \in Nat /\ n + 1 # 0
      BY <2>1, <2>2, <2>4, <1>4, <1>3 DEF Proxima
    <3> QED BY <3>1, <2>1, <2>2, <1>7
  <2> QED BY <2>3, <2>4
<1>11. CASE Guardar(h)
  <2>1. pc[h] = "guardar" /\ ceros'[h] = ceros[h] /\ olds' = proximo[h]
    BY <1>11 DEF Guardar
  <2>2. CASE token[h] = NULL
    <3>1. tabla'[h] = tabla[h] /\ pc'[h] = "listo"
      BY <1>1, <1>11, <2>2 DEF Guardar, Tipos
    <3>2. n = Tamanios(h)
      <4>1. NULL # Posicion(h, n + 1)
        BY Posic, <1>4
      <4> QED BY <1>2, <1>4, <2>1, <2>2, <4>1 DEF Solo
    <3> QED BY <1>5, <1>6, <3>1, <3>2 DEF Solo
  <2>3. CASE token[h] # NULL
    <3>1. /\ token[h] = Posicion(h, n + 1) /\ n < Tamanios(h)
          /\ proximo[h] = Proxima(h, n + 1) /\ ceros[h] \subseteq 1..(n + 1)
      BY <1>2, <1>4, <2>1, <2>3 DEF Solo
    <3>2. tabla'[h] = Append(tabla[h], Posicion(h, n + 1)) /\ pc'[h] = "siguiente"
      BY <1>1, <1>11, <2>3, <3>1 DEF Guardar, Tipos
    <3>3. /\ Len(tabla'[h]) = n + 1
          /\ \A k \in 1..n : tabla'[h][k] = tabla[h][k]
          /\ tabla'[h][n + 1] = Posicion(h, n + 1)
      BY <1>3, <1>4, <3>2
    <3>4. \A k \in 1..n : tabla[h][k] = Posicion(h, k)
      BY <1>2, <1>4 DEF Solo, Propios
    <3>5. \A k \in 1..(n + 1) : tabla'[h][k] = Posicion(h, k)
      BY <3>3, <3>4
    <3>6. Propios(h)'
      BY <3>1, <3>3, <3>5, <1>3, <1>4, <1>5 DEF Propios, Posicion
    <3>7. olds' = Proxima(h, Len(tabla[h]))'
      BY <2>1, <3>1, <3>3, <1>5 DEF Proxima, Posicion, FinDeCadena
    <3> QED BY <2>1, <3>1, <3>2, <3>3, <3>6, <3>7 DEF Solo
  <2> QED BY <2>2, <2>3
<1> QED BY <1>8, <1>9, <1>10, <1>11 DEF Separar

\* At the start nobody has begun.
LEMMA SInicio == Init => SInv
<1> SUFFICES ASSUME Init PROVE SInv
  OBVIOUS
<1>1. Tipos
  BY RInicio DEF RInv
<1>2. SinEmpezar
  BY Posic DEF Init, SinEmpezar, CortaEn, Pendiente
<1>3. Marcados
  BY DEF Init, Marcados, Cortando
<1>4. \A h \in Hilos : Solo(h)
  BY Cadena DEF Init, Solo, Propios
<1> QED BY <1>1, <1>2, <1>3, <1>4 DEF SInv

\* Every step of a thread that is alone keeps its segments its own.
LEMMA SPaso == SInv /\ RInv /\ [Next]_vars => SInv'
<1> SUFFICES ASSUME SInv, RInv, [Next]_vars PROVE SInv'
  OBVIOUS
<1>1. Tipos'
  BY RPaso DEF RInv
<1>2. ASSUME NEW h \in Hilos, Separar(h) PROVE SInv'
  <2>1. \A g \in Hilos : ~solapado'[g] => Solo(g)'
    BY <1>1, <1>2, SoloDeOtros, SoloPropio
  <2> QED BY <1>1, <1>2, <2>1, SinEmpezarPaso, MarcadosPaso DEF SInv
<1>3. CASE UNCHANGED vars
  <2>1. UNCHANGED <<pc, olds, ceros, s, token, proximo, tabla, solapado>>
    BY <1>3 DEF vars
  <2>2. SinEmpezar' /\ Marcados'
    BY <2>1 DEF SInv, SinEmpezar, Marcados, Cortando, CortaEn, Pendiente, Posicion
  <2>3. ASSUME NEW h \in Hilos, ~solapado'[h] PROVE Solo(h)'
    <3>1. Solo(h)
      BY <2>1, <2>3 DEF SInv
    <3> QED BY <3>1, <2>1 DEF Solo, Propios, Proxima, Posicion, Tamanios, FinDeCadena
  <2> QED BY <1>1, <2>2, <2>3 DEF SInv
<1> QED BY <1>2, <1>3 DEF Next, Fin

\* Any number of consoles: a process whose thread was alone while it cut has
\* the segments its console asked for.
THEOREM TablaSinSolapeSiempre == Spec => []TablaSinSolape
<1>1. SInv => TablaSinSolape
  <2> SUFFICES ASSUME SInv, NEW h \in Hilos, pc[h] = "listo", ~solapado[h]
               PROVE  TablaSegmentos(h) = TablaPedida(h)
    BY DEF TablaSinSolape
  <2>1. Solo(h) /\ tabla[h] \in Seq(Posiciones)
    BY DEF SInv, Tipos
  <2>2. /\ Len(tabla[h]) = Len(Cadenas[h]) /\ Cadenas[h] \in Seq(Nat)
        /\ \A k \in 1..Len(tabla[h]) : tabla[h][k] = Posicion(h, k)
    BY <2>1, Cadena DEF Solo, Propios, Tamanios
  <2>3. DOMAIN tabla[h] = DOMAIN Cadenas[h] /\ DOMAIN tabla[h] = 1..Len(tabla[h])
    BY <2>1, <2>2
  <2>4. \A k \in DOMAIN tabla[h] : TamanioDe(tabla[h][k]) = Cadenas[h][k]
    BY <2>2, <2>3 DEF TamanioDe, Posicion
  <2> QED BY <2>3, <2>4 DEF TablaSegmentos, TablaPedida
<1>2. Init => SInv /\ RInv
  BY SInicio, RInicio
<1>3. SInv /\ RInv /\ [Next]_vars => SInv' /\ RInv'
  BY SPaso, RPaso
<1> QED BY <1>1, <1>2, <1>3, PTL DEF Spec
=============================================================================
