------------------------------- MODULE Segmentos -------------------------------
(***************************************************************************)
(* The threads of atender_cliente (src/Kernel/src/kernel_hilos.c) cut the  *)
(* segments of their consoles with strtok, which keeps one position for    *)
(* the whole process. A call loads it, looks for the end of the token and  *)
(* writes a zero there, and stores where the next one begins: three steps  *)
(* that other threads may come between.                                    *)
(***************************************************************************)
EXTENDS Integers, Sequences, FiniteSets

CONSTANTS
    Hilos,      \* one thread for each console
    Cadenas     \* the sizes each console sent, in the order of its string

ASSUME CadenasDeTamanios == Cadenas \in [Hilos -> Seq(Nat)]

VARIABLES
    pc,
    olds,          \* the position strtok keeps
    ceros,         \* the commas of each string where strtok wrote a zero
    s, token,      \* of each call: the position it loaded, the token it found
    proximo,       \* of each call: the position it will store
    tabla,         \* the tokens each thread has put in its table
    solapado       \* another thread was cutting at the same time

vars == <<pc, olds, ceros, s, token, proximo, tabla, solapado>>

\* A position is the beginning of a token of a string, or a final zero.
FinDeCadena == 0
Posicion(h, i) == <<h, i>>
NULL == <<>>

\* Between the first strtok and the one that gives NULL.
Cortando(h) == pc[h] \in {"guardar", "siguiente", "cortar"}
OtrosCortando(h) == {g \in Hilos \ {h} : Cortando(g)}

Init ==
    /\ pc = [h \in Hilos |-> "separar"]
    /\ olds = NULL
    /\ ceros = [h \in Hilos |-> {}]
    /\ s = [h \in Hilos |-> NULL]
    /\ token = [h \in Hilos |-> NULL]
    /\ proximo = [h \in Hilos |-> NULL]
    /\ tabla = [h \in Hilos |-> <<>>]
    /\ solapado = [h \in Hilos |-> FALSE]

-----------------------------------------------------------------------------
\* Mutant: no zero is written in the string.
UltimoSinCeros(p) == p[2] = Len(Cadenas[p[1]])
\* The token at a position ends at a comma, at a zero that was a comma, or at
\* the end of the string.
Ultimo(p) == p[2] = Len(Cadenas[p[1]]) \/ p[2] \in ceros[p[1]]

\* What strtok does from a position: the token, the zero after it, and the
\* position it will store.
Buscar(h, p) ==
    \/ /\ p[2] = FinDeCadena
       /\ token' = [token EXCEPT ![h] = NULL]
       /\ proximo' = [proximo EXCEPT ![h] = p]
       /\ UNCHANGED ceros
    \/ /\ p[2] # FinDeCadena
       /\ token' = [token EXCEPT ![h] = p]
       /\ IF Ultimo(p)
          THEN /\ proximo' = [proximo EXCEPT ![h] = Posicion(p[1], FinDeCadena)]
               /\ UNCHANGED ceros
          ELSE /\ proximo' = [proximo EXCEPT ![h] = Posicion(p[1], p[2] + 1)]
               /\ ceros' = [ceros EXCEPT ![p[1]] = @ \cup {p[2]}]

\* borrarElementosCadena gives each thread a string of its own, with no
\* brackets and no spaces; an empty one has no tokens.
Comienzo(h) == Posicion(h, IF Cadenas[h] = <<>> THEN FinDeCadena ELSE 1)

\* strtok(segmentosEnString, ","): nothing to load.
PrimeraLlamada(h) ==
    /\ pc[h] = "separar"
    /\ Buscar(h, Comienzo(h))
    /\ pc' = [pc EXCEPT ![h] = "guardar"]
    /\ solapado' = [g \in Hilos |->
           solapado[g] \/ (OtrosCortando(h) # {} /\ (g = h \/ Cortando(g)))]
    /\ UNCHANGED <<olds, s, tabla>>

\* strtok(NULL, ","): the string is whichever was cut last.
Cargar(h) ==
    /\ pc[h] = "siguiente"
    /\ s' = [s EXCEPT ![h] = olds]
    /\ pc' = [pc EXCEPT ![h] = "cortar"]
    /\ UNCHANGED <<olds, ceros, token, proximo, tabla, solapado>>

Cortar(h) ==
    /\ pc[h] = "cortar"
    /\ Buscar(h, s[h])
    /\ pc' = [pc EXCEPT ![h] = "guardar"]
    /\ UNCHANGED <<olds, s, tabla, solapado>>

\* Mutant: the loop does not look at the NULL that strtok returns.
GuardarSinFin(h) ==
    /\ pc[h] = "guardar"
    /\ olds' = proximo[h]
    /\ pc' = [pc EXCEPT ![h] = "siguiente"]
    /\ tabla' = IF token[h] = NULL THEN tabla ELSE [tabla EXCEPT ![h] = Append(@, token[h])]
    /\ UNCHANGED <<ceros, s, token, proximo, solapado>>

\* Mutant: the loop asks for the next token before it keeps the one it has.
GuardarSinPrimero(h) ==
    /\ pc[h] = "guardar"
    /\ olds' = proximo[h]
    /\ pc' = [pc EXCEPT ![h] = IF token[h] = NULL THEN "listo" ELSE "siguiente"]
    /\ tabla' = IF NULL \in {token[h], s[h]} THEN tabla
                ELSE [tabla EXCEPT ![h] = Append(@, token[h])]
    /\ UNCHANGED <<ceros, s, token, proximo, solapado>>

\* The position is stored and strtok returns: a token is a new segment, NULL
\* the end of the loop.
Guardar(h) ==
    /\ pc[h] = "guardar"
    /\ olds' = proximo[h]
    /\ IF token[h] = NULL
       THEN /\ pc' = [pc EXCEPT ![h] = "listo"]
            /\ UNCHANGED tabla
       ELSE /\ pc' = [pc EXCEPT ![h] = "siguiente"]
            /\ tabla' = [tabla EXCEPT ![h] = Append(@, token[h])]
    /\ UNCHANGED <<ceros, s, token, proximo, solapado>>

Separar(h) == PrimeraLlamada(h) \/ Cargar(h) \/ Cortar(h) \/ Guardar(h)

Fin == (\A h \in Hilos : pc[h] = "listo") /\ UNCHANGED vars

Next == (\E h \in Hilos : Separar(h)) \/ Fin

\* The system's scheduler runs every thread.
Spec == Init /\ [][Next]_vars /\ \A h \in Hilos : WF_vars(Separar(h))
-----------------------------------------------------------------------------
(* Properties *)

\* The t_segmentos a token makes, and the table of a thread.
TamanioDe(t) == Cadenas[t[1]][t[2]]
TablaSegmentos(h) ==
    [k \in DOMAIN tabla[h] |-> [idSegmento |-> k - 1, tamanioSegmentos |-> TamanioDe(tabla[h][k])]]
TablaPedida(h) ==
    [k \in DOMAIN Cadenas[h] |-> [idSegmento |-> k - 1, tamanioSegmentos |-> Cadenas[h][k]]]

\* A thread that was alone while it cut has the segments of its console: their
\* number, their order and their sizes.
TablaSinSolape ==
    \A h \in Hilos : pc[h] = "listo" /\ ~solapado[h] => TablaSegmentos(h) = TablaPedida(h)

\* Even when they cut each other's strings, no thread takes a token twice: the
\* zero that one call writes is the end of the string for the calls that loaded
\* the same position.
SinRepetidos ==
    \A h \in Hilos : \A j, k \in DOMAIN tabla[h] : tabla[h][j] = tabla[h][k] => j = k

\* So every thread leaves its loop.
Terminan == \A h \in Hilos : <>(pc[h] = "listo")

\* What the comment of the loop says of it: NULL goes on with the same string.
TablaPropia ==
    \A h \in Hilos : pc[h] = "listo" => TablaSegmentos(h) = TablaPedida(h)
=============================================================================
