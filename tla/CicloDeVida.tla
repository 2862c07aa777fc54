------------------------------ MODULE CicloDeVida ------------------------------
(***************************************************************************)
(* What the kernel's scheduler promises about each process, with no        *)
(* thread, semaphore, list or socket in sight: processes are admitted in   *)
(* the order in which they arrive and never more than GradoMax of them,    *)
(* one executes at a time, and a process that executed is done.            *)
(***************************************************************************)
EXTENDS Integers, Sequences, FiniteSets

CONSTANTS Procesos, GradoMax

VARIABLES
    fase,   \* where each process is in its life
    nuevos  \* the processes that arrived and are not admitted, in order

vars == <<fase, nuevos>>

Fases == {"fuera", "nuevo", "listo", "ejecutando", "devuelto"}

Admitidos == {p \in Procesos : fase[p] \in {"listo", "ejecutando", "devuelto"}}

Init ==
    /\ fase = [p \in Procesos |-> "fuera"]
    /\ nuevos = <<>>

Llegar(p) ==
    /\ fase[p] = "fuera"
    /\ fase' = [fase EXCEPT ![p] = "nuevo"]
    /\ nuevos' = Append(nuevos, p)

Admitir ==
    /\ nuevos # <<>>
    /\ Cardinality(Admitidos) < GradoMax
    /\ fase' = [fase EXCEPT ![Head(nuevos)] = "listo"]
    /\ nuevos' = Tail(nuevos)

\* Which of the ready processes goes next is left to the algorithm.
Ejecutar(p) ==
    /\ fase[p] = "listo"
    /\ \A q \in Procesos : fase[q] # "ejecutando"
    /\ fase' = [fase EXCEPT ![p] = "ejecutando"]
    /\ UNCHANGED nuevos

Devolver(p) ==
    /\ fase[p] = "ejecutando"
    /\ fase' = [fase EXCEPT ![p] = "devuelto"]
    /\ UNCHANGED nuevos

Next ==
    \/ \E p \in Procesos : Llegar(p) \/ Ejecutar(p) \/ Devolver(p)
    \/ Admitir

Spec == Init /\ [][Next]_vars

\* A process that can be admitted, executed or returned eventually is.
SpecJusta ==
    /\ Spec
    /\ WF_vars(Admitir)
    /\ WF_vars(\E p \in Procesos : Ejecutar(p))
    /\ WF_vars(\E p \in Procesos : Devolver(p))
=============================================================================
