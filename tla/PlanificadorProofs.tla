-------------------------- MODULE PlanificadorProofs --------------------------
(***************************************************************************)
(* Proofs about the scheduler, for any number of consoles, any degree of   *)
(* multiprogramming, the three algorithms and any CPU that answers in      *)
(* order.                                                                  *)
(***************************************************************************)
EXTENDS Planificador, SequenceTheorems, FiniteSetTheorems, TLAPS

-----------------------------------------------------------------------------
(* The lists of the commons library *)

\* queue_pop on a list that is not empty returns and removes its first element.
LEMMA PrimeroDeCola ==
  ASSUME NEW S, NEW q \in Seq(S), q # <<>>
  PROVE  /\ Primero(q) = Head(q) /\ Head(q) \in S
         /\ SinPrimero(q) = Tail(q) /\ Tail(q) \in Seq(S)
         /\ Len(Tail(q)) = Len(q) - 1
BY HeadTailProperties DEF Primero, SinPrimero

\* What sacar_PCB_READY_List takes from a list that is not empty, and leaves.
LEMMA UltimoDeCola ==
  ASSUME NEW S, NEW q \in Seq(S), q # <<>>
  PROVE  /\ Ultimo(q) = q[Len(q)] /\ q[Len(q)] \in S
         /\ SinUltimo(q) = SubSeq(q, 1, Len(q) - 1)
         /\ SinUltimo(q) \in Seq(S)
         /\ Len(SinUltimo(q)) = Len(q) - 1
         /\ \A i \in 1..(Len(q) - 1) : SinUltimo(q)[i] = q[i]
<1> DEFINE n == Len(q) - 1
<1>1. Len(q) \in Nat /\ n \in Nat /\ q[Len(q)] \in S
  BY EmptySeq, LenProperties, ElementOfSeq
<1>2. \A i \in 1..n : q[i] \in S
  BY <1>1, ElementOfSeq
<1>3. /\ SubSeq(q, 1, n) \in Seq(S)
      /\ Len(SubSeq(q, 1, n)) = IF 1 <= n THEN n - 1 + 1 ELSE 0
      /\ \A i \in 1..(n - 1 + 1) : SubSeq(q, 1, n)[i] = q[1 + i - 1]
  <2> HIDE DEF n
  <2> QED
    BY <1>1, <1>2, SubSeqProperties
<1>4. Len(SubSeq(q, 1, n)) = n /\ \A i \in 1..n : SubSeq(q, 1, n)[i] = q[i]
  <2> HIDE DEF n
  <2> QED
    BY <1>1, <1>3
<1> QED
  BY <1>1, <1>2, <1>3, <1>4 DEF Ultimo, SinUltimo

\* Whatever the list, what stays in it are processes, and NULL means it is empty.
LEMMA ColasCerradas ==
  ASSUME NEW q \in Seq(Procesos)
  PROVE  /\ Primero(q) \in Procesos \cup {Nulo} /\ SinPrimero(q) \in Seq(Procesos)
         /\ Ultimo(q) \in Procesos \cup {Nulo} /\ SinUltimo(q) \in Seq(Procesos)
<1>1. CASE q = <<>>
  BY <1>1 DEF Primero, SinPrimero, Ultimo, SinUltimo
<1>2. CASE q # <<>>
  <2>1. Primero(q) \in Procesos /\ SinPrimero(q) \in Seq(Procesos)
    BY <1>2, PrimeroDeCola
  <2>2. Ultimo(q) \in Procesos /\ SinUltimo(q) \in Seq(Procesos)
    BY <1>2, UltimoDeCola
  <2> QED
    BY <2>1, <2>2
<1> QED
  BY <1>1, <1>2
-----------------------------------------------------------------------------
(* Types *)

\* cambiarEstado writes one field of one PCB.
LEMMA CambiarEstado ==
  ASSUME NEW f \in [Procesos -> PCB], NEW p \in Procesos, NEW e \in Estados
  PROVE  /\ [f EXCEPT ![p].estado = e] \in [Procesos -> PCB]
         /\ \A q \in Procesos :
               /\ [f EXCEPT ![p].estado = e][q].pid = f[q].pid
               /\ [f EXCEPT ![p].estado = e][q].instrucciones = f[q].instrucciones
<1>1. [f[p] EXCEPT !.estado = e] \in PCB
  BY DEF PCB
<1>2. [f EXCEPT ![p].estado = e] = [f EXCEPT ![p] = [f[p] EXCEPT !.estado = e]]
  OBVIOUS
<1>3. \A q \in Procesos :
         /\ [f EXCEPT ![p] = [f[p] EXCEPT !.estado = e]][q].pid = f[q].pid
         /\ [f EXCEPT ![p] = [f[p] EXCEPT !.estado = e]][q].instrucciones = f[q].instrucciones
  BY DEF PCB
<1> QED
  BY <1>1, <1>2, <1>3

\* The types hold at the start.
LEMMA TiposInit == Init => Tipos
<1> SUFFICES ASSUME Init
             PROVE  Tipos
  OBVIOUS
<1>1. pcb \in [Procesos -> PCB]
  BY DEF Init, PCB, Estados, SinPid
<1>2. /\ <<>> \in Seq(Procesos)
      /\ <<>> \in Seq(PCB)
  BY EmptySeq
<1> QED
  BY <1>1, <1>2 DEF Init, Tipos, TypeOK, PunterosValidos, SemaforosIniciales,
     PasosConsola, PasosLP, PasosCP

\* Every step of the kernel's threads keeps the types.
LEMMA TiposNext == Tipos /\ [Next]_vars => Tipos'
<1> SUFFICES ASSUME Tipos, [Next]_vars
             PROVE  Tipos'
  OBVIOUS
<1> USE DEF Tipos, TypeOK, PunterosValidos, colas, contadores, semaforos,
            hiloLP, hiloCP, socket
<1>1. ASSUME NEW p \in Procesos, CrearPCB(p)
      PROVE  Tipos'
  <2>1. pcb' \in [Procesos -> PCB]
    BY <1>1 DEF CrearPCB, PCB, Estados
  <2>2. consola' \in [Procesos -> PasosConsola]
    BY <1>1 DEF CrearPCB, PasosConsola
  <2> QED
    BY <1>1, <2>1, <2>2 DEF CrearPCB, ProximoPid
<1>2. ASSUME NEW p \in Procesos, AgregarNEW(p)
      PROVE  Tipos'
  <2>1. colaNEW' \in Seq(Procesos)
    BY <1>2, AppendProperties DEF AgregarNEW
  <2>2. consola' \in [Procesos -> PasosConsola]
    BY <1>2 DEF AgregarNEW, PasosConsola
  <2> QED
    BY <1>2, <2>1, <2>2 DEF AgregarNEW
<1>3. ASSUME NEW p \in Procesos, AvisarLargoPlazo(p)
      PROVE  Tipos'
  <2>1. consola' \in [Procesos -> PasosConsola]
    BY <1>3 DEF AvisarLargoPlazo, PasosConsola
  <2> QED
    BY <1>3, <2>1 DEF AvisarLargoPlazo
<1>4. CASE EsperarDespertar
  BY <1>4 DEF EsperarDespertar, PasosLP
<1>5. CASE EvaluarGrado
  BY <1>5 DEF EvaluarGrado, PasosLP
<1>6. CASE SacarNEW
  <2>1. pcbLP' \in Procesos \cup {Nulo} /\ colaNEW' \in Seq(Procesos)
    BY <1>6, ColasCerradas DEF SacarNEW
  <2> QED
    BY <1>6, <2>1 DEF SacarNEW, PasosLP
<1>7. CASE AgregarREADY
  <2>1. colaREADY' \in Seq(Procesos)
    BY <1>7, AppendProperties DEF AgregarREADY
  <2> QED
    BY <1>7, <2>1 DEF AgregarREADY, PasosLP
<1>8. CASE AvisarREADY
  BY <1>8 DEF AvisarREADY, PasosLP
<1>9. CASE SumarProcesoEnMemoria
  BY <1>9 DEF SumarProcesoEnMemoria, SumarCantidadDeProcesosEnMemoria, PasosLP
<1>10. CASE CambiarEstadoLP
  <2>1. pcb' \in [Procesos -> PCB]
    BY <1>10, CambiarEstado DEF CambiarEstadoLP, Estados
  <2> QED
    BY <1>10, <2>1 DEF CambiarEstadoLP, PasosLP
<1>11. CASE EsperarREADY
  BY <1>11 DEF EsperarREADY, PasosCP
<1>12. CASE EsperarEXECUTING
  BY <1>12 DEF EsperarEXECUTING, PasosCP
<1>13. CASE RevisarColaDeREADY
  BY <1>13 DEF RevisarColaDeREADY, PasosCP
<1>14. CASE SacarREADY
  <2>1. pcbCP' \in Procesos \cup {Nulo} /\ colaREADY' \in Seq(Procesos)
    BY <1>14, ColasCerradas DEF SacarREADY
  <2> QED
    BY <1>14, <2>1 DEF SacarREADY, PasosCP
<1>15. CASE AgregarEXEC
  <2>1. colaEXEC' \in Seq(Procesos)
    BY <1>15, AppendProperties DEF AgregarEXEC
  <2> QED
    BY <1>15, <2>1 DEF AgregarEXEC, PasosCP
<1>16. CASE CambiarEstadoCP
  <2>1. pcb' \in [Procesos -> PCB]
    BY <1>16, CambiarEstado DEF CambiarEstadoCP, Estados
  <2> QED
    BY <1>16, <2>1 DEF CambiarEstadoCP, PasosCP
<1>17. CASE EjecutarProceso
  <2>1. aCPU' \in Seq(PCB)
    BY <1>17, AppendProperties DEF EjecutarProceso
  <2>2. pcCP' \in PasosCP /\ pcCP' \notin {"agregarEXEC", "cambiarEstado", "ejecutar", "recibir"}
    BY <1>17, AlgoritmoConocido DEF EjecutarProceso, TrasEjecutar, PasosCP
  <2> QED
    BY <1>17, <2>1, <2>2 DEF EjecutarProceso
<1>18. CASE SacarEXEC
  <2>1. pcbCP' \in Procesos \cup {Nulo} /\ colaEXEC' \in Seq(Procesos)
    BY <1>18, ColasCerradas DEF SacarEXEC
  <2> QED
    BY <1>18, <2>1 DEF SacarEXEC, PasosCP
<1>19. CASE RecibirPCB
  <2>1. Head(deCPU) \in PCB /\ deCPU' \in Seq(PCB)
    BY <1>19, HeadTailProperties DEF RecibirPCB
  <2>2. pcb' \in [Procesos -> PCB]
    BY <1>19, <2>1 DEF RecibirPCB
  <2> QED
    BY <1>19, <2>1, <2>2 DEF RecibirPCB, PasosCP
<1>20. CASE LiberarEXECUTING
  BY <1>20 DEF LiberarEXECUTING, PasosCP
<1>21. CASE ComienzoDeQuantum
  BY <1>21 DEF ComienzoDeQuantum, PasosCP
<1>22. CASE EsperarQuantum
  BY <1>22 DEF EsperarQuantum
<1>23. CASE DormirQuantum
  BY <1>23 DEF DormirQuantum
<1>24. CASE CPUContesta
  <2>1. Head(aCPU) \in PCB /\ aCPU' \in Seq(PCB)
    BY <1>24, HeadTailProperties DEF CPUContesta
  <2>2. PICK pid \in PidsCPU : deCPU' = Append(deCPU, [Head(aCPU) EXCEPT !.pid = pid])
    BY <1>24 DEF CPUContesta
  <2>3. [Head(aCPU) EXCEPT !.pid = pid] \in PCB
    BY <2>1, PidsEnteros DEF PCB
  <2>4. deCPU' \in Seq(PCB)
    BY <2>2, <2>3, AppendProperties
  <2> QED
    BY <1>24, <2>1, <2>4 DEF CPUContesta
<1>25. CASE UNCHANGED vars
  BY <1>25 DEF vars
<1> QED
  BY <1>1, <1>2, <1>3, <1>4, <1>5, <1>6, <1>7, <1>8, <1>9, <1>10, <1>11,
     <1>12, <1>13, <1>14, <1>15, <1>16, <1>17, <1>18, <1>19, <1>20, <1>21,
     <1>22, <1>23, <1>24, <1>25
     DEF Next, Consola, LargoPlazo, CortoPlazo, ContadorQuantum

\* The variables keep their types in every behaviour of the kernel's threads.
THEOREM TipoCorrecto == Spec => []TypeOK
<1>1. Spec => []Tipos
  BY TiposInit, TiposNext, PTL DEF Spec
<1>2. Tipos => TypeOK
  BY DEF Tipos
<1> QED
  BY <1>1, <1>2, PTL
-----------------------------------------------------------------------------
(* Nobody takes from an empty list, and one PCB executes at a time *)

\* semaforoProcesoREADY counts colaREADY through every step.
LEMMA AvisosDeREADYNext ==
  Tipos /\ AvisosDeREADY /\ [Next]_vars => AvisosDeREADY'
<1> SUFFICES ASSUME Tipos, AvisosDeREADY, [Next]_vars
             PROVE  AvisosDeREADY'
  OBVIOUS
<1> USE DEF AvisosDeREADY, Uno, colas, contadores, semaforos, hiloLP, hiloCP, socket
<1>0. Len(colaREADY) \in Nat /\ semaforoProcesoREADY \in Nat
  BY LenProperties DEF Tipos, TypeOK
<1>1. ASSUME NEW p \in Procesos, Consola(p)
      PROVE  AvisosDeREADY'
  BY <1>1 DEF Consola, CrearPCB, AgregarNEW, AvisarLargoPlazo
<1>2. CASE EsperarDespertar \/ EvaluarGrado \/ SacarNEW \/ SumarProcesoEnMemoria \/ CambiarEstadoLP
  BY <1>2 DEF EsperarDespertar, EvaluarGrado, SacarNEW, SumarProcesoEnMemoria, CambiarEstadoLP
<1>3. CASE AgregarREADY
  <2>1. Len(colaREADY') = Len(colaREADY) + 1
    BY <1>3, AppendProperties DEF AgregarREADY, Tipos, TypeOK, PunterosValidos
  <2> QED
    BY <1>0, <1>3, <2>1 DEF AgregarREADY
<1>4. CASE AvisarREADY
  BY <1>0, <1>4 DEF AvisarREADY
<1>5. CASE EsperarREADY
  BY <1>0, <1>5 DEF EsperarREADY
<1>6. CASE EsperarEXECUTING \/ RevisarColaDeREADY
  BY <1>6 DEF EsperarEXECUTING, RevisarColaDeREADY
<1>7. CASE SacarREADY
  <2>1. colaREADY # <<>>
    BY <1>0, <1>7, EmptySeq DEF SacarREADY
  <2>2. Len(colaREADY') = Len(colaREADY) - 1
    BY <1>7, <2>1, UltimoDeCola DEF SacarREADY, Tipos, TypeOK
  <2> QED
    BY <1>0, <1>7, <2>2 DEF SacarREADY
<1>8. CASE AgregarEXEC \/ CambiarEstadoCP \/ SacarEXEC \/ RecibirPCB
           \/ LiberarEXECUTING \/ ComienzoDeQuantum
  BY <1>8 DEF AgregarEXEC, CambiarEstadoCP, SacarEXEC, RecibirPCB,
     LiberarEXECUTING, ComienzoDeQuantum
<1>9. CASE EjecutarProceso
  BY <1>9, AlgoritmoConocido DEF EjecutarProceso, TrasEjecutar
<1>10. CASE ContadorQuantum \/ CPUContesta \/ UNCHANGED vars
  BY <1>10 DEF ContadorQuantum, EsperarQuantum, DormirQuantum, CPUContesta, vars
<1> QED
  BY <1>1, <1>2, <1>3, <1>4, <1>5, <1>6, <1>7, <1>8, <1>9, <1>10
     DEF Next, LargoPlazo, CortoPlazo

\* The consoles about to post are finitely many, as all of them are.
LEMMA AvisandoFinito ==
  /\ IsFiniteSet(Avisando)
  /\ Cardinality(Avisando) \in Nat
<1>1. IsFiniteSet(Avisando)
  BY ProcesosFinitos, FS_Subset DEF Avisando
<1> QED
  BY <1>1, FS_CardinalityType

\* Wake-ups never outnumber colaNEW, and match it while there is room.
LEMMA AvisosDeNEWNext ==
  Tipos /\ AvisosDeNEW /\ [Next]_vars => AvisosDeNEW'
<1> SUFFICES ASSUME Tipos, AvisosDeNEW, [Next]_vars
             PROVE  AvisosDeNEW'
  OBVIOUS
<1> USE DEF AvisosDeNEW, AvisosPendientes, Uno, colas, contadores, semaforos,
            hiloLP, hiloCP, socket
<1>0. /\ Len(colaNEW) \in Nat /\ despertarPlanificadorLargoPlazo \in Nat
      /\ contadorProcesosEnMemoria \in Nat /\ GradoMax \in Nat
      /\ Cardinality(Avisando) \in Nat
  BY LenProperties, AvisandoFinito, GradoNatural DEF Tipos, TypeOK
<1>1. ASSUME NEW p \in Procesos, CrearPCB(p)
      PROVE  AvisosDeNEW'
  <2>1. Avisando' = Avisando
    BY <1>1 DEF CrearPCB, Avisando, Tipos, TypeOK
  <2> QED
    BY <1>1, <2>1 DEF CrearPCB
<1>2. ASSUME NEW p \in Procesos, AgregarNEW(p)
      PROVE  AvisosDeNEW'
  <2>1. Avisando' = Avisando \cup {p} /\ p \notin Avisando
    BY <1>2 DEF AgregarNEW, Avisando, Tipos, TypeOK
  <2>2. Cardinality(Avisando') = Cardinality(Avisando) + 1
    BY <2>1, AvisandoFinito, FS_AddElement
  <2>3. Len(colaNEW') = Len(colaNEW) + 1
    BY <1>2, AppendProperties DEF AgregarNEW, Tipos, TypeOK
  <2>4. /\ contadorProcesosEnMemoria' = contadorProcesosEnMemoria
        /\ despertarPlanificadorLargoPlazo' = despertarPlanificadorLargoPlazo
        /\ pcLP' = pcLP
    BY <1>2 DEF AgregarNEW
  <2> QED
    BY <1>0, <2>2, <2>3, <2>4
<1>3. ASSUME NEW p \in Procesos, AvisarLargoPlazo(p)
      PROVE  AvisosDeNEW'
  <2>1. Avisando' = Avisando \ {p} /\ p \in Avisando
    BY <1>3 DEF AvisarLargoPlazo, Avisando, Tipos, TypeOK
  <2>2. Cardinality(Avisando') = Cardinality(Avisando) - 1
    BY <2>1, AvisandoFinito, FS_RemoveElement
  <2> QED
    BY <1>0, <1>3, <2>2 DEF AvisarLargoPlazo
<1>4. CASE EsperarDespertar
  BY <1>0, <1>4 DEF EsperarDespertar, Avisando
<1>5. CASE EvaluarGrado
  BY <1>0, <1>5 DEF EvaluarGrado, EvaluarGradoDeMultiprogramacion, Avisando
<1>6. CASE SacarNEW
  <2>1. colaNEW # <<>>
    BY <1>0, <1>6, EmptySeq DEF SacarNEW
  <2>2. Len(colaNEW') = Len(colaNEW) - 1
    BY <1>6, <2>1, PrimeroDeCola DEF SacarNEW, Tipos, TypeOK
  <2> QED
    BY <1>0, <1>6, <2>2 DEF SacarNEW, Avisando
<1>7. CASE SumarProcesoEnMemoria
  BY <1>0, <1>7 DEF SumarProcesoEnMemoria, SumarCantidadDeProcesosEnMemoria, Avisando
<1>8. CASE AgregarREADY \/ AvisarREADY \/ CambiarEstadoLP
  BY <1>8 DEF AgregarREADY, AvisarREADY, CambiarEstadoLP, Avisando
<1>9. CASE CortoPlazo
  BY <1>9 DEF CortoPlazo, EsperarREADY, EsperarEXECUTING, RevisarColaDeREADY,
     SacarREADY, AgregarEXEC, CambiarEstadoCP, EjecutarProceso, SacarEXEC,
     RecibirPCB, LiberarEXECUTING, ComienzoDeQuantum, Avisando
<1>10. CASE ContadorQuantum \/ CPUContesta \/ UNCHANGED vars
  BY <1>10 DEF ContadorQuantum, EsperarQuantum, DormirQuantum, CPUContesta, vars, Avisando
<1> QED
  BY <1>1, <1>2, <1>3, <1>4, <1>5, <1>6, <1>7, <1>8, <1>9, <1>10
     DEF Next, Consola, LargoPlazo
\* A list of one, as colaEXEC always is when it is not empty.
LEMMA ColaDeUno ==
  ASSUME NEW x \in Procesos
  PROVE  /\ Append(<<>>, x) = <<x>> /\ Len(<<x>>) = 1
         /\ Primero(<<x>>) = x /\ SinPrimero(<<x>>) = <<>>
BY DEF Primero, SinPrimero

\* colaEXEC, the socket and semaforoProcesoEXECUTING agree through every step.
LEMMA ExclusionNext ==
  Tipos /\ Exclusion /\ SinCaida /\ [Next]_vars => Exclusion'
<1> SUFFICES ASSUME Tipos, Exclusion, SinCaida, [Next]_vars
             PROVE  Exclusion'
  OBVIOUS
<1> USE DEF Exclusion, EnVuelo, colas, contadores, semaforos, hiloLP, hiloCP, socket
<1>0. /\ semaforoProcesoEXECUTING \in Nat /\ Len(colaEXEC) \in Nat
      /\ Len(aCPU) \in Nat /\ Len(deCPU) \in Nat
  BY LenProperties DEF Tipos, TypeOK
<1>1. ASSUME NEW p \in Procesos, Consola(p)
      PROVE  Exclusion'
  BY <1>1 DEF Consola, CrearPCB, AgregarNEW, AvisarLargoPlazo
<1>2. CASE LargoPlazo
  BY <1>2 DEF LargoPlazo, EsperarDespertar, EvaluarGrado, SacarNEW,
     AgregarREADY, AvisarREADY, SumarProcesoEnMemoria, CambiarEstadoLP
<1>3. CASE EsperarREADY
  BY <1>3 DEF EsperarREADY
<1>4. CASE EsperarEXECUTING
  BY <1>0, <1>4 DEF EsperarEXECUTING
<1>5. CASE RevisarColaDeREADY
  BY <1>5 DEF RevisarColaDeREADY
<1>6. CASE SacarREADY
  BY <1>6 DEF SacarREADY
<1>7. CASE AgregarEXEC
  <2>1. colaEXEC' = <<pcbCP>> /\ Len(colaEXEC') = 1
    BY <1>7, ColaDeUno DEF AgregarEXEC, Tipos, PunterosValidos, SinCaida
  <2> QED
    BY <1>0, <1>7, <2>1 DEF AgregarEXEC
<1>8. CASE CambiarEstadoCP
  BY <1>8 DEF CambiarEstadoCP
<1>9. CASE EjecutarProceso
  <2>1. Len(aCPU') = Len(aCPU) + 1
    BY <1>9, AppendProperties DEF EjecutarProceso, Tipos, TypeOK, PunterosValidos, SinCaida
  <2>2. pcCP' \in {"esperarREADY", "sacarEXEC", "comienzoQuantum"}
    BY <1>9, AlgoritmoConocido DEF EjecutarProceso, TrasEjecutar
  <2> QED
    BY <1>0, <1>9, <2>1, <2>2 DEF EjecutarProceso
<1>10. CASE SacarEXEC
  <2>1. colaEXEC = <<pcbCP>> /\ EnVuelo = 1
    BY <1>10 DEF SacarEXEC
  <2>2. pcbCP \in Procesos
    BY <2>1, ElementOfSeq DEF Tipos, TypeOK
  <2>3. colaEXEC' = <<>> /\ Len(colaEXEC') = 0
    BY <1>10, <2>1, <2>2, ColaDeUno DEF SacarEXEC
  <2> QED
    BY <1>0, <1>10, <2>1, <2>3 DEF SacarEXEC
<1>11. CASE RecibirPCB
  <2>1. Len(deCPU') = Len(deCPU) - 1
    BY <1>11, HeadTailProperties DEF RecibirPCB, Tipos, TypeOK
  <2> QED
    BY <1>0, <1>11, <2>1 DEF RecibirPCB
<1>12. CASE LiberarEXECUTING
  BY <1>0, <1>12 DEF LiberarEXECUTING
<1>13. CASE ComienzoDeQuantum
  BY <1>13 DEF ComienzoDeQuantum
<1>14. CASE CPUContesta
  <2>1. Head(aCPU) \in PCB /\ Len(aCPU') = Len(aCPU) - 1
    BY <1>14, HeadTailProperties DEF CPUContesta, Tipos, TypeOK
  <2>2. PICK pid \in PidsCPU : deCPU' = Append(deCPU, [Head(aCPU) EXCEPT !.pid = pid])
    BY <1>14 DEF CPUContesta
  <2>3. [Head(aCPU) EXCEPT !.pid = pid] \in PCB
    BY <2>1, PidsEnteros DEF PCB
  <2>4. Len(deCPU') = Len(deCPU) + 1
    BY <2>2, <2>3, AppendProperties DEF Tipos, TypeOK
  <2>5. EnVuelo' = EnVuelo
    BY <1>0, <2>1, <2>4
  <2> QED
    BY <1>14, <2>5 DEF CPUContesta
<1>15. CASE ContadorQuantum \/ UNCHANGED vars
  BY <1>15 DEF ContadorQuantum, EsperarQuantum, DormirQuantum, vars
<1> QED
  BY <1>1, <1>2, <1>3, <1>4, <1>5, <1>6, <1>7, <1>8, <1>9, <1>10, <1>11,
     <1>12, <1>13, <1>14, <1>15 DEF Next, CortoPlazo

\* Whoever takes from a list has the token that says there is something in it.
LEMMA SinCaidaNext ==
  Tipos /\ Turnos /\ [Next]_vars => SinCaida'
<1> SUFFICES ASSUME Tipos, Turnos, [Next]_vars
             PROVE  SinCaida'
  OBVIOUS
<1> USE DEF Turnos, SinCaida
<1>0. /\ colaNEW \in Seq(Procesos) /\ colaREADY \in Seq(Procesos)
      /\ colaEXEC \in Seq(Procesos)
      /\ despertarPlanificadorLargoPlazo \in Nat /\ semaforoProcesoREADY \in Nat
  BY DEF Tipos, TypeOK
<1>1. CASE SacarNEW
  <2>1. colaNEW # <<>>
    BY <1>0, <1>1, AvisandoFinito, EmptySeq
       DEF SacarNEW, AvisosDeNEW, AvisosPendientes, Uno
  <2> QED
    BY <1>0, <1>1, <2>1, PrimeroDeCola, NuloAparte DEF SacarNEW
<1>2. CASE RevisarColaDeREADY \/ SacarREADY
  <2>1. colaREADY # <<>>
    BY <1>0, <1>2, EmptySeq DEF RevisarColaDeREADY, SacarREADY, AvisosDeREADY, Uno
  <2>2. Ultimo(colaREADY) # Nulo
    BY <1>0, <2>1, UltimoDeCola, NuloAparte
  <2> QED
    BY <1>2, <2>1, <2>2 DEF RevisarColaDeREADY, SacarREADY
<1>3. CASE SacarEXEC
  <2>1. colaEXEC # <<>>
    BY <1>3 DEF SacarEXEC, Exclusion
  <2> QED
    BY <1>0, <1>3, <2>1, PrimeroDeCola, NuloAparte DEF SacarEXEC
<1>4. ASSUME ~SacarNEW, ~RevisarColaDeREADY, ~SacarREADY, ~SacarEXEC
      PROVE  SinCaida'
  BY <1>4 DEF Next, Consola, CrearPCB, AgregarNEW, AvisarLargoPlazo,
     LargoPlazo, EsperarDespertar, EvaluarGrado, AgregarREADY, AvisarREADY,
     SumarProcesoEnMemoria, CambiarEstadoLP, CortoPlazo, EsperarREADY,
     EsperarEXECUTING, AgregarEXEC, CambiarEstadoCP, EjecutarProceso,
     RecibirPCB, LiberarEXECUTING, ComienzoDeQuantum, ContadorQuantum,
     EsperarQuantum, DormirQuantum, CPUContesta, vars
<1> QED
  BY <1>1, <1>2, <1>3, <1>4

\* At the start the lists are empty and the semaphores say so.
LEMMA TurnosInit == Init => Turnos
<1> SUFFICES ASSUME Init
             PROVE  Turnos
  OBVIOUS
<1>1. Avisando = {} /\ Cardinality(Avisando) = 0
  BY FS_EmptySet DEF Init, Avisando
<1> QED
  BY <1>1 DEF Init, Turnos, AvisosDeNEW, AvisosPendientes, AvisosDeREADY,
     Exclusion, EnVuelo, SinCaida, Uno, SemaforosIniciales

\* The semaphores' counts hold in every state.
LEMMA TurnosSiempre == Spec => [](Tipos /\ Turnos)
<1>1. Init => Tipos /\ Turnos
  BY TiposInit, TurnosInit
<1>2. Tipos /\ Turnos /\ [Next]_vars => (Tipos /\ Turnos)'
  BY TiposNext, AvisosDeNEWNext, AvisosDeREADYNext, ExclusionNext, SinCaidaNext DEF Turnos
<1> QED
  BY <1>1, <1>2, PTL DEF Spec

\* No scheduler takes a PCB from an empty list, whatever the interleaving of
\* consoles and schedulers: the kernel never dereferences the NULL it would get.
THEOREM KernelNoCae == Spec => []SinCaida
BY TurnosSiempre, PTL DEF Turnos

\* While there is room for it, a process in colaNEW has a wake-up on its way.
THEOREM NoSePierdenAvisos == Spec => []AvisosDeNEW
BY TurnosSiempre, PTL DEF Turnos

\* semaforoProcesoREADY is exact.
THEOREM READYExacto == Spec => []AvisosDeREADY
BY TurnosSiempre, PTL DEF Turnos

\* One PCB at most is with the CPU, with any of the three algorithms.
THEOREM ExclusionDeCPU == Spec => []UnSoloEnCPU
<1>1. Tipos /\ Turnos => UnSoloEnCPU
  <2> SUFFICES ASSUME Tipos, Turnos
               PROVE  UnSoloEnCPU
    OBVIOUS
  <2>1. Len(aCPU) \in Nat /\ Len(deCPU) \in Nat
    BY LenProperties DEF Tipos, TypeOK
  <2> QED
    BY <2>1 DEF Turnos, Exclusion, EnVuelo, UnSoloEnCPU, Uno
<1> QED
  BY <1>1, TurnosSiempre, PTL
-----------------------------------------------------------------------------
(* A PCB gets its own program back *)

\* What is in the socket while RR waits is what RR sent.
LEMMA ProgramaNext ==
  Tipos /\ Turnos /\ ProgramaConservado /\ MensajePropio /\ [Next]_vars
    => (ProgramaConservado /\ MensajePropio)'
<1> SUFFICES ASSUME Tipos, Turnos, ProgramaConservado, MensajePropio, [Next]_vars
             PROVE  (ProgramaConservado /\ MensajePropio)'
  OBVIOUS
<1> USE DEF colas, contadores, semaforos, hiloLP, hiloCP, socket
<1>0. /\ pcb \in [Procesos -> PCB] /\ aCPU \in Seq(PCB) /\ deCPU \in Seq(PCB)
      /\ Len(aCPU) \in Nat /\ Len(deCPU) \in Nat
      /\ DOMAIN aCPU = 1..Len(aCPU) /\ DOMAIN deCPU = 1..Len(deCPU)
  BY LenProperties DEF Tipos, TypeOK
<1>1. ASSUME NEW p \in Procesos, CrearPCB(p)
      PROVE  (ProgramaConservado /\ MensajePropio)'
  BY <1>0, <1>1 DEF CrearPCB, ProgramaConservado, MensajePropio
<1>2. ASSUME NEW p \in Procesos, AgregarNEW(p) \/ AvisarLargoPlazo(p)
      PROVE  (ProgramaConservado /\ MensajePropio)'
  BY <1>2 DEF AgregarNEW, AvisarLargoPlazo, ProgramaConservado, MensajePropio
<1>3. CASE EsperarDespertar \/ EvaluarGrado \/ SacarNEW \/ AgregarREADY
           \/ AvisarREADY \/ SumarProcesoEnMemoria
  BY <1>3 DEF EsperarDespertar, EvaluarGrado, SacarNEW, AgregarREADY,
     AvisarREADY, SumarProcesoEnMemoria, ProgramaConservado, MensajePropio
<1>4. CASE CambiarEstadoLP
  <2>1. ProgramaConservado'
    BY <1>0, <1>4, CambiarEstado DEF CambiarEstadoLP, Tipos, PunterosValidos,
       Estados, ProgramaConservado
  <2> QED
    BY <1>4, <2>1 DEF CambiarEstadoLP, MensajePropio
<1>5. CASE CambiarEstadoCP
  <2>1. ProgramaConservado'
    BY <1>0, <1>5, CambiarEstado DEF CambiarEstadoCP, Tipos, PunterosValidos,
       Estados, ProgramaConservado
  <2> QED
    BY <1>5, <2>1 DEF CambiarEstadoCP, MensajePropio
<1>6. CASE EjecutarProceso
  <2>1. pcbCP \in Procesos /\ Len(aCPU) = 0 /\ Len(deCPU) = 0
    BY <1>0, <1>6 DEF EjecutarProceso, Tipos, PunterosValidos, Turnos, Exclusion, EnVuelo
  <2>2. pcb[pcbCP] \in PCB /\ pcb[pcbCP].instrucciones = pcbCP
    BY <1>0, <2>1 DEF ProgramaConservado
  <2>3. aCPU' \in Seq(PCB) /\ Len(aCPU') = 1 /\ aCPU'[1] = pcb[pcbCP]
    BY <1>0, <1>6, <2>1, <2>2, AppendProperties DEF EjecutarProceso
  <2>4. DOMAIN aCPU' = 1..1
    BY <2>3, LenProperties
  <2>5. pcbCP' = pcbCP /\ deCPU' = deCPU /\ pcb' = pcb
    BY <1>6 DEF EjecutarProceso
  <2>6. MensajePropio'
    BY <1>0, <2>1, <2>2, <2>3, <2>4, <2>5 DEF MensajePropio
  <2> QED
    BY <2>5, <2>6 DEF ProgramaConservado
<1>7. CASE SacarEXEC
  <2>1. colaEXEC = <<pcbCP>>
    BY <1>7 DEF SacarEXEC, Turnos, Exclusion
  <2>2. pcbCP' = pcbCP
    BY <1>7, <2>1 DEF SacarEXEC, Primero
  <2> QED
    BY <1>7, <2>2 DEF SacarEXEC, MensajePropio, ProgramaConservado
<1>8. CASE RecibirPCB
  <2>1. pcbCP \in Procesos /\ Head(deCPU) = deCPU[1] /\ 1 \in DOMAIN deCPU
    BY <1>0, <1>8, EmptySeq DEF RecibirPCB, Tipos, PunterosValidos
  <2>2. Head(deCPU).instrucciones = pcbCP
    BY <1>8, <2>1 DEF RecibirPCB, MensajePropio
  <2>3. ProgramaConservado'
    BY <1>0, <1>8, <2>1, <2>2 DEF RecibirPCB, ProgramaConservado
  <2> QED
    BY <1>8, <2>3 DEF RecibirPCB, MensajePropio
<1>9. CASE EsperarREADY \/ EsperarEXECUTING \/ RevisarColaDeREADY \/ SacarREADY
           \/ AgregarEXEC \/ LiberarEXECUTING \/ ComienzoDeQuantum
  BY <1>9 DEF EsperarREADY, EsperarEXECUTING, RevisarColaDeREADY, SacarREADY,
     AgregarEXEC, LiberarEXECUTING, ComienzoDeQuantum, ProgramaConservado, MensajePropio
<1>10. CASE CPUContesta
  <2> DEFINE r == Head(aCPU)
  <2>1. /\ r \in PCB /\ aCPU' \in Seq(PCB) /\ Len(aCPU') = Len(aCPU) - 1
        /\ r = aCPU[1] /\ 1 \in DOMAIN aCPU
    BY <1>0, <1>10, HeadTailProperties, EmptySeq DEF CPUContesta
  <2>2. PICK pid \in PidsCPU : deCPU' = Append(deCPU, [r EXCEPT !.pid = pid])
    BY <1>10 DEF CPUContesta
  <2>3. [r EXCEPT !.pid = pid] \in PCB /\ [r EXCEPT !.pid = pid].instrucciones = r.instrucciones
    BY <2>1, PidsEnteros DEF PCB
  <2>4. Len(aCPU) = 1 /\ Len(deCPU) = 0
    BY <1>0, <2>1 DEF Turnos, Exclusion, EnVuelo
  <2>5. /\ deCPU' \in Seq(PCB) /\ Len(deCPU') = 1
        /\ deCPU'[1] = [r EXCEPT !.pid = pid]
    BY <1>0, <2>2, <2>3, <2>4, AppendProperties
  <2>6. DOMAIN aCPU' = 1..0 /\ DOMAIN deCPU' = 1..1
    BY <2>1, <2>4, <2>5, LenProperties
  <2>7. pcCP' = pcCP /\ pcbCP' = pcbCP /\ pcb' = pcb
    BY <1>10 DEF CPUContesta
  <2>8. pcCP \in {"sacarEXEC", "recibir"} => r.instrucciones = pcbCP
    BY <2>1 DEF MensajePropio
  <2>9. ProgramaConservado'
    BY <2>7 DEF ProgramaConservado
  <2>10. ASSUME pcCP' \in {"sacarEXEC", "recibir"}
         PROVE  /\ \A i \in DOMAIN aCPU' : aCPU'[i].instrucciones = pcbCP'
                /\ \A i \in DOMAIN deCPU' : deCPU'[i].instrucciones = pcbCP'
    <3>1. deCPU'[1].instrucciones = pcbCP'
      BY <2>3, <2>5, <2>7, <2>8, <2>10
    <3>2. \A i \in DOMAIN deCPU' : i = 1
      BY <2>6
    <3>3. DOMAIN aCPU' = {}
      BY <2>6
    <3> QED
      BY <3>1, <3>2, <3>3
  <2> QED
    BY <2>9, <2>10 DEF MensajePropio
<1>11. CASE ContadorQuantum \/ UNCHANGED vars
  BY <1>11 DEF ContadorQuantum, EsperarQuantum, DormirQuantum, vars,
     ProgramaConservado, MensajePropio
<1> QED
  BY <1>1, <1>2, <1>3, <1>4, <1>5, <1>6, <1>7, <1>8, <1>9, <1>10, <1>11
     DEF Next, Consola, LargoPlazo, CortoPlazo

\* A PCB keeps its own program: the answer applied to it is the answer to it.
THEOREM ProgramaPropio == Spec => []ProgramaConservado
<1>1. Init => ProgramaConservado /\ MensajePropio
  BY DEF Init, ProgramaConservado, MensajePropio
<1> QED
  BY <1>1, TurnosSiempre, ProgramaNext, PTL DEF Spec
-----------------------------------------------------------------------------
(* Each process in one place *)

\* queue_push and list_add: one element more, and no repetition if it is new.
LEMMA AgregarACola ==
  ASSUME NEW S, NEW q \in Seq(S), NEW x \in S
  PROVE  /\ Append(q, x) \in Seq(S)
         /\ Range(Append(q, x)) = Range(q) \cup {x}
         /\ IsInjective(q) /\ x \notin Range(q) => IsInjective(Append(q, x))
<1> DEFINE r == Append(q, x)
<1>1. /\ r \in Seq(S) /\ Len(r) = Len(q) + 1 /\ Len(q) \in Nat
      /\ \A i \in 1..Len(q) : r[i] = q[i]
      /\ r[Len(q) + 1] = x
  BY AppendProperties, LenProperties
<1>2. DOMAIN q = 1..Len(q) /\ DOMAIN r = 1..(Len(q) + 1)
  BY <1>1, LenProperties
<1>3. Range(r) = Range(q) \cup {x}
  <2> HIDE DEF r
  <2>1. ASSUME NEW y \in Range(r) PROVE y \in Range(q) \cup {x}
    BY <1>1, <1>2 DEF Range
  <2>2. ASSUME NEW y \in Range(q) PROVE y \in Range(r)
    <3>1. PICK i \in 1..Len(q) : y = q[i]
      BY <1>2 DEF Range
    <3>2. i \in DOMAIN r /\ r[i] = y
      BY <1>1, <1>2, <3>1
    <3> QED
      BY <3>2 DEF Range
  <2>3. x \in Range(r)
    <3>1. Len(q) + 1 \in DOMAIN r
      BY <1>1, <1>2
    <3> QED
      BY <1>1, <3>1 DEF Range
  <2> QED
    BY <2>1, <2>2, <2>3
<1>4. ASSUME IsInjective(q), x \notin Range(q)
      PROVE  IsInjective(r)
  <2> HIDE DEF r
  <2>1. \A i \in 1..Len(q) : q[i] # x
    BY <1>2, <1>4 DEF Range
  <2> QED
    BY <1>1, <1>2, <1>4, <2>1 DEF IsInjective
<1> QED
  BY <1>1, <1>3, <1>4

\* queue_pop on a list without repetitions: what is taken is no longer there.
LEMMA QuitarPrimero ==
  ASSUME NEW S, NEW q \in Seq(S), q # <<>>, IsInjective(q)
  PROVE  /\ Range(Tail(q)) = Range(q) \ {Head(q)}
         /\ Head(q) \in Range(q)
         /\ IsInjective(Tail(q))
<1> DEFINE r == Tail(q)
<1>1. /\ r \in Seq(S) /\ Len(r) = Len(q) - 1 /\ Len(q) \in Nat \ {0}
      /\ \A i \in 1..Len(r) : r[i] = q[i + 1]
      /\ Head(q) = q[1]
  BY HeadTailProperties, EmptySeq
<1>2. DOMAIN q = 1..Len(q) /\ DOMAIN r = 1..(Len(q) - 1)
  BY <1>1, LenProperties
<1> HIDE DEF r
<1>3. ASSUME NEW y \in Range(r) PROVE y \in Range(q) \ {Head(q)}
  <2>1. PICK i \in 1..(Len(q) - 1) : y = q[i + 1]
    BY <1>1, <1>2 DEF Range
  <2>2. i + 1 \in DOMAIN q /\ i + 1 # 1 /\ 1 \in DOMAIN q
    BY <1>1, <1>2
  <2> QED
    BY <1>1, <2>1, <2>2 DEF Range, IsInjective
<1>4. ASSUME NEW y \in Range(q) \ {Head(q)} PROVE y \in Range(r)
  <2>1. PICK i \in 1..Len(q) : y = q[i]
    BY <1>2 DEF Range
  <2>2. i - 1 \in DOMAIN r /\ r[i - 1] = y
    BY <1>1, <1>2, <2>1
  <2> QED
    BY <2>2 DEF Range
<1>5. IsInjective(r)
  BY <1>1, <1>2 DEF IsInjective
<1>6. Head(q) \in Range(q)
  BY <1>1, <1>2 DEF Range
<1>7. Range(r) = Range(q) \ {Head(q)}
  BY <1>3, <1>4
<1> QED
  BY <1>5, <1>6, <1>7 DEF r

\* sacar_PCB_READY_List on a list without repetitions: the same.
LEMMA QuitarUltimo ==
  ASSUME NEW S, NEW q \in Seq(S), q # <<>>, IsInjective(q)
  PROVE  /\ Range(SinUltimo(q)) = Range(q) \ {Ultimo(q)}
         /\ Ultimo(q) \in Range(q)
         /\ IsInjective(SinUltimo(q))
<1> DEFINE r == SinUltimo(q)
<1>1. /\ r \in Seq(S) /\ Len(r) = Len(q) - 1 /\ Len(q) \in Nat \ {0}
      /\ \A i \in 1..(Len(q) - 1) : r[i] = q[i]
      /\ Ultimo(q) = q[Len(q)]
  BY UltimoDeCola, EmptySeq
<1>2. DOMAIN q = 1..Len(q) /\ DOMAIN r = 1..(Len(q) - 1)
  BY <1>1, LenProperties
<1> HIDE DEF r
<1>3. ASSUME NEW y \in Range(r) PROVE y \in Range(q) \ {Ultimo(q)}
  <2>1. PICK i \in 1..(Len(q) - 1) : y = q[i]
    BY <1>1, <1>2 DEF Range
  <2>2. i \in DOMAIN q /\ i # Len(q) /\ Len(q) \in DOMAIN q
    BY <1>1, <1>2
  <2> QED
    BY <1>1, <2>1, <2>2 DEF Range, IsInjective
<1>4. ASSUME NEW y \in Range(q) \ {Ultimo(q)} PROVE y \in Range(r)
  <2>1. PICK i \in 1..Len(q) : y = q[i]
    BY <1>2 DEF Range
  <2>2. i \in DOMAIN r /\ r[i] = y
    BY <1>1, <1>2, <2>1
  <2> QED
    BY <2>2 DEF Range
<1>5. IsInjective(r)
  BY <1>1, <1>2 DEF IsInjective
<1>6. Ultimo(q) \in Range(q)
  BY <1>1, <1>2 DEF Range
<1>7. Range(r) = Range(q) \ {Ultimo(q)}
  BY <1>3, <1>4
<1> QED
  BY <1>5, <1>6, <1>7 DEF r
\* A process goes from one place to the next and is never in two.
Lugares == CadaProcesoEnUnLugar /\ SoloLlegados

\* No step puts a process in two places, or in one before it arrived.
LEMMA LugaresNext ==
  Tipos /\ Turnos /\ Lugares /\ [Next]_vars => Lugares'
<1> SUFFICES ASSUME Tipos, Turnos, Lugares, [Next]_vars
             PROVE  Lugares'
  OBVIOUS
<1> USE DEF Lugares, CadaProcesoEnUnLugar, SoloLlegados, EnCP, colas, contadores,
            semaforos, hiloLP, hiloCP, socket
<1>0. /\ colaNEW \in Seq(Procesos) /\ colaREADY \in Seq(Procesos)
      /\ colaEXEC \in Seq(Procesos) /\ consola \in [Procesos -> PasosConsola]
      /\ despertarPlanificadorLargoPlazo \in Nat /\ semaforoProcesoREADY \in Nat
  BY DEF Tipos, TypeOK
<1>1. ASSUME NEW p \in Procesos, CrearPCB(p)
      PROVE  Lugares'
  <2>1. Llegados' = Llegados
    BY <1>0, <1>1 DEF CrearPCB, Llegados
  <2> QED
    BY <1>1, <2>1 DEF CrearPCB
<1>2. ASSUME NEW p \in Procesos, AgregarNEW(p)
      PROVE  Lugares'
  <2>1. Llegados' = Llegados \cup {p} /\ p \notin Llegados
    BY <1>0, <1>2 DEF AgregarNEW, Llegados
  <2>2. IsInjective(colaNEW') /\ Range(colaNEW') = Range(colaNEW) \cup {p}
    BY <1>0, <1>2, <2>1, AgregarACola DEF AgregarNEW
  <2>3. UNCHANGED <<colaREADY, colaEXEC, pcLP, pcbLP, pcCP, pcbCP>>
    BY <1>2 DEF AgregarNEW
  <2> QED
    BY <2>1, <2>2, <2>3
<1>3. ASSUME NEW p \in Procesos, AvisarLargoPlazo(p)
      PROVE  Lugares'
  <2>1. Llegados' = Llegados
    BY <1>0, <1>3 DEF AvisarLargoPlazo, Llegados
  <2> QED
    BY <1>3, <2>1 DEF AvisarLargoPlazo
<1>4. CASE EsperarDespertar \/ EvaluarGrado \/ AvisarREADY
           \/ SumarProcesoEnMemoria \/ CambiarEstadoLP
  <2>1. /\ UNCHANGED <<consola, colaNEW, colaREADY, colaEXEC, pcCP, pcbCP>>
        /\ pcLP' # "agregarREADY"
    BY <1>4 DEF EsperarDespertar, EvaluarGrado, AvisarREADY,
       SumarProcesoEnMemoria, CambiarEstadoLP
  <2> QED
    BY <2>1 DEF Llegados
<1>5. CASE SacarNEW
  <2>1. colaNEW # <<>>
    BY <1>0, <1>5, AvisandoFinito, EmptySeq
       DEF SacarNEW, Turnos, AvisosDeNEW, AvisosPendientes, Uno
  <2>2. pcbLP' = Head(colaNEW) /\ colaNEW' = Tail(colaNEW)
    BY <1>0, <1>5, <2>1, PrimeroDeCola DEF SacarNEW
  <2>3. /\ Range(colaNEW') = Range(colaNEW) \ {pcbLP'}
        /\ pcbLP' \in Range(colaNEW) /\ IsInjective(colaNEW')
    BY <1>0, <2>1, <2>2, QuitarPrimero
  <2>4. UNCHANGED <<consola, colaREADY, colaEXEC, pcCP, pcbCP>>
    BY <1>5 DEF SacarNEW
  <2>5. pcbCP = pcbLP' => ~EnCP
    BY <2>3
  <2> QED
    BY <2>3, <2>4, <2>5 DEF Llegados
<1>6. CASE AgregarREADY
  <2>1. pcbLP \in Procesos
    BY <1>6 DEF AgregarREADY, Tipos, PunterosValidos
  <2>2. IsInjective(colaREADY') /\ Range(colaREADY') = Range(colaREADY) \cup {pcbLP}
    BY <1>0, <1>6, <2>1, AgregarACola DEF AgregarREADY
  <2>3. /\ UNCHANGED <<consola, colaNEW, colaEXEC, pcCP, pcbCP>>
        /\ pcLP = "agregarREADY" /\ pcLP' = "avisarREADY"
    BY <1>6 DEF AgregarREADY
  <2> QED
    BY <2>2, <2>3 DEF Llegados
<1>7. CASE EsperarREADY \/ EsperarEXECUTING \/ RevisarColaDeREADY
           \/ LiberarEXECUTING \/ ComienzoDeQuantum
  <2>1. /\ UNCHANGED <<consola, colaNEW, colaREADY, colaEXEC, pcLP, pcbLP, pcbCP>>
        /\ ~EnCP'
    BY <1>7 DEF EsperarREADY, EsperarEXECUTING, RevisarColaDeREADY,
       LiberarEXECUTING, ComienzoDeQuantum
  <2> QED
    BY <2>1 DEF Llegados
<1>8. CASE SacarREADY
  <2>1. colaREADY # <<>>
    BY <1>0, <1>8, EmptySeq DEF SacarREADY, Turnos, AvisosDeREADY, Uno
  <2>2. /\ Range(colaREADY') = Range(colaREADY) \ {pcbCP'}
        /\ pcbCP' \in Range(colaREADY) /\ IsInjective(colaREADY')
    BY <1>0, <1>8, <2>1, QuitarUltimo DEF SacarREADY
  <2>3. UNCHANGED <<consola, colaNEW, colaEXEC, pcLP, pcbLP>>
    BY <1>8 DEF SacarREADY
  <2> QED
    BY <2>2, <2>3 DEF Llegados
<1>9. CASE AgregarEXEC
  <2>1. pcbCP \in Procesos /\ pcCP = "agregarEXEC" /\ colaEXEC = <<>>
    BY <1>9 DEF AgregarEXEC, Tipos, PunterosValidos, Turnos, Exclusion
  <2>2. Range(colaEXEC) = {}
    BY <2>1 DEF Range
  <2>3. IsInjective(colaEXEC') /\ Range(colaEXEC') = {pcbCP}
    <3>1. colaEXEC' = Append(colaEXEC, pcbCP)
      BY <1>9 DEF AgregarEXEC
    <3>2. IsInjective(colaEXEC)
      OBVIOUS
    <3>3. /\ Range(Append(colaEXEC, pcbCP)) = Range(colaEXEC) \cup {pcbCP}
          /\ pcbCP \notin Range(colaEXEC) => IsInjective(Append(colaEXEC, pcbCP))
      BY <1>0, <2>1, <3>2, AgregarACola
    <3> HIDE DEF Lugares, CadaProcesoEnUnLugar, SoloLlegados
    <3> QED
      BY <2>2, <3>1, <3>3
  <2>4. /\ UNCHANGED <<consola, colaNEW, colaREADY, pcLP, pcbLP, pcbCP>>
        /\ EnCP /\ EnCP'
    BY <1>9 DEF AgregarEXEC
  <2> QED
    BY <2>3, <2>4 DEF Llegados
<1>10. CASE CambiarEstadoCP \/ RecibirPCB \/ EjecutarProceso
  <2>1. /\ UNCHANGED <<consola, colaNEW, colaREADY, colaEXEC, pcLP, pcbLP, pcbCP>>
        /\ EnCP
    BY <1>10 DEF CambiarEstadoCP, RecibirPCB, EjecutarProceso
  <2> QED
    BY <2>1 DEF Llegados
<1>11. CASE SacarEXEC
  <2>1. colaEXEC = <<pcbCP>> /\ EnCP
    BY <1>11 DEF SacarEXEC, Turnos, Exclusion
  <2>2. pcbCP \in Procesos
    BY <1>0, <2>1, ElementOfSeq
  <2>3. pcbCP' = pcbCP /\ colaEXEC' = <<>>
    BY <1>11, <2>1, <2>2, ColaDeUno DEF SacarEXEC
  <2>4. Range(colaEXEC') = {} /\ IsInjective(colaEXEC')
    BY <2>3 DEF Range, IsInjective
  <2>5. UNCHANGED <<consola, colaNEW, colaREADY, pcLP, pcbLP, pcbCP>>
    BY <1>11, <2>3 DEF SacarEXEC
  <2> QED
    BY <2>1, <2>4, <2>5 DEF Llegados
<1>12. CASE ContadorQuantum \/ CPUContesta \/ UNCHANGED vars
  <2>1. UNCHANGED <<consola, colaNEW, colaREADY, colaEXEC, pcLP, pcbLP, pcCP, pcbCP>>
    BY <1>12 DEF ContadorQuantum, EsperarQuantum, DormirQuantum, CPUContesta, vars
  <2> QED
    BY <2>1 DEF Llegados
<1> QED
  BY <1>1, <1>2, <1>3, <1>4, <1>5, <1>6, <1>7, <1>8, <1>9, <1>10, <1>11, <1>12
     DEF Next, Consola, LargoPlazo, CortoPlazo

\* Each process is in one place in every state.
LEMMA LugaresSiempre == Spec => []Lugares
<1>1. Init => Lugares
  BY DEF Init, Lugares, CadaProcesoEnUnLugar, SoloLlegados, EnCP, Range, IsInjective
<1> QED
  BY <1>1, TurnosSiempre, LugaresNext, PTL DEF Spec

\* No PCB is ever in two lists, nor twice in one.
THEOREM UnLugarPorProceso == Spec => []CadaProcesoEnUnLugar
BY LugaresSiempre, PTL DEF Lugares
-----------------------------------------------------------------------------
(* The degree of multiprogramming *)

\* The counter and the set it counts move together, one process behind.
LEMMA CuentaNext ==
  Tipos /\ Turnos /\ Lugares /\ CuentaAlDia /\ [Next]_vars => CuentaAlDia'
<1> SUFFICES ASSUME Tipos, Turnos, Lugares, CuentaAlDia, [Next]_vars
             PROVE  CuentaAlDia'
  OBVIOUS
<1> USE DEF CuentaAlDia, Uno, colas, contadores, semaforos, hiloLP, hiloCP, socket
<1>0. /\ contadorProcesosEnMemoria \in Nat /\ GradoMax \in Nat
      /\ consola \in [Procesos -> PasosConsola] /\ colaNEW \in Seq(Procesos)
      /\ despertarPlanificadorLargoPlazo \in Nat
  BY GradoNatural DEF Tipos, TypeOK
<1>1. IsFiniteSet(Admitidos) /\ Cardinality(Admitidos) \in Nat
  <2>1. Admitidos \subseteq Procesos
    BY DEF Admitidos, Llegados
  <2> QED
    BY <2>1, ProcesosFinitos, FS_Subset, FS_CardinalityType
<1>2. ASSUME NEW p \in Procesos, CrearPCB(p) \/ AvisarLargoPlazo(p)
      PROVE  CuentaAlDia'
  <2>1. Llegados' = Llegados
    BY <1>0, <1>2 DEF CrearPCB, AvisarLargoPlazo, Llegados
  <2>2. UNCHANGED <<colaNEW, pcLP, contadorProcesosEnMemoria>>
    BY <1>2 DEF CrearPCB, AvisarLargoPlazo
  <2> QED
    BY <2>1, <2>2 DEF Admitidos
<1>3. ASSUME NEW p \in Procesos, AgregarNEW(p)
      PROVE  CuentaAlDia'
  <2>1. Llegados' = Llegados \cup {p} /\ p \notin Llegados
    BY <1>0, <1>3 DEF AgregarNEW, Llegados
  <2>2. Range(colaNEW') = Range(colaNEW) \cup {p}
    BY <1>0, <1>3, AgregarACola DEF AgregarNEW
  <2>3. Admitidos' = Admitidos
    BY <2>1, <2>2 DEF Admitidos
  <2>4. UNCHANGED <<pcLP, contadorProcesosEnMemoria>>
    BY <1>3 DEF AgregarNEW
  <2> QED
    BY <2>3, <2>4
<1>4. CASE EsperarDespertar \/ EvaluarGrado \/ AgregarREADY \/ AvisarREADY \/ CambiarEstadoLP
  <2>1. UNCHANGED <<consola, colaNEW, contadorProcesosEnMemoria>>
    BY <1>4 DEF EsperarDespertar, EvaluarGrado, AgregarREADY, AvisarREADY, CambiarEstadoLP
  <2>2. Admitidos' = Admitidos
    BY <2>1 DEF Admitidos, Llegados
  <2> QED
    BY <1>0, <1>4, <2>1, <2>2 DEF EsperarDespertar, EvaluarGrado, AgregarREADY,
       AvisarREADY, CambiarEstadoLP, EvaluarGradoDeMultiprogramacion
<1>5. CASE SacarNEW
  <2>1. colaNEW # <<>>
    BY <1>0, <1>5, AvisandoFinito, EmptySeq
       DEF SacarNEW, Turnos, AvisosDeNEW, AvisosPendientes
  <2>2. pcbLP' = Head(colaNEW) /\ colaNEW' = Tail(colaNEW)
    BY <1>0, <1>5, <2>1, PrimeroDeCola DEF SacarNEW
  <2>3. Range(colaNEW') = Range(colaNEW) \ {pcbLP'} /\ pcbLP' \in Range(colaNEW)
    BY <1>0, <2>1, <2>2, QuitarPrimero DEF Lugares, CadaProcesoEnUnLugar
  <2>4. pcbLP' \in Llegados /\ Llegados' = Llegados
    BY <1>5, <2>3 DEF Lugares, SoloLlegados, SacarNEW, Llegados
  <2>5. Admitidos' = Admitidos \cup {pcbLP'} /\ pcbLP' \notin Admitidos
    BY <2>3, <2>4 DEF Admitidos
  <2>6. Cardinality(Admitidos') = Cardinality(Admitidos) + 1
    BY <1>1, <2>5, FS_AddElement
  <2>7. /\ pcLP = "sacarNEW" /\ pcLP' = "agregarREADY"
        /\ contadorProcesosEnMemoria' = contadorProcesosEnMemoria
    BY <1>5 DEF SacarNEW
  <2> QED
    BY <1>0, <1>1, <2>6, <2>7
<1>6. CASE SumarProcesoEnMemoria
  <2>1. Admitidos' = Admitidos
    BY <1>6 DEF SumarProcesoEnMemoria, Admitidos, Llegados
  <2> QED
    BY <1>0, <1>6, <2>1 DEF SumarProcesoEnMemoria, SumarCantidadDeProcesosEnMemoria
<1>7. CASE CortoPlazo
  <2>1. UNCHANGED <<consola, colaNEW, pcLP, contadorProcesosEnMemoria>>
    BY <1>7 DEF CortoPlazo, EsperarREADY, EsperarEXECUTING, RevisarColaDeREADY,
       SacarREADY, AgregarEXEC, CambiarEstadoCP, EjecutarProceso, SacarEXEC,
       RecibirPCB, LiberarEXECUTING, ComienzoDeQuantum
  <2> QED
    BY <2>1 DEF Admitidos, Llegados
<1>8. CASE ContadorQuantum \/ CPUContesta \/ UNCHANGED vars
  <2>1. UNCHANGED <<consola, colaNEW, pcLP, contadorProcesosEnMemoria>>
    BY <1>8 DEF ContadorQuantum, EsperarQuantum, DormirQuantum, CPUContesta, vars
  <2> QED
    BY <2>1 DEF Admitidos, Llegados
<1> QED
  BY <1>2, <1>3, <1>4, <1>5, <1>6, <1>7, <1>8 DEF Next, Consola, LargoPlazo

\* The count is zero and nobody was admitted.
LEMMA CuentaInit == Init => CuentaAlDia
<1> SUFFICES ASSUME Init
             PROVE  CuentaAlDia
  OBVIOUS
<1>1. Admitidos = {}
  BY DEF Init, Admitidos, Llegados
<1> QED
  BY <1>1, FS_EmptySet, GradoNatural DEF Init, CuentaAlDia, Uno

\* The degree of multiprogramming is never exceeded, although the check, the
\* admission and the increment are separate critical sections.
THEOREM GradoNuncaExcedido == Spec => []GradoRespetado
<1>1. Tipos /\ CuentaAlDia => GradoRespetado
  <2> SUFFICES ASSUME Tipos, CuentaAlDia
               PROVE  GradoRespetado
    OBVIOUS
  <2>1. contadorProcesosEnMemoria \in Nat /\ GradoMax \in Nat
    BY GradoNatural DEF Tipos, TypeOK
  <2> QED
    BY <2>1 DEF CuentaAlDia, GradoRespetado, Uno
<1> QED
  BY <1>1, CuentaInit, CuentaNext, TurnosSiempre, LugaresSiempre, PTL DEF Spec
=============================================================================
