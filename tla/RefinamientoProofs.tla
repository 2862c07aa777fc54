--------------------------- MODULE RefinamientoProofs ---------------------------
(***************************************************************************)
(* What the scheduler implements, and what implements it. Its steps are    *)
(* those of the life cycle of CicloDeVida, or none; only four of them move *)
(* a process in its life: AgregarNEW, SacarNEW, SacarREADY and RecibirPCB. *)
(* Called Feedback, it does what it does called FIFO. And the kernel with  *)
(* the CPU of the repository at the other end of the socket (Sistema) does *)
(* what it does with any CPU that answers in order.                        *)
(***************************************************************************)
EXTENDS Feedback, Sistema, PlanificadorProofs

Fuera(p) == consola[p] \in {"crear", "agregarNEW"}
Nuevo(p) == p \in Range(colaNEW)
Listo(p) == p \in Range(colaREADY) \/ (pcLP = "agregarREADY" /\ pcbLP = p)
Ejecutando(p) == p \in Range(colaEXEC) \/ (EnCP /\ pcbCP = p)

Invariante == Tipos /\ Turnos /\ Lugares /\ CuentaAlDia

\* What was proved of the scheduler (PlanificadorProofs), together.
LEMMA InvarianteSiempre == Spec => []Invariante
BY TurnosSiempre, LugaresSiempre, CuentaInit, CuentaNext, PTL DEF Spec, Invariante

\* The phases exclude one another, so the order in which Fase asks for them does
\* not matter.
LEMMA FasesAparte ==
  Invariante =>
    \A p \in Procesos :
       /\ Fuera(p) => ~Nuevo(p) /\ ~Listo(p) /\ ~Ejecutando(p)
       /\ Nuevo(p) => ~Listo(p) /\ ~Ejecutando(p)
       /\ Listo(p) => ~Ejecutando(p)
<1> SUFFICES ASSUME Invariante, NEW p \in Procesos
             PROVE  /\ Fuera(p) => ~Nuevo(p) /\ ~Listo(p) /\ ~Ejecutando(p)
                    /\ Nuevo(p) => ~Listo(p) /\ ~Ejecutando(p)
                    /\ Listo(p) => ~Ejecutando(p)
  OBVIOUS
<1>1. SoloLlegados /\ CadaProcesoEnUnLugar
  BY DEF Invariante, Lugares
<1>2. Fuera(p) => p \notin Llegados
  BY DEF Fuera, Llegados
<1> QED
  BY <1>1, <1>2 DEF SoloLlegados, CadaProcesoEnUnLugar, Nuevo, Listo, Ejecutando

\* Where a process is decides its phase.
LEMMA ValorDeFase ==
  Invariante =>
    \A p \in Procesos :
       /\ Fuera(p) => Fase(p) = "fuera"
       /\ Nuevo(p) => Fase(p) = "nuevo"
       /\ Listo(p) => Fase(p) = "listo"
       /\ Ejecutando(p) => Fase(p) = "ejecutando"
       /\ ~Fuera(p) /\ ~Nuevo(p) /\ ~Listo(p) /\ ~Ejecutando(p) => Fase(p) = "devuelto"
<1> SUFFICES ASSUME Invariante, NEW p \in Procesos
             PROVE  /\ Fuera(p) => Fase(p) = "fuera"
                    /\ Nuevo(p) => Fase(p) = "nuevo"
                    /\ Listo(p) => Fase(p) = "listo"
                    /\ Ejecutando(p) => Fase(p) = "ejecutando"
                    /\ ~Fuera(p) /\ ~Nuevo(p) /\ ~Listo(p) /\ ~Ejecutando(p)
                          => Fase(p) = "devuelto"
  OBVIOUS
<1>1. Fase(p) = CASE Fuera(p) -> "fuera"
                  [] Nuevo(p) -> "nuevo"
                  [] Listo(p) -> "listo"
                  [] Ejecutando(p) -> "ejecutando"
                  [] OTHER -> "devuelto"
  BY DEF Fase, Fuera, Nuevo, Listo, Ejecutando
<1>2. /\ Fuera(p) => ~Nuevo(p) /\ ~Listo(p) /\ ~Ejecutando(p)
      /\ Nuevo(p) => ~Listo(p) /\ ~Ejecutando(p)
      /\ Listo(p) => ~Ejecutando(p)
  BY FasesAparte
<1> HIDE DEF Fuera, Nuevo, Listo, Ejecutando, Fase
<1> QED
  BY <1>1, <1>2

\* The same after a step.
LEMMA ValorDeFasePrima ==
  Invariante' =>
    \A p \in Procesos :
       /\ Fuera(p)' => Fase(p)' = "fuera"
       /\ Nuevo(p)' => Fase(p)' = "nuevo"
       /\ Listo(p)' => Fase(p)' = "listo"
       /\ Ejecutando(p)' => Fase(p)' = "ejecutando"
       /\ ~Fuera(p)' /\ ~Nuevo(p)' /\ ~Listo(p)' /\ ~Ejecutando(p)' => Fase(p)' = "devuelto"
<1> DEFINE Valores == \A p \in Procesos :
                         /\ Fuera(p) => Fase(p) = "fuera"
                         /\ Nuevo(p) => Fase(p) = "nuevo"
                         /\ Listo(p) => Fase(p) = "listo"
                         /\ Ejecutando(p) => Fase(p) = "ejecutando"
                         /\ ~Fuera(p) /\ ~Nuevo(p) /\ ~Listo(p) /\ ~Ejecutando(p)
                               => Fase(p) = "devuelto"
<1>1. Invariante => Valores
  BY ValorDeFase
<1> HIDE DEF Valores
<1>2. Invariante' => Valores'
  BY <1>1, PTL
<1> QED
  BY <1>2 DEF Valores

\* A step that moves nobody is no step of the life cycle.
LEMMA NadieSeMueve ==
  ASSUME Invariante, Invariante', colaNEW' = colaNEW,
         \A p \in Procesos :
            /\ Fuera(p)' <=> Fuera(p)
            /\ Listo(p)' <=> Listo(p)
            /\ Ejecutando(p)' <=> Ejecutando(p)
  PROVE  UNCHANGED Ciclo!vars
<1>1. ASSUME NEW p \in Procesos
      PROVE  Fase(p)' = Fase(p)
  <2>1. Nuevo(p)' <=> Nuevo(p)
    BY DEF Nuevo
  <2>2. /\ Fuera(p)' <=> Fuera(p)
        /\ Listo(p)' <=> Listo(p)
        /\ Ejecutando(p)' <=> Ejecutando(p)
    OBVIOUS
  <2>3. /\ Fuera(p) => Fase(p) = "fuera"
        /\ Nuevo(p) => Fase(p) = "nuevo"
        /\ Listo(p) => Fase(p) = "listo"
        /\ Ejecutando(p) => Fase(p) = "ejecutando"
        /\ ~Fuera(p) /\ ~Nuevo(p) /\ ~Listo(p) /\ ~Ejecutando(p) => Fase(p) = "devuelto"
    BY ValorDeFase
  <2>4. /\ Fuera(p)' => Fase(p)' = "fuera"
        /\ Nuevo(p)' => Fase(p)' = "nuevo"
        /\ Listo(p)' => Fase(p)' = "listo"
        /\ Ejecutando(p)' => Fase(p)' = "ejecutando"
        /\ ~Fuera(p)' /\ ~Nuevo(p)' /\ ~Listo(p)' /\ ~Ejecutando(p)' => Fase(p)' = "devuelto"
    BY ValorDeFasePrima
  <2> QED
    BY <2>1, <2>2, <2>3, <2>4
<1> QED
  BY <1>1 DEF Ciclo!vars

\* A step that moves one process, and the list of the new with it or not.
LEMMA UnoSeMueve ==
  ASSUME Invariante, Invariante', NEW p \in Procesos, NEW fin,
         Fase(p)' = fin,
         \A q \in Procesos : q # p =>
            /\ Fuera(q)' <=> Fuera(q)
            /\ Nuevo(q)' <=> Nuevo(q)
            /\ Listo(q)' <=> Listo(q)
            /\ Ejecutando(q)' <=> Ejecutando(q)
  PROVE  [q \in Procesos |-> Fase(q)]' = [[q \in Procesos |-> Fase(q)] EXCEPT ![p] = fin]
<1>1. ASSUME NEW q \in Procesos, q # p
      PROVE  Fase(q)' = Fase(q)
  <2>1. /\ Fuera(q)' <=> Fuera(q)
        /\ Nuevo(q)' <=> Nuevo(q)
        /\ Listo(q)' <=> Listo(q)
        /\ Ejecutando(q)' <=> Ejecutando(q)
    BY <1>1
  <2>2. /\ Fuera(q) => Fase(q) = "fuera"
        /\ Nuevo(q) => Fase(q) = "nuevo"
        /\ Listo(q) => Fase(q) = "listo"
        /\ Ejecutando(q) => Fase(q) = "ejecutando"
        /\ ~Fuera(q) /\ ~Nuevo(q) /\ ~Listo(q) /\ ~Ejecutando(q) => Fase(q) = "devuelto"
    BY ValorDeFase
  <2>3. /\ Fuera(q)' => Fase(q)' = "fuera"
        /\ Nuevo(q)' => Fase(q)' = "nuevo"
        /\ Listo(q)' => Fase(q)' = "listo"
        /\ Ejecutando(q)' => Fase(q)' = "ejecutando"
        /\ ~Fuera(q)' /\ ~Nuevo(q)' /\ ~Listo(q)' /\ ~Ejecutando(q)' => Fase(q)' = "devuelto"
    BY ValorDeFasePrima
  <2> QED
    BY <2>1, <2>2, <2>3
<1> DEFINE f == [q \in Procesos |-> Fase(q)]
<1>2. f' = [q \in Procesos |-> Fase(q)']
  OBVIOUS
<1>3. \A q \in Procesos : f'[q] = [f EXCEPT ![p] = fin][q]
  BY <1>1, <1>2
<1> QED
  BY <1>2, <1>3

-----------------------------------------------------------------------------
(* The steps that move nobody *)

\* A console moves its process only when it queues it.
LEMMA PasosQuietosDeConsola ==
  ASSUME Invariante, Invariante', NEW p \in Procesos, CrearPCB(p) \/ AvisarLargoPlazo(p)
  PROVE  UNCHANGED Ciclo!vars
<1>0. consola \in [Procesos -> PasosConsola]
  BY DEF Invariante, Tipos, TypeOK
<1>1. UNCHANGED <<colaNEW, colaREADY, colaEXEC, pcLP, pcbLP, pcCP, pcbCP>>
  BY DEF CrearPCB, AvisarLargoPlazo, colas, hiloLP, hiloCP
<1>2. \A q \in Procesos : Fuera(q)' <=> Fuera(q)
  <2>1. CASE CrearPCB(p)
    BY <1>0, <2>1 DEF CrearPCB, Fuera
  <2>2. CASE AvisarLargoPlazo(p)
    BY <1>0, <2>2 DEF AvisarLargoPlazo, Fuera
  <2> QED
    BY <2>1, <2>2
<1>3. \A q \in Procesos : (Listo(q)' <=> Listo(q)) /\ (Ejecutando(q)' <=> Ejecutando(q))
  BY <1>1 DEF Listo, Ejecutando, EnCP
<1> QED
  BY <1>1, <1>2, <1>3, NadieSeMueve

\* The long-term scheduler moves a process only when it takes it from colaNEW.
LEMMA PasosQuietosDeLargoPlazo ==
  ASSUME Invariante, Invariante',
         \/ EsperarDespertar \/ EvaluarGrado \/ AgregarREADY \/ AvisarREADY
         \/ SumarProcesoEnMemoria \/ CambiarEstadoLP
  PROVE  UNCHANGED Ciclo!vars
<1>1. UNCHANGED <<consola, colaNEW, colaEXEC, pcbLP, pcCP, pcbCP>>
  BY DEF EsperarDespertar, EvaluarGrado, AgregarREADY, AvisarREADY,
     SumarProcesoEnMemoria, CambiarEstadoLP, colas, hiloLP, hiloCP
<1>2. \A q \in Procesos : Listo(q)' <=> Listo(q)
  <2>1. CASE AgregarREADY
    <3>1. /\ pcLP = "agregarREADY" /\ pcLP' = "avisarREADY" /\ ~kernelCaido
          /\ colaREADY' = Append(colaREADY, pcbLP)
      BY <2>1 DEF AgregarREADY
    <3>2. colaREADY \in Seq(Procesos) /\ pcbLP \in Procesos
      BY <3>1 DEF Invariante, Tipos, TypeOK, PunterosValidos
    <3>3. Range(colaREADY') = Range(colaREADY) \cup {pcbLP}
      BY <3>1, <3>2, AgregarACola
    <3> QED
      BY <3>1, <3>3 DEF Listo
  <2>2. CASE ~AgregarREADY
    <3>1. colaREADY' = colaREADY /\ pcLP # "agregarREADY" /\ pcLP' # "agregarREADY"
      BY <2>2 DEF EsperarDespertar, EvaluarGrado, AvisarREADY, SumarProcesoEnMemoria,
         CambiarEstadoLP, colas
    <3> QED
      BY <3>1 DEF Listo
  <2> QED
    BY <2>1, <2>2
<1>3. \A q \in Procesos : (Fuera(q)' <=> Fuera(q)) /\ (Ejecutando(q)' <=> Ejecutando(q))
  BY <1>1 DEF Fuera, Ejecutando, EnCP
<1> QED
  BY <1>1, <1>2, <1>3, NadieSeMueve

\* The short-term scheduler moves a process only when it takes it from colaREADY
\* or receives it from the CPU.
LEMMA PasosQuietosDeCortoPlazo ==
  ASSUME Invariante, Invariante',
         \/ EsperarREADY \/ EsperarEXECUTING \/ RevisarColaDeREADY \/ AgregarEXEC
         \/ CambiarEstadoCP \/ EjecutarProceso \/ SacarEXEC
         \/ LiberarEXECUTING \/ ComienzoDeQuantum
  PROVE  UNCHANGED Ciclo!vars
<1>0. Exclusion /\ ~kernelCaido /\ ~kernelCaido'
  BY DEF Invariante, Turnos, SinCaida
<1>1. UNCHANGED <<consola, colaNEW, colaREADY, pcLP, pcbLP>>
  BY DEF EsperarREADY, EsperarEXECUTING, RevisarColaDeREADY, AgregarEXEC, colas, hiloLP,
     CambiarEstadoCP, EjecutarProceso, SacarEXEC, LiberarEXECUTING, ComienzoDeQuantum
<1>2. \A q \in Procesos : Ejecutando(q)' <=> Ejecutando(q)
  <2>1. CASE EsperarREADY \/ EsperarEXECUTING \/ RevisarColaDeREADY
             \/ LiberarEXECUTING \/ ComienzoDeQuantum
    <3>1. colaEXEC' = colaEXEC /\ ~EnCP /\ ~EnCP'
      BY <2>1, AlgoritmoConocido DEF EsperarREADY, EsperarEXECUTING, RevisarColaDeREADY,
         LiberarEXECUTING, ComienzoDeQuantum, EnCP, colas
    <3> QED
      BY <3>1 DEF Ejecutando
  <2>2. CASE AgregarEXEC
    <3>1. /\ pcCP = "agregarEXEC" /\ pcCP' = "cambiarEstado" /\ pcbCP' = pcbCP
          /\ colaEXEC' = Append(colaEXEC, pcbCP)
      BY <2>2 DEF AgregarEXEC
    <3>2. colaEXEC \in Seq(Procesos) /\ pcbCP \in Procesos
      BY <1>0, <3>1 DEF Invariante, Tipos, TypeOK, PunterosValidos
    <3>3. Range(colaEXEC') = Range(colaEXEC) \cup {pcbCP}
      BY <3>1, <3>2, AgregarACola
    <3> QED
      BY <3>1, <3>3 DEF Ejecutando, EnCP
  <2>3. CASE CambiarEstadoCP
    BY <2>3 DEF CambiarEstadoCP, Ejecutando, EnCP, colas
  <2>4. CASE EjecutarProceso
    <3>1. pcCP = "ejecutar" /\ colaEXEC' = colaEXEC /\ pcbCP' = pcbCP
      BY <2>4 DEF EjecutarProceso, colas
    <3>2. colaEXEC = <<pcbCP>>
      BY <1>0, <3>1 DEF Exclusion
    <3>3. Range(colaEXEC) = {pcbCP}
      BY <3>2 DEF Range
    <3> QED
      BY <3>1, <3>3 DEF Ejecutando
  <2>5. CASE SacarEXEC
    <3>1. /\ pcCP = "sacarEXEC" /\ pcCP' = "recibir"
          /\ pcbCP' = Primero(colaEXEC) /\ colaEXEC' = SinPrimero(colaEXEC)
      BY <2>5 DEF SacarEXEC
    <3>2. colaEXEC = <<pcbCP>>
      BY <1>0, <3>1 DEF Exclusion
    <3>3. pcbCP' = pcbCP /\ colaEXEC' = <<>>
      BY <3>1, <3>2 DEF Primero, SinPrimero
    <3>4. Range(colaEXEC) = {pcbCP} /\ Range(colaEXEC') = {}
      BY <3>2, <3>3 DEF Range
    <3> QED
      BY <3>1, <3>3, <3>4 DEF Ejecutando, EnCP
  <2> QED
    BY <2>1, <2>2, <2>3, <2>4, <2>5
<1>3. \A q \in Procesos : (Fuera(q)' <=> Fuera(q)) /\ (Listo(q)' <=> Listo(q))
  BY <1>1 DEF Fuera, Listo
<1> QED
  BY <1>1, <1>2, <1>3, NadieSeMueve

-----------------------------------------------------------------------------
(* The four steps that move a process *)

\* The degree the life cycle counts is the one the kernel counts.
LEMMA AdmitidosDelCiclo == Invariante => Ciclo!Admitidos = Admitidos
<1> SUFFICES ASSUME Invariante
             PROVE  Ciclo!Admitidos = Admitidos
  OBVIOUS
<1>1. consola \in [Procesos -> PasosConsola]
  BY DEF Invariante, Tipos, TypeOK
<1>2. ASSUME NEW p \in Procesos
      PROVE  p \in Admitidos <=> Fase(p) \in {"listo", "ejecutando", "devuelto"}
  <2>1. p \in Llegados <=> ~Fuera(p)
    BY <1>1, <1>2 DEF Llegados, Fuera, PasosConsola
  <2>2. p \in Admitidos <=> ~Fuera(p) /\ ~Nuevo(p)
    BY <2>1 DEF Admitidos, Nuevo
  <2>3. /\ Fuera(p) => Fase(p) = "fuera"
        /\ Nuevo(p) => Fase(p) = "nuevo"
        /\ Listo(p) => Fase(p) = "listo"
        /\ Ejecutando(p) => Fase(p) = "ejecutando"
        /\ ~Fuera(p) /\ ~Nuevo(p) /\ ~Listo(p) /\ ~Ejecutando(p) => Fase(p) = "devuelto"
    BY <1>2, ValorDeFase
  <2> QED
    BY <2>2, <2>3
<1>3. Admitidos \subseteq Procesos
  BY DEF Admitidos, Llegados
<1> QED
  BY <1>2, <1>3 DEF Ciclo!Admitidos

\* Queueing in colaNEW is the arrival.
LEMMA AgregarNEWLlega ==
  ASSUME Invariante, Invariante', NEW p \in Procesos, AgregarNEW(p)
  PROVE  Ciclo!Llegar(p)
<1>1. /\ consola \in [Procesos -> PasosConsola] /\ colaNEW \in Seq(Procesos)
      /\ consola[p] = "agregarNEW" /\ consola' = [consola EXCEPT ![p] = "avisar"]
      /\ colaNEW' = Append(colaNEW, p)
      /\ UNCHANGED <<colaREADY, colaEXEC, pcLP, pcbLP, pcCP, pcbCP>>
  BY DEF AgregarNEW, Invariante, Tipos, TypeOK, hiloLP, hiloCP
<1>2. Range(colaNEW') = Range(colaNEW) \cup {p}
  BY <1>1, AgregarACola
<1>3. Fase(p) = "fuera"
  BY <1>1, ValorDeFase DEF Fuera
<1>4. Fase(p)' = "nuevo"
  BY <1>2, ValorDeFasePrima DEF Nuevo
<1>5. ASSUME NEW q \in Procesos, q # p
      PROVE  /\ Fuera(q)' <=> Fuera(q)
             /\ Nuevo(q)' <=> Nuevo(q)
             /\ Listo(q)' <=> Listo(q)
             /\ Ejecutando(q)' <=> Ejecutando(q)
  BY <1>1, <1>2, <1>5 DEF Fuera, Nuevo, Listo, Ejecutando, EnCP
<1>6. [q \in Procesos |-> Fase(q)]' = [[q \in Procesos |-> Fase(q)] EXCEPT ![p] = "nuevo"]
  BY <1>4, <1>5, UnoSeMueve
<1> QED
  BY <1>1, <1>3, <1>6 DEF Ciclo!Llegar

\* The degree was checked three steps before: CuentaAlDia says it still holds.
LEMMA SacarNEWAdmite ==
  ASSUME Invariante, Invariante', SacarNEW
  PROVE  Ciclo!Admitir
<1>1. /\ colaNEW \in Seq(Procesos) /\ IsInjective(colaNEW) /\ ~kernelCaido'
      /\ contadorProcesosEnMemoria \in Nat /\ CadaProcesoEnUnLugar
  BY DEF Invariante, Tipos, TypeOK, Turnos, SinCaida, Lugares, CadaProcesoEnUnLugar
<1>2. /\ pcLP = "sacarNEW" /\ pcLP' = "agregarREADY"
      /\ pcbLP' = Primero(colaNEW) /\ colaNEW' = SinPrimero(colaNEW)
      /\ kernelCaido' = (pcbLP' = Nulo)
      /\ UNCHANGED <<consola, colaREADY, colaEXEC, pcCP, pcbCP>>
  BY DEF SacarNEW, hiloCP
<1>3. colaNEW # <<>>
  BY <1>1, <1>2 DEF Primero
<1> PICK p \in Procesos : p = Head(colaNEW)
  BY <1>1, <1>3, PrimeroDeCola
<1>4. pcbLP' = p /\ colaNEW' = Tail(colaNEW)
  BY <1>2, <1>3 DEF Primero, SinPrimero
<1>5. Range(colaNEW') = Range(colaNEW) \ {p} /\ p \in Range(colaNEW)
  BY <1>1, <1>3, <1>4, QuitarPrimero
<1>6. Cardinality(Ciclo!Admitidos) < GradoMax
  <2>1. CuentaAlDia /\ Ciclo!Admitidos = Admitidos
    BY AdmitidosDelCiclo DEF Invariante
  <2> QED
    BY <1>1, <1>2, <2>1 DEF CuentaAlDia, Uno
<1>7. Fase(p)' = "listo"
  BY <1>2, <1>4, ValorDeFasePrima DEF Listo
<1>8. ASSUME NEW q \in Procesos, q # p
      PROVE  /\ Fuera(q)' <=> Fuera(q)
             /\ Nuevo(q)' <=> Nuevo(q)
             /\ Listo(q)' <=> Listo(q)
             /\ Ejecutando(q)' <=> Ejecutando(q)
  BY <1>2, <1>4, <1>5, <1>8 DEF Fuera, Nuevo, Listo, Ejecutando, EnCP
<1>9. [q \in Procesos |-> Fase(q)]' = [[q \in Procesos |-> Fase(q)] EXCEPT ![p] = "listo"]
  BY <1>4, <1>7, <1>8, UnoSeMueve
<1>10. Ciclo!Cardinality(Ciclo!Admitidos) = Cardinality(Ciclo!Admitidos)
  BY DEF Cardinality, Ciclo!Cardinality
<1> QED
  BY <1>3, <1>4, <1>6, <1>9, <1>10 DEF Ciclo!Admitir

\* The process taken from colaREADY is the only one in execution: the
\* semaphore's token is with this scheduler, and colaEXEC is empty.
LEMMA SacarREADYEjecuta ==
  ASSUME Invariante, Invariante', SacarREADY
  PROVE  \E p \in Procesos : Ciclo!Ejecutar(p)
<1>1. /\ colaREADY \in Seq(Procesos) /\ IsInjective(colaREADY) /\ ~kernelCaido'
      /\ CadaProcesoEnUnLugar /\ Exclusion
  BY DEF Invariante, Tipos, TypeOK, Turnos, SinCaida, Lugares, CadaProcesoEnUnLugar
<1>2. /\ pcCP = "sacarREADY" /\ pcCP' = "agregarEXEC"
      /\ pcbCP' = Ultimo(colaREADY) /\ colaREADY' = SinUltimo(colaREADY)
      /\ kernelCaido' = (pcbCP' = Nulo)
      /\ UNCHANGED <<consola, colaNEW, colaEXEC, pcLP, pcbLP>>
  BY DEF SacarREADY, hiloLP
<1>3. colaREADY # <<>>
  BY <1>1, <1>2 DEF Ultimo
<1> PICK p \in Procesos : p = Ultimo(colaREADY)
  BY <1>1, <1>3, UltimoDeCola
<1>4. /\ Range(colaREADY') = Range(colaREADY) \ {p} /\ p \in Range(colaREADY)
      /\ pcbCP' = p
  BY <1>1, <1>2, <1>3, QuitarUltimo, UltimoDeCola
<1>5. Range(colaEXEC) = {} /\ Range(colaEXEC') = {}
  BY <1>1, <1>2 DEF Exclusion, Range
<1>6. Fase(p) = "listo"
  BY <1>4, ValorDeFase DEF Listo
<1>7. Fase(p)' = "ejecutando"
  BY <1>2, <1>4, ValorDeFasePrima DEF Ejecutando, EnCP
<1>8. ASSUME NEW q \in Procesos, q # p
      PROVE  /\ Fuera(q)' <=> Fuera(q)
             /\ Nuevo(q)' <=> Nuevo(q)
             /\ Listo(q)' <=> Listo(q)
             /\ Ejecutando(q)' <=> Ejecutando(q)
  BY <1>2, <1>4, <1>5, <1>8 DEF Fuera, Nuevo, Listo, Ejecutando, EnCP
<1>9. [q \in Procesos |-> Fase(q)]' = [[q \in Procesos |-> Fase(q)] EXCEPT ![p] = "ejecutando"]
  BY <1>4, <1>7, <1>8, UnoSeMueve
<1>10. \A q \in Procesos : Fase(q) # "ejecutando"
  <2> TAKE q \in Procesos
  <2>1. ~Ejecutando(q)
    BY <1>2, <1>5 DEF Ejecutando, EnCP
  <2>2. /\ Fuera(q) => Fase(q) = "fuera"
        /\ Nuevo(q) => Fase(q) = "nuevo"
        /\ Listo(q) => Fase(q) = "listo"
        /\ ~Fuera(q) /\ ~Nuevo(q) /\ ~Listo(q) /\ ~Ejecutando(q) => Fase(q) = "devuelto"
    BY ValorDeFase
  <2> QED
    BY <2>1, <2>2
<1>11. Ciclo!Ejecutar(p)
  BY <1>2, <1>4, <1>6, <1>9, <1>10 DEF Ciclo!Ejecutar
<1> QED
  BY <1>4, <1>11

\* The PCB that waits for its answer is in the scheduler's hand only: with the
\* answer received it is in no list and in nobody's hand.
LEMMA RecibirPCBDevuelve ==
  ASSUME Invariante, Invariante', RecibirPCB
  PROVE  pcbCP \in Procesos /\ Ciclo!Devolver(pcbCP)
<1>1. /\ pcCP = "recibir" /\ pcCP' = "liberar" /\ ~kernelCaido
      /\ UNCHANGED <<consola, colaNEW, colaREADY, colaEXEC, pcLP, pcbLP, pcbCP>>
  BY DEF RecibirPCB, colas, hiloLP
<1>2. pcbCP \in Procesos /\ Exclusion
  BY <1>1 DEF Invariante, Tipos, PunterosValidos, Turnos
<1> PICK p \in Procesos : p = pcbCP
  BY <1>2
<1>3. Range(colaEXEC) = {}
  BY <1>1, <1>2 DEF Exclusion, Range
<1>4. Ejecutando(p) /\ ~Ejecutando(p)'
  BY <1>1, <1>3 DEF Ejecutando, EnCP
<1>5. Fase(p) = "ejecutando"
  BY <1>4, ValorDeFase
<1>6. ~Fuera(p)' /\ ~Nuevo(p)' /\ ~Listo(p)'
  <2>1. ~Fuera(p) /\ ~Nuevo(p) /\ ~Listo(p)
    BY <1>4, FasesAparte
  <2> QED
    BY <1>1, <2>1 DEF Fuera, Nuevo, Listo
<1>7. Fase(p)' = "devuelto"
  BY <1>4, <1>6, ValorDeFasePrima
<1>8. ASSUME NEW q \in Procesos, q # p
      PROVE  /\ Fuera(q)' <=> Fuera(q)
             /\ Nuevo(q)' <=> Nuevo(q)
             /\ Listo(q)' <=> Listo(q)
             /\ Ejecutando(q)' <=> Ejecutando(q)
  BY <1>1, <1>8 DEF Fuera, Nuevo, Listo, Ejecutando, EnCP
<1>9. [q \in Procesos |-> Fase(q)]' = [[q \in Procesos |-> Fase(q)] EXCEPT ![p] = "devuelto"]
  BY <1>7, <1>8, UnoSeMueve
<1>10. Ciclo!Devolver(p)
  BY <1>1, <1>5, <1>9 DEF Ciclo!Devolver
<1> QED
  BY <1>2, <1>10

-----------------------------------------------------------------------------
(* The refinement *)

\* Nobody has arrived when the kernel starts.
LEMMA CicloInicial == Init => Ciclo!Init
<1> SUFFICES ASSUME Init
             PROVE  Ciclo!Init
  OBVIOUS
<1>1. consola = [p \in Procesos |-> "crear"] /\ colaNEW = <<>>
  BY DEF Init
<1>2. ASSUME NEW p \in Procesos
      PROVE  Fase(p) = "fuera"
  <2>1. Fuera(p) /\ ~Nuevo(p) /\ ~Listo(p) /\ ~Ejecutando(p)
    BY DEF Init, Fuera, Nuevo, Listo, Ejecutando, EnCP, Range
  <2>2. Fase(p) = CASE Fuera(p) -> "fuera"
                    [] Nuevo(p) -> "nuevo"
                    [] Listo(p) -> "listo"
                    [] Ejecutando(p) -> "ejecutando"
                    [] OTHER -> "devuelto"
    BY DEF Fase, Fuera, Nuevo, Listo, Ejecutando
  <2> HIDE DEF Fuera, Nuevo, Listo, Ejecutando
  <2> QED
    BY <2>1, <2>2
<1> QED
  BY <1>1, <1>2 DEF Ciclo!Init

\* Only RecibirPCB returns a process.
LEMMA PasoSinDevolver ==
  ASSUME Invariante, Invariante', [Next]_vars, ~RecibirPCB
  PROVE  \/ \E p \in Procesos : Ciclo!Llegar(p) \/ Ciclo!Ejecutar(p)
         \/ Ciclo!Admitir
         \/ UNCHANGED Ciclo!vars
<1>1. CASE \E p \in Procesos : Consola(p)
  <2> PICK p \in Procesos : Consola(p)
    BY <1>1
  <2>1. CASE AgregarNEW(p)
    BY <2>1, AgregarNEWLlega
  <2>2. CASE CrearPCB(p) \/ AvisarLargoPlazo(p)
    BY <2>2, PasosQuietosDeConsola
  <2> QED
    BY <2>1, <2>2 DEF Consola
<1>2. CASE LargoPlazo
  <2>1. CASE SacarNEW
    BY <2>1, SacarNEWAdmite
  <2> QED
    BY <1>2, <2>1, PasosQuietosDeLargoPlazo DEF LargoPlazo
<1>3. CASE CortoPlazo
  <2>1. CASE SacarREADY
    BY <2>1, SacarREADYEjecuta
  <2> QED
    BY <1>3, <2>1, PasosQuietosDeCortoPlazo DEF CortoPlazo
<1>4. CASE ContadorQuantum \/ CPUContesta \/ UNCHANGED vars
  <2>1. UNCHANGED <<consola, colaNEW, colaREADY, colaEXEC, pcLP, pcbLP, pcCP, pcbCP>>
    BY <1>4 DEF ContadorQuantum, EsperarQuantum, DormirQuantum, CPUContesta,
       vars, colas, hiloLP, hiloCP
  <2>2. \A q \in Procesos : /\ Fuera(q)' <=> Fuera(q)
                            /\ Listo(q)' <=> Listo(q)
                            /\ Ejecutando(q)' <=> Ejecutando(q)
    BY <2>1 DEF Fuera, Listo, Ejecutando, EnCP
  <2> QED
    BY <2>1, <2>2, NadieSeMueve
<1> QED
  BY <1>1, <1>2, <1>3, <1>4 DEF Next

\* Every step of the kernel is a step of the life cycle or none.
LEMMA PasoDelCiclo ==
  ASSUME Invariante, Invariante', [Next]_vars
  PROVE  [Ciclo!Next]_(Ciclo!vars)
<1>1. CASE RecibirPCB
  BY <1>1, RecibirPCBDevuelve DEF Ciclo!Next
<1>2. CASE ~RecibirPCB
  BY <1>2, PasoSinDevolver DEF Ciclo!Next
<1> QED
  BY <1>1, <1>2

\* For any number of consoles, any degree and any of the three algorithms, what
\* the kernel's threads do is the life cycle: processes are admitted in the
\* order in which atender_consola queued them and never more than GradoMax,
\* one executes at a time, and none goes back, is repeated or is skipped.
THEOREM CicloImplementado == Spec => CicloSeguro
<1>1. Init => Ciclo!Init
  BY CicloInicial
<1>2. Invariante /\ Invariante' /\ [Next]_vars => [Ciclo!Next]_(Ciclo!vars)
  BY PasoDelCiclo
<1> QED
  BY <1>1, <1>2, InvarianteSiempre, PTL DEF Spec, CicloSeguro, Ciclo!Spec

-----------------------------------------------------------------------------
(* Pids *)

\* Who came back from the CPU does not leave that phase.
LEMMA NadieVuelveDosVeces ==
  ASSUME Invariante, Invariante', [Next]_vars, NEW p \in Procesos, Fase(p) = "devuelto"
  PROVE  Fase(p)' = "devuelto"
<1>1. Fase(p)' = [r \in Procesos |-> Fase(r)]'[p]
  OBVIOUS
<1>2. ASSUME NEW q \in Procesos, NEW fin,
             [r \in Procesos |-> Fase(r)]' = [[r \in Procesos |-> Fase(r)] EXCEPT ![q] = fin],
             Fase(q) # "devuelto" \/ fin = "devuelto"
      PROVE  Fase(p)' = "devuelto"
  <2>1. Fase(p)' = IF p = q THEN fin ELSE Fase(p)
    BY <1>1, <1>2
  <2> QED
    BY <1>2, <2>1
<1>3. CASE RecibirPCB
  BY <1>2, <1>3, RecibirPCBDevuelve DEF Ciclo!Devolver
<1>4. CASE Ciclo!Admitir
  <2>1. colaNEW # <<>> /\ colaNEW \in Seq(Procesos)
    BY <1>4 DEF Ciclo!Admitir, Invariante, Tipos, TypeOK
  <2>2. Head(colaNEW) \in Procesos /\ Nuevo(Head(colaNEW))
    BY <2>1 DEF Nuevo, Range
  <2>3. Fase(Head(colaNEW)) = "nuevo"
    BY <2>2, ValorDeFase
  <2>4. [r \in Procesos |-> Fase(r)]'
          = [[r \in Procesos |-> Fase(r)] EXCEPT ![Head(colaNEW)] = "listo"]
    BY <1>4 DEF Ciclo!Admitir
  <2> QED
    BY <1>2, <2>2, <2>3, <2>4
<1>5. CASE \E q \in Procesos : Ciclo!Llegar(q) \/ Ciclo!Ejecutar(q)
  BY <1>2, <1>5 DEF Ciclo!Llegar, Ciclo!Ejecutar
<1>6. CASE UNCHANGED Ciclo!vars
  BY <1>1, <1>6 DEF Ciclo!vars
<1> QED
  BY <1>3, <1>4, <1>5, <1>6, PasoSinDevolver

\* What a step does to the pids: crearPCB gives the counter's and RecibirPCB takes
\* the answer's for the process that comes back; nobody else's changes.
LEMMA PasoDePids ==
  ASSUME Invariante, Invariante', [Next]_vars
  PROVE  \/ \E p \in Procesos :
              /\ consola[p] = "crear" /\ pcb'[p].pid = contadorIDProcesos
              /\ contadorIDProcesos' = contadorIDProcesos + 1
              /\ \A q \in Procesos : q # p =>
                    consola'[q] = consola[q] /\ pcb'[q].pid = pcb[q].pid
         \/ /\ contadorIDProcesos' = contadorIDProcesos
            /\ \A q \in Procesos : consola'[q] = "crear" <=> consola[q] = "crear"
            /\ \A q \in Procesos : pcb'[q].pid = pcb[q].pid \/ Fase(q)' = "devuelto"
<1>0. /\ pcb \in [Procesos -> PCB] /\ consola \in [Procesos -> PasosConsola]
  BY DEF Invariante, Tipos, TypeOK
<1> USE DEF colas, contadores, semaforos, hiloLP, hiloCP, socket
<1>1. CASE \E p \in Procesos : CrearPCB(p)
  <2> PICK p \in Procesos : CrearPCB(p)
    BY <1>1
  <2>1. /\ consola[p] = "crear" /\ pcb'[p].pid = contadorIDProcesos
        /\ contadorIDProcesos' = contadorIDProcesos + 1
        /\ \A q \in Procesos : q # p => consola'[q] = consola[q] /\ pcb'[q].pid = pcb[q].pid
    BY <1>0 DEF CrearPCB, ProximoPid
  <2> QED
    BY <2>1
<1>2. CASE \E p \in Procesos : AgregarNEW(p) \/ AvisarLargoPlazo(p)
  BY <1>0, <1>2 DEF AgregarNEW, AvisarLargoPlazo
<1>3. CASE CambiarEstadoLP \/ CambiarEstadoCP
  <2>1. PICK p \in Procesos, e \in Estados : pcb' = [pcb EXCEPT ![p].estado = e]
    <3>1. CASE CambiarEstadoLP
      BY <3>1 DEF CambiarEstadoLP, Invariante, Tipos, PunterosValidos, Estados
    <3>2. CASE CambiarEstadoCP
      BY <3>2 DEF CambiarEstadoCP, Invariante, Tipos, PunterosValidos, Estados
    <3> QED
      BY <1>3, <3>1, <3>2
  <2>2. UNCHANGED <<contadorIDProcesos, consola>>
    BY <1>3 DEF CambiarEstadoLP, CambiarEstadoCP
  <2>3. \A q \in Procesos : pcb'[q].pid = pcb[q].pid
    BY <1>0, <2>1 DEF PCB
  <2> QED
    BY <2>2, <2>3
<1>4. CASE RecibirPCB
  <2>1. pcbCP \in Procesos /\ Ciclo!Devolver(pcbCP)
    BY <1>4, RecibirPCBDevuelve
  <2> PICK c \in Procesos : c = pcbCP
    BY <2>1
  <2>2. Fase(c)' = "devuelto"
    <3>1. [r \in Procesos |-> Fase(r)]' = [[r \in Procesos |-> Fase(r)] EXCEPT ![c] = "devuelto"]
      BY <2>1 DEF Ciclo!Devolver
    <3>2. [r \in Procesos |-> Fase(r)]'[c] = "devuelto"
      BY <3>1
    <3> QED
      BY <3>2
  <2>3. /\ \A q \in Procesos : q # c => pcb'[q].pid = pcb[q].pid
        /\ contadorIDProcesos' = contadorIDProcesos /\ consola' = consola
    BY <1>0, <1>4, <2>1 DEF RecibirPCB
  <2>4. ASSUME NEW q \in Procesos
        PROVE  pcb'[q].pid = pcb[q].pid \/ Fase(q)' = "devuelto"
    BY <2>2, <2>3, Zenon
  <2> QED
    BY <2>3, <2>4
<1>5. CASE UNCHANGED <<pcb, contadorIDProcesos, consola>>
  BY <1>5
<1>6. CASE EsperarDespertar \/ EvaluarGrado \/ SacarNEW \/ AgregarREADY
           \/ AvisarREADY \/ SumarProcesoEnMemoria
  BY <1>5, <1>6 DEF EsperarDespertar, EvaluarGrado, SacarNEW, AgregarREADY,
     AvisarREADY, SumarProcesoEnMemoria
<1>7. CASE EsperarREADY \/ EsperarEXECUTING \/ RevisarColaDeREADY \/ SacarREADY
           \/ AgregarEXEC \/ EjecutarProceso \/ SacarEXEC \/ LiberarEXECUTING
           \/ ComienzoDeQuantum
  BY <1>5, <1>7 DEF EsperarREADY, EsperarEXECUTING, RevisarColaDeREADY, SacarREADY,
     AgregarEXEC, EjecutarProceso, SacarEXEC, LiberarEXECUTING, ComienzoDeQuantum
<1>8. CASE ContadorQuantum \/ CPUContesta \/ UNCHANGED vars
  BY <1>5, <1>8 DEF ContadorQuantum, EsperarQuantum, DormirQuantum, CPUContesta, vars
<1> QED
  BY <1>1, <1>2, <1>3, <1>4, <1>6, <1>7, <1>8 DEF Next, Consola, LargoPlazo, CortoPlazo

\* Who keeps its pid after a step kept it before, or was just created.
LEMMA ConPidPaso ==
  ASSUME Invariante, Invariante', [Next]_vars, NEW p \in Procesos, p \in ConPid'
  PROVE  Fase(p)' # "devuelto" /\ (p \in ConPid \/ (consola[p] = "crear" /\ consola'[p] # "crear"))
<1>1. consola'[p] # "crear" /\ Fase(p)' # "devuelto"
  BY DEF ConPid
<1>2. Fase(p) # "devuelto"
  BY <1>1, NadieVuelveDosVeces
<1> QED
  BY <1>1, <1>2 DEF ConPid

\* Every step keeps the pids apart.
LEMMA PidsNext ==
  ASSUME Invariante, Invariante', [Next]_vars, PidsDistintos
  PROVE  PidsDistintos'
<1>0. contadorIDProcesos \in Nat
  BY DEF Invariante, Tipos, TypeOK
<1>1. /\ \A p \in ConPid : pcb[p].pid \in 0..(contadorIDProcesos - 1)
      /\ \A p, q \in ConPid : p # q => pcb[p].pid # pcb[q].pid
  BY DEF PidsDistintos
<1>2. ConPid' \subseteq Procesos
  BY DEF ConPid
<1>3. ASSUME NEW p \in Procesos,
             consola[p] = "crear", pcb'[p].pid = contadorIDProcesos,
             contadorIDProcesos' = contadorIDProcesos + 1,
             \A q \in Procesos : q # p => consola'[q] = consola[q] /\ pcb'[q].pid = pcb[q].pid
      PROVE  PidsDistintos'
  <2>1. \A q \in ConPid' : q # p => q \in ConPid /\ pcb'[q].pid = pcb[q].pid
    BY <1>2, <1>3, ConPidPaso
  <2>2. \A q \in ConPid' : q # p => pcb'[q].pid \in 0..(contadorIDProcesos - 1)
    BY <1>1, <2>1
  <2>3. \A q \in ConPid' : pcb'[q].pid \in 0..(contadorIDProcesos' - 1)
    BY <1>0, <1>3, <2>2
  <2>4. \A q, r \in ConPid' : q # r => pcb'[q].pid # pcb'[r].pid
    <3> SUFFICES ASSUME NEW q \in ConPid', NEW r \in ConPid', q # r
                 PROVE  pcb'[q].pid # pcb'[r].pid
      OBVIOUS
    <3>1. CASE q # p /\ r # p
      BY <1>1, <2>1, <3>1
    <3>2. CASE q = p \/ r = p
      BY <1>0, <1>3, <2>2, <3>2
    <3> QED
      BY <3>1, <3>2
  <2> QED
    BY <2>3, <2>4 DEF PidsDistintos
<1>4. ASSUME contadorIDProcesos' = contadorIDProcesos,
             \A q \in Procesos : consola'[q] = "crear" <=> consola[q] = "crear",
             \A q \in Procesos : pcb'[q].pid = pcb[q].pid \/ Fase(q)' = "devuelto"
      PROVE  PidsDistintos'
  <2>1. \A q \in ConPid' : q \in ConPid /\ pcb'[q].pid = pcb[q].pid
    BY <1>2, <1>4, ConPidPaso
  <2> QED
    BY <1>1, <1>4, <2>1 DEF PidsDistintos
<1> QED
  BY <1>3, <1>4, PasoDePids

\* Whatever pids the CPU writes in what it returns, a process keeps its own from
\* crearPCB until it comes back, and shares it with no other such process.
THEOREM PidsUnicos == Spec => []PidsDistintos
<1>1. Init => PidsDistintos
  <2> SUFFICES ASSUME Init PROVE PidsDistintos
    OBVIOUS
  <2>1. ConPid = {}
    BY DEF Init, ConPid
  <2> QED
    BY <2>1 DEF PidsDistintos
<1>2. Invariante /\ Invariante' /\ [Next]_vars /\ PidsDistintos => PidsDistintos'
  BY PidsNext
<1> QED
  BY <1>1, <1>2, InvarianteSiempre, PTL DEF Spec

-----------------------------------------------------------------------------
(* FIFO and Feedback *)

\* They never come to where a PCB is received.
SinRecibir ==
  Algoritmo # "RR" =>
    /\ pcCP \notin {"sacarEXEC", "recibir", "liberar"}
    /\ \A p \in Procesos : Fase(p) # "devuelto"

\* No step of the other two takes them there.
LEMMA SinRecibirPaso ==
  ASSUME Invariante, Invariante', [Next]_vars, SinRecibir
  PROVE  SinRecibir'
<1> SUFFICES ASSUME Algoritmo # "RR"
             PROVE  /\ pcCP' \notin {"sacarEXEC", "recibir", "liberar"}
                    /\ \A p \in Procesos : Fase(p)' # "devuelto"
  BY DEF SinRecibir
<1>1. pcCP \notin {"sacarEXEC", "recibir", "liberar"} /\ \A p \in Procesos : Fase(p) # "devuelto"
  BY DEF SinRecibir
<1>2. ~RecibirPCB
  BY <1>1 DEF RecibirPCB
<1>3. pcCP' \notin {"sacarEXEC", "recibir", "liberar"}
  <2>1. CASE CortoPlazo
    BY <1>1, <1>2, <2>1, AlgoritmoConocido DEF CortoPlazo, EsperarREADY, EsperarEXECUTING,
       RevisarColaDeREADY, SacarREADY, AgregarEXEC, CambiarEstadoCP, EjecutarProceso,
       TrasEjecutar, SacarEXEC, LiberarEXECUTING, ComienzoDeQuantum
  <2>2. CASE UNCHANGED pcCP
    BY <1>1, <2>2
  <2>3. CASE LargoPlazo
    BY <2>2, <2>3 DEF LargoPlazo, EsperarDespertar, EvaluarGrado, SacarNEW, AgregarREADY,
       AvisarREADY, SumarProcesoEnMemoria, CambiarEstadoLP, hiloCP
  <2>4. CASE \E p \in Procesos : Consola(p)
    BY <2>2, <2>4 DEF Consola, CrearPCB, AgregarNEW, AvisarLargoPlazo, hiloCP
  <2>5. CASE ContadorQuantum \/ CPUContesta \/ UNCHANGED vars
    BY <2>2, <2>5 DEF ContadorQuantum, EsperarQuantum, DormirQuantum, CPUContesta, vars, hiloCP
  <2> QED
    BY <2>1, <2>3, <2>4, <2>5 DEF Next
<1>4. ASSUME NEW p \in Procesos
      PROVE  Fase(p)' # "devuelto"
  <2>1. CASE UNCHANGED Ciclo!vars
    <3>1. [q \in Procesos |-> Fase(q)]' = [q \in Procesos |-> Fase(q)]
      BY <2>1 DEF Ciclo!vars
    <3>2. Fase(p)' = Fase(p)
      BY <3>1
    <3> QED
      BY <1>1, <3>2
  <2>2. ASSUME NEW q \in Procesos, NEW fin \in {"nuevo", "listo", "ejecutando"},
               [r \in Procesos |-> Fase(r)]' = [[r \in Procesos |-> Fase(r)] EXCEPT ![q] = fin]
        PROVE  Fase(p)' # "devuelto"
    <3>1. Fase(p)' = [r \in Procesos |-> Fase(r)]'[p]
      OBVIOUS
    <3>2. Fase(p)' = IF p = q THEN fin ELSE Fase(p)
      BY <2>2, <3>1
    <3> QED
      BY <1>1, <3>2
  <2>3. CASE Ciclo!Admitir
    <3>1. Head(colaNEW) \in Procesos
      BY <2>3 DEF Ciclo!Admitir, Invariante, Tipos, TypeOK
    <3>2. [r \in Procesos |-> Fase(r)]'
            = [[r \in Procesos |-> Fase(r)] EXCEPT ![Head(colaNEW)] = "listo"]
      BY <2>3 DEF Ciclo!Admitir
    <3> QED
      BY <2>2, <3>1, <3>2
  <2>4. CASE \E q \in Procesos : Ciclo!Llegar(q) \/ Ciclo!Ejecutar(q)
    BY <2>2, <2>4 DEF Ciclo!Llegar, Ciclo!Ejecutar
  <2> QED
    BY <1>2, <2>1, <2>3, <2>4, PasoSinDevolver
<1> QED
  BY <1>3, <1>4

\* So FIFO and Feedback never hold an answer of the CPU.
LEMMA SinRecibirSiempre == Spec => []SinRecibir
<1>1. Init => SinRecibir
  <2> SUFFICES ASSUME Init
               PROVE  SinRecibir
    OBVIOUS
  <2>1. \A p \in Procesos : Fase(p) = "fuera"
    <3>1. \A p \in Procesos : [q \in Procesos |-> Fase(q)][p] = "fuera"
      BY CicloInicial DEF Ciclo!Init
    <3> QED
      BY <3>1
  <2> QED
    BY <2>1 DEF Init, SinRecibir
<1>2. Invariante /\ Invariante' /\ [Next]_vars /\ SinRecibir => SinRecibir'
  BY SinRecibirPaso
<1> QED
  BY <1>1, <1>2, InvarianteSiempre, PTL DEF Spec

\* With FIFO and Feedback no process ever returns from the CPU, however many
\* there are: neither calls recibirPCB_Dispatch nor posts the semaphore that the
\* next dispatch waits for.
THEOREM SoloRRDevuelveSiempre == Spec => []SoloRRDevuelve
<1>1. SinRecibir => SoloRRDevuelve
  BY DEF SinRecibir, SoloRRDevuelve
<1> QED
  BY <1>1, SinRecibirSiempre, PTL

-----------------------------------------------------------------------------
(* Feedback is FIFO *)

\* Both names start alike.
LEMMA InicioComoFIFO == Init => FIFO!Init
<1> SUFFICES ASSUME Init PROVE FIFO!Init
  OBVIOUS
<1>1. PasoVisto = "esperarREADY"
  BY DEF Init, PasoVisto
<1>2. FIFO!SemaforosIniciales = SemaforosIniciales
  BY DEF FIFO!SemaforosIniciales, SemaforosIniciales
<1>3. SemaforosIniciales.comienzoQuantum = 0
  BY DEF SemaforosIniciales
<1> QED BY <1>1, <1>2, <1>3, Zenon DEF Init, FIFO!Init, SinPid, FIFO!SinPid

\* Consoles and long-term scheduler do the same under both names.
LEMMA PasoAjenoComoFIFO ==
  ASSUME (\E p \in Procesos : Consola(p)) \/ LargoPlazo \/ CPUContesta
  PROVE  (\E p \in Procesos : FIFO!Consola(p)) \/ FIFO!LargoPlazo \/ FIFO!CPUContesta
<1>1. ASSUME pcCP' = pcCP PROVE PasoVisto' = PasoVisto
  BY <1>1 DEF PasoVisto
<1>2. ASSUME NEW p \in Procesos, Consola(p) PROVE FIFO!Consola(p)
  <2>1. pcCP' = pcCP
    BY <1>2 DEF Consola, CrearPCB, AgregarNEW, AvisarLargoPlazo, hiloCP
  <2>2. CASE CrearPCB(p)
    BY <1>1, <2>1, <2>2 DEF CrearPCB, FIFO!CrearPCB, FIFO!Consola, ProximoPid, FIFO!ProximoPid,
       colas, semaforos, hiloLP, hiloCP, socket, FIFO!colas, FIFO!semaforos, FIFO!hiloLP,
       FIFO!hiloCP, FIFO!socket
  <2>3. CASE AgregarNEW(p)
    BY <1>1, <2>1, <2>3 DEF AgregarNEW, FIFO!AgregarNEW, FIFO!Consola,
       contadores, semaforos, hiloLP, hiloCP, socket, FIFO!contadores, FIFO!semaforos,
       FIFO!hiloLP, FIFO!hiloCP, FIFO!socket
  <2>4. CASE AvisarLargoPlazo(p)
    BY <1>1, <2>1, <2>4 DEF AvisarLargoPlazo, FIFO!AvisarLargoPlazo, FIFO!Consola,
       contadores, colas, hiloLP, hiloCP, socket, FIFO!contadores, FIFO!colas,
       FIFO!hiloLP, FIFO!hiloCP, FIFO!socket
  <2> QED BY <1>2, <2>2, <2>3, <2>4 DEF Consola
<1>3. ASSUME LargoPlazo PROVE FIFO!LargoPlazo
  <2> USE DEF contadores, colas, semaforos, hiloCP, socket, FIFO!contadores, FIFO!colas,
          FIFO!semaforos, FIFO!hiloCP, FIFO!socket
  <2>1. pcCP' = pcCP
    BY <1>3 DEF LargoPlazo, EsperarDespertar, EvaluarGrado, SacarNEW, AgregarREADY,
       AvisarREADY, SumarProcesoEnMemoria, CambiarEstadoLP
  <2>2. PasoVisto' = PasoVisto
    BY <1>1, <2>1
  <2>3. CASE EsperarDespertar
    BY <2>2, <2>3 DEF EsperarDespertar, FIFO!EsperarDespertar, FIFO!LargoPlazo
  <2>4. CASE EvaluarGrado
    BY <2>2, <2>4 DEF EvaluarGrado, FIFO!EvaluarGrado, FIFO!LargoPlazo,
       EvaluarGradoDeMultiprogramacion, FIFO!EvaluarGradoDeMultiprogramacion
  <2>5. CASE SacarNEW
    BY <2>2, <2>5 DEF SacarNEW, FIFO!SacarNEW, FIFO!LargoPlazo, Primero, FIFO!Primero,
       SinPrimero, FIFO!SinPrimero
  <2>6. CASE AgregarREADY
    BY <2>2, <2>6 DEF AgregarREADY, FIFO!AgregarREADY, FIFO!LargoPlazo
  <2>7. CASE AvisarREADY
    BY <2>2, <2>7 DEF AvisarREADY, FIFO!AvisarREADY, FIFO!LargoPlazo
  <2>8. CASE SumarProcesoEnMemoria
    BY <2>2, <2>8 DEF SumarProcesoEnMemoria, FIFO!SumarProcesoEnMemoria, FIFO!LargoPlazo,
       SumarCantidadDeProcesosEnMemoria, FIFO!SumarCantidadDeProcesosEnMemoria
  <2>9. CASE CambiarEstadoLP
    BY <2>2, <2>9 DEF CambiarEstadoLP, FIFO!CambiarEstadoLP, FIFO!LargoPlazo
  <2> QED BY <1>3, <2>3, <2>4, <2>5, <2>6, <2>7, <2>8, <2>9 DEF LargoPlazo
<1>4. ASSUME CPUContesta PROVE FIFO!CPUContesta
  <2>1. pcCP' = pcCP
    BY <1>4 DEF CPUContesta, hiloCP
  <2> QED BY <1>1, <1>4, <2>1 DEF CPUContesta, FIFO!CPUContesta, contadores, colas, semaforos,
             hiloLP, hiloCP, FIFO!contadores, FIFO!colas, FIFO!semaforos, FIFO!hiloLP, FIFO!hiloCP
<1> QED BY <1>2, <1>3, <1>4

\* The test finds a process, and the quantum concerns nobody else: the rest is
\* the same step.
LEMMA CortoPlazoComoFIFO ==
  ASSUME Algoritmo = "Feedback", Invariante, Invariante', SinRecibir, CortoPlazo
  PROVE  FIFO!CortoPlazo \/ UNCHANGED FIFO!vars
<1> USE DEF contadores, colas, semaforos, hiloLP, socket, FIFO!contadores, FIFO!colas,
        FIFO!semaforos, FIFO!hiloLP, FIFO!socket, PasoVisto
<1>1. CASE EsperarREADY
  BY <1>1 DEF EsperarREADY, FIFO!EsperarREADY, FIFO!CortoPlazo
<1>2. CASE EsperarEXECUTING
  BY <1>2 DEF EsperarEXECUTING, FIFO!EsperarEXECUTING, FIFO!CortoPlazo
<1>3. CASE RevisarColaDeREADY
  <2>1. ~kernelCaido /\ ~kernelCaido'
    BY <1>3 DEF RevisarColaDeREADY, Invariante, Turnos, SinCaida
  <2>2. kernelCaido' = kernelCaido
    <3>1. kernelCaido \in BOOLEAN /\ kernelCaido' \in BOOLEAN
      BY DEF Invariante, Tipos, TypeOK
    <3> QED BY <2>1, <3>1
  <2> QED BY <1>3, <2>2 DEF RevisarColaDeREADY, FIFO!vars, FIFO!hiloCP
<1>4. CASE SacarREADY
  BY <1>4 DEF SacarREADY, FIFO!SacarREADY, FIFO!CortoPlazo, Ultimo, FIFO!Ultimo,
     SinUltimo, FIFO!SinUltimo
<1>5. CASE AgregarEXEC
  BY <1>5 DEF AgregarEXEC, FIFO!AgregarEXEC, FIFO!CortoPlazo
<1>6. CASE CambiarEstadoCP
  BY <1>6 DEF CambiarEstadoCP, FIFO!CambiarEstadoCP, FIFO!CortoPlazo
<1>7. CASE EjecutarProceso
  <2>1. pcCP' = "comienzoQuantum" /\ FIFO!TrasEjecutar = "esperarREADY"
    BY <1>7 DEF EjecutarProceso, TrasEjecutar, FIFO!TrasEjecutar
  <2> QED BY <1>7, <2>1 DEF EjecutarProceso, FIFO!EjecutarProceso, FIFO!CortoPlazo
<1>8. CASE ComienzoDeQuantum
  <2>1. pcCP = "comienzoQuantum" /\ pcCP' = "esperarFin"
    BY <1>8 DEF ComienzoDeQuantum
  <2> QED BY <1>8, <2>1 DEF ComienzoDeQuantum, FIFO!vars, FIFO!hiloCP
<1>9. ~SacarEXEC /\ ~RecibirPCB /\ ~LiberarEXECUTING
  BY DEF SinRecibir, SacarEXEC, RecibirPCB, LiberarEXECUTING
<1> QED BY <1>1, <1>2, <1>3, <1>4, <1>5, <1>6, <1>7, <1>8, <1>9 DEF CortoPlazo

\* Every step of Feedback is FIFO's, or none.
LEMMA PasoComoFIFO ==
  ASSUME Algoritmo = "Feedback", Invariante, Invariante', SinRecibir, [Next]_vars
  PROVE  [FIFO!Next]_(FIFO!vars)
<1>1. CASE (\E p \in Procesos : Consola(p)) \/ LargoPlazo \/ CPUContesta
  BY <1>1, PasoAjenoComoFIFO DEF FIFO!Next
<1>2. CASE CortoPlazo
  BY <1>2, CortoPlazoComoFIFO DEF FIFO!Next
<1>3. CASE ContadorQuantum
  BY <1>3 DEF ContadorQuantum, EsperarQuantum, DormirQuantum, FIFO!vars, contadores, colas,
     semaforos, hiloLP, hiloCP, socket, FIFO!contadores, FIFO!colas, FIFO!semaforos,
     FIFO!hiloLP, FIFO!hiloCP, FIFO!socket, PasoVisto
<1>4. CASE UNCHANGED vars
  BY <1>4 DEF vars, FIFO!vars, contadores, colas, semaforos, hiloLP, hiloCP, socket,
     FIFO!contadores, FIFO!colas, FIFO!semaforos, FIFO!hiloLP, FIFO!hiloCP, FIFO!socket, PasoVisto
<1> QED BY <1>1, <1>2, <1>3, <1>4 DEF Next

\* Whatever the number of consoles and the degree, a kernel configured with
\* Feedback does nothing that one configured with FIFO would not do: its test
\* always finds a process in colaREADY, and nothing waits for its quantum.
THEOREM FeedbackComoFIFO ==
  ASSUME Algoritmo = "Feedback"
  PROVE  Spec => ComoFIFO
<1>1. Init => FIFO!Init
  BY InicioComoFIFO
<1>2. Invariante /\ Invariante' /\ SinRecibir /\ [Next]_vars => [FIFO!Next]_(FIFO!vars)
  BY PasoComoFIFO
<1> QED BY <1>1, <1>2, InvarianteSiempre, SinRecibirSiempre, PTL DEF Spec, ComoFIFO, FIFO!Spec

-----------------------------------------------------------------------------
(* Kernel and CPU *)

\* The kernel's types, whoever is at the other end; and what the CPU holds
\* between recv and send is a PCB.
TiposSistema ==
  /\ Tipos
  /\ pcCPU \in {"recibir", "responder"}
  /\ pcCPU = "responder" => pcbActual \in PCB

PasoDelKernel ==
  \/ \E p \in Procesos : Consola(p)
  \/ LargoPlazo
  \/ CortoPlazo
  \/ ContadorQuantum

\* Every step of kernel and CPU keeps those types.
LEMMA TiposSistemaNext == TiposSistema /\ [NextSistema]_varsSistema => TiposSistema'
<1> SUFFICES ASSUME TiposSistema, [NextSistema]_varsSistema PROVE TiposSistema'
  OBVIOUS
<1>1. CASE UNCHANGED varsCPU /\ (PasoDelKernel \/ UNCHANGED vars)
  <2>1. Tipos'
    BY <1>1, TiposNext DEF TiposSistema, PasoDelKernel, Next
  <2> QED BY <1>1, <2>1 DEF TiposSistema, varsCPU
<1>2. CASE PasoCPU
  <2>1. /\ UNCHANGED varsKernel /\ aCPU \in Seq(PCB) /\ deCPU \in Seq(PCB)
        /\ pcCPU \in {"recibir", "responder"} /\ (pcCPU = "responder" => pcbActual \in PCB)
    BY <1>2 DEF PasoCPU, TiposSistema, Tipos, TypeOK
  <2>2. /\ aCPU' \in Seq(PCB) /\ deCPU' \in Seq(PCB) /\ pcCPU' \in {"recibir", "responder"}
        /\ pcCPU' = "responder" => pcbActual' \in PCB
    <3>1. CASE CPU!RecibirDelKernel
      <4>1. Head(aCPU) \in PCB /\ Tail(aCPU) \in Seq(PCB)
        BY <2>1, <3>1 DEF CPU!RecibirDelKernel
      <4> QED BY <2>1, <3>1, <4>1 DEF CPU!RecibirDelKernel
    <3>2. CASE CPU!ResponderAlKernel
      <4>1. pcbActual' \in PCB
        <5>1. \A q \in PCB : [q EXCEPT !.pid = 23] \in PCB
          BY DEF PCB
        <5>2. pcbActual \in PCB
          BY <2>1, <3>2, Zenon DEF CPU!ResponderAlKernel
        <5>3. [pcbActual EXCEPT !.pid = 23] \in PCB
          BY <5>1, <5>2, Zenon
        <5> QED BY <5>3, <3>2, Zenon DEF CPU!ResponderAlKernel, CPU!PidDeLaCPU
      <4> QED BY <2>1, <3>2, <4>1 DEF CPU!ResponderAlKernel
    <3> QED BY <1>2, <3>1, <3>2 DEF PasoCPU, CPU!NextCPU
  <2>3. Tipos'
    BY <2>1, <2>2 DEF TiposSistema, Tipos, TypeOK, PunterosValidos, varsKernel, contadores,
       colas, semaforos, hiloLP, hiloCP
  <2> QED BY <2>2, <2>3 DEF TiposSistema
<1>3. CASE UNCHANGED varsSistema
  BY <1>1, <1>3 DEF varsSistema
<1> QED BY <1>1, <1>2, <1>3 DEF NextSistema, PasoDelKernel, PasoConsola, PasoLargoPlazo,
           PasoCortoPlazo, PasoContadorQuantum

\* And so they always hold.
LEMMA TiposSistemaSiempre == SpecSistema => []TiposSistema
<1>1. InitSistema => TiposSistema
  BY TiposInit DEF InitSistema, TiposSistema, CPU!InitCPU
<1> QED BY <1>1, TiposSistemaNext, PTL DEF SpecSistema

\* A PCB that goes out goes behind the one the CPU is serving.
LEMMA EnCaminoCrece ==
  ASSUME TiposSistema, UNCHANGED varsCPU, NEW x, x \in PCB, aCPU' = Append(aCPU, x)
  PROVE  EnCaminoACPU' = Append(EnCaminoACPU, x)
<1>1. aCPU \in Seq(PCB)
  BY DEF TiposSistema, Tipos, TypeOK
<1>2. CASE pcCPU = "responder"
  <2>1. PICK a \in PCB : a = pcbActual
    BY <1>2 DEF TiposSistema
  <2>2. <<a>> \o Append(aCPU, x) = Append(<<a>> \o aCPU, x)
    BY <1>1
  <2> QED BY <1>2, <2>1, <2>2 DEF EnCaminoACPU, varsCPU
<1>3. CASE pcCPU # "responder"
  BY <1>3 DEF EnCaminoACPU, varsCPU
<1> QED BY <1>2, <1>3

\* A step of the kernel is the same step, with the PCB in the CPU's hand at the
\* head of what is on its way.
LEMMA PasoDelKernelIgual ==
  ASSUME TiposSistema, UNCHANGED varsCPU, PasoDelKernel
  PROVE  Abstracto!Next
<1> USE DEF Abstracto!contadores, Abstracto!colas, Abstracto!semaforos, Abstracto!hiloLP,
        Abstracto!hiloCP, Abstracto!socket, contadores, colas, semaforos, hiloLP, hiloCP, socket
<1>1. aCPU' = aCPU => EnCaminoACPU' = EnCaminoACPU
  BY DEF EnCaminoACPU, varsCPU
<1>2. ASSUME NEW p \in Procesos, Consola(p) PROVE Abstracto!Consola(p)
  <2>1. EnCaminoACPU' = EnCaminoACPU
    BY <1>1, <1>2 DEF Consola, CrearPCB, AgregarNEW, AvisarLargoPlazo
  <2>2. CASE CrearPCB(p)
    BY <2>1, <2>2 DEF CrearPCB, Abstracto!CrearPCB, Abstracto!Consola, ProximoPid,
       Abstracto!ProximoPid
  <2>3. CASE AgregarNEW(p)
    BY <2>1, <2>3 DEF AgregarNEW, Abstracto!AgregarNEW, Abstracto!Consola
  <2>4. CASE AvisarLargoPlazo(p)
    BY <2>1, <2>4 DEF AvisarLargoPlazo, Abstracto!AvisarLargoPlazo, Abstracto!Consola
  <2> QED BY <1>2, <2>2, <2>3, <2>4 DEF Consola
<1>3. ASSUME LargoPlazo PROVE Abstracto!LargoPlazo
  <2>1. EnCaminoACPU' = EnCaminoACPU
    BY <1>1, <1>3 DEF LargoPlazo, EsperarDespertar, EvaluarGrado, SacarNEW, AgregarREADY,
       AvisarREADY, SumarProcesoEnMemoria, CambiarEstadoLP
  <2>3. CASE EsperarDespertar
    BY <2>1, <2>3 DEF EsperarDespertar, Abstracto!EsperarDespertar, Abstracto!LargoPlazo
  <2>4. CASE EvaluarGrado
    BY <2>1, <2>4 DEF EvaluarGrado, Abstracto!EvaluarGrado, Abstracto!LargoPlazo,
       EvaluarGradoDeMultiprogramacion, Abstracto!EvaluarGradoDeMultiprogramacion
  <2>5. CASE SacarNEW
    BY <2>1, <2>5 DEF SacarNEW, Abstracto!SacarNEW, Abstracto!LargoPlazo, Primero,
       Abstracto!Primero, SinPrimero, Abstracto!SinPrimero
  <2>6. CASE AgregarREADY
    BY <2>1, <2>6 DEF AgregarREADY, Abstracto!AgregarREADY, Abstracto!LargoPlazo
  <2>7. CASE AvisarREADY
    BY <2>1, <2>7 DEF AvisarREADY, Abstracto!AvisarREADY, Abstracto!LargoPlazo
  <2>8. CASE SumarProcesoEnMemoria
    BY <2>1, <2>8 DEF SumarProcesoEnMemoria, Abstracto!SumarProcesoEnMemoria,
       Abstracto!LargoPlazo, SumarCantidadDeProcesosEnMemoria,
       Abstracto!SumarCantidadDeProcesosEnMemoria
  <2>9. CASE CambiarEstadoLP
    BY <2>1, <2>9 DEF CambiarEstadoLP, Abstracto!CambiarEstadoLP, Abstracto!LargoPlazo
  <2> QED BY <1>3, <2>3, <2>4, <2>5, <2>6, <2>7, <2>8, <2>9 DEF LargoPlazo
<1>4. ASSUME CortoPlazo PROVE Abstracto!CortoPlazo
  <2>1. CASE EjecutarProceso
    <3>1. pcb[pcbCP] \in PCB
      BY <2>1 DEF EjecutarProceso, TiposSistema, Tipos, TypeOK, PunterosValidos
    <3>2. EnCaminoACPU' = Append(EnCaminoACPU, pcb[pcbCP])
      BY <2>1, <3>1, EnCaminoCrece DEF EjecutarProceso
    <3> QED BY <2>1, <3>2 DEF EjecutarProceso, Abstracto!EjecutarProceso, Abstracto!CortoPlazo,
               TrasEjecutar, Abstracto!TrasEjecutar
  <2>2. CASE ~EjecutarProceso
    <3>1. EnCaminoACPU' = EnCaminoACPU
      BY <1>1, <1>4, <2>2 DEF CortoPlazo, EsperarREADY, EsperarEXECUTING, RevisarColaDeREADY,
         SacarREADY, AgregarEXEC, CambiarEstadoCP, SacarEXEC, RecibirPCB, LiberarEXECUTING,
         ComienzoDeQuantum
    <3>2. CASE EsperarREADY
      BY <3>1, <3>2 DEF EsperarREADY, Abstracto!EsperarREADY, Abstracto!CortoPlazo
    <3>3. CASE EsperarEXECUTING
      BY <3>1, <3>3 DEF EsperarEXECUTING, Abstracto!EsperarEXECUTING, Abstracto!CortoPlazo
    <3>4. CASE RevisarColaDeREADY
      BY <3>1, <3>4 DEF RevisarColaDeREADY, Abstracto!RevisarColaDeREADY, Abstracto!CortoPlazo
    <3>5. CASE SacarREADY
      BY <3>1, <3>5 DEF SacarREADY, Abstracto!SacarREADY, Abstracto!CortoPlazo, Ultimo,
         Abstracto!Ultimo, SinUltimo, Abstracto!SinUltimo
    <3>6. CASE AgregarEXEC
      BY <3>1, <3>6 DEF AgregarEXEC, Abstracto!AgregarEXEC, Abstracto!CortoPlazo
    <3>7. CASE CambiarEstadoCP
      BY <3>1, <3>7 DEF CambiarEstadoCP, Abstracto!CambiarEstadoCP, Abstracto!CortoPlazo
    <3>8. CASE SacarEXEC
      BY <3>1, <3>8 DEF SacarEXEC, Abstracto!SacarEXEC, Abstracto!CortoPlazo, Primero,
         Abstracto!Primero, SinPrimero, Abstracto!SinPrimero
    <3>9. CASE RecibirPCB
      BY <3>1, <3>9 DEF RecibirPCB, Abstracto!RecibirPCB, Abstracto!CortoPlazo
    <3>10. CASE LiberarEXECUTING
      BY <3>1, <3>10 DEF LiberarEXECUTING, Abstracto!LiberarEXECUTING, Abstracto!CortoPlazo
    <3>11. CASE ComienzoDeQuantum
      BY <3>1, <3>11 DEF ComienzoDeQuantum, Abstracto!ComienzoDeQuantum, Abstracto!CortoPlazo
    <3> QED BY <1>4, <2>2, <3>2, <3>3, <3>4, <3>5, <3>6, <3>7, <3>8, <3>9, <3>10, <3>11
            DEF CortoPlazo
  <2> QED BY <2>1, <2>2
<1>5. ASSUME ContadorQuantum PROVE Abstracto!ContadorQuantum
  <2>1. EnCaminoACPU' = EnCaminoACPU
    BY <1>1, <1>5 DEF ContadorQuantum, EsperarQuantum, DormirQuantum
  <2> QED BY <1>5, <2>1 DEF ContadorQuantum, EsperarQuantum, DormirQuantum,
             Abstracto!ContadorQuantum, Abstracto!EsperarQuantum, Abstracto!DormirQuantum
<1> QED BY <1>2, <1>3, <1>4, <1>5 DEF PasoDelKernel, Abstracto!Next

\* What the CPU receives is on its way until it answers; the answer takes it.
LEMMA PasoDeLaCPU ==
  ASSUME TiposSistema, PasoCPU
  PROVE  Abstracto!CPUContesta \/ UNCHANGED Abstracto!vars
<1>1. aCPU \in Seq(PCB) /\ UNCHANGED varsKernel
  BY DEF PasoCPU, TiposSistema, Tipos, TypeOK
<1>2. CASE CPU!RecibirDelKernel
  <2>1. <<Head(aCPU)>> \o Tail(aCPU) = aCPU
    BY <1>1, <1>2 DEF CPU!RecibirDelKernel
  <2>2. EnCaminoACPU' = EnCaminoACPU /\ deCPU' = deCPU
    BY <1>2, <2>1 DEF CPU!RecibirDelKernel, EnCaminoACPU
  <2> QED BY <1>1, <2>2 DEF varsKernel, Abstracto!vars, Abstracto!contadores, Abstracto!colas,
             Abstracto!semaforos, Abstracto!hiloLP, Abstracto!hiloCP, Abstracto!socket,
             contadores, colas, semaforos, hiloLP, hiloCP
<1>3. CASE CPU!ResponderAlKernel
  <2>1. PICK a \in PCB : a = pcbActual
    BY <1>3 DEF CPU!ResponderAlKernel, TiposSistema
  <2>2. /\ EnCaminoACPU = <<a>> \o aCPU
        /\ EnCaminoACPU' = aCPU
        /\ deCPU' = Append(deCPU, [a EXCEPT !.pid = CPU!PidDeLaCPU])
    BY <1>3, <2>1 DEF CPU!ResponderAlKernel, EnCaminoACPU
  <2>3. <<a>> \o aCPU # <<>> /\ Head(<<a>> \o aCPU) = a /\ Tail(<<a>> \o aCPU) = aCPU
    BY <1>1
  <2>4. /\ EnCaminoACPU # <<>> /\ EnCaminoACPU' = Tail(EnCaminoACPU)
        /\ \E pid \in PidsCPU : deCPU' = Append(deCPU, [Head(EnCaminoACPU) EXCEPT !.pid = pid])
    BY <2>2, <2>3, PidConocido
  <2> QED BY <1>1, <2>4 DEF varsKernel, Abstracto!CPUContesta, Abstracto!contadores,
             Abstracto!colas, Abstracto!semaforos, Abstracto!hiloLP, Abstracto!hiloCP,
             contadores, colas, semaforos, hiloLP, hiloCP
<1> QED BY <1>2, <1>3 DEF PasoCPU, CPU!NextCPU

\* At the start nothing is on its way.
LEMMA InicioSistema == InitSistema => Abstracto!Init
<1> SUFFICES ASSUME InitSistema PROVE Abstracto!Init
  OBVIOUS
<1>1. EnCaminoACPU = <<>>
  BY DEF InitSistema, Init, CPU!InitCPU, EnCaminoACPU
<1>2. Abstracto!SemaforosIniciales = SemaforosIniciales /\ Abstracto!SinPid = SinPid
  BY DEF Abstracto!SemaforosIniciales, SemaforosIniciales, Abstracto!SinPid, SinPid
<1> QED BY <1>1, <1>2, Zenon DEF InitSistema, Init, Abstracto!Init

\* Every behaviour of the kernel with the CPU of the repository is one of the
\* scheduler with a CPU that answers in order, for any number of consoles, any
\* degree and each algorithm: what was proved of the scheduler holds of both.
THEOREM SistemaImplementado == SpecSistema => SistemaSeguro
<1>1. InitSistema => Abstracto!Init
  BY InicioSistema
<1>2. TiposSistema /\ [NextSistema]_varsSistema => [Abstracto!Next]_(Abstracto!vars)
  <2> SUFFICES ASSUME TiposSistema, [NextSistema]_varsSistema
               PROVE  [Abstracto!Next]_(Abstracto!vars)
    OBVIOUS
  <2>1. CASE UNCHANGED varsCPU /\ PasoDelKernel
    BY <2>1, PasoDelKernelIgual
  <2>2. CASE PasoCPU
    BY <2>2, PasoDeLaCPU DEF Abstracto!Next
  <2>3. CASE UNCHANGED varsSistema
    BY <2>3 DEF varsSistema, varsCPU, vars, EnCaminoACPU, Abstracto!vars, Abstracto!contadores,
       Abstracto!colas, Abstracto!semaforos, Abstracto!hiloLP, Abstracto!hiloCP,
       Abstracto!socket, contadores, colas, semaforos, hiloLP, hiloCP, socket
  <2> QED BY <2>1, <2>2, <2>3 DEF NextSistema, PasoDelKernel, PasoConsola, PasoLargoPlazo,
             PasoCortoPlazo, PasoContadorQuantum
<1> QED BY <1>1, <1>2, TiposSistemaSiempre, PTL DEF SpecSistema, SistemaSeguro, Abstracto!Spec
=============================================================================
