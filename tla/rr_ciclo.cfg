\* Round robin under fairness: every safety invariant, and the life cycle with
\* its liveness.
SPECIFICATION SpecJusta
CONSTANTS
    Procesos = {p1,p2,p3}
    GradoMax = 2
    Algoritmo = "RR"
    PidsCPU = {23}
    Nulo = Nulo
    p1 = p1
    p2 = p2
    p3 = p3
\* No console is obliged to connect, and once every process is served the
\* threads wait on their semaphores for ever.
CHECK_DEADLOCK FALSE
INVARIANTS
    TypeOK
    SinCaida
    AvisosDeNEW
    AvisosDeREADY
    GradoRespetado
    UnSoloEnCPU
    CadaProcesoEnUnLugar
    ProgramaConservado
    PidsDistintos
PROPERTIES
    CicloJusto
