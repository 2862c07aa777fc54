\* The long-term scheduler writes READY over EXEC.
SPECIFICATION Spec
CONSTANTS
    Procesos = {p1,p2}
    GradoMax = 2
    Algoritmo = "RR"
    PidsCPU = {23}
    Nulo = Nulo
    p1 = p1
    p2 = p2
\* No console is obliged to connect, and once every process is served the
\* threads wait on their semaphores for ever.
CHECK_DEADLOCK FALSE
PROPERTIES
    EstadoAnteriorNEW
