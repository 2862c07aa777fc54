\* Feedback with room for all: it dispatches once, so it takes admissions to
\* fill its lists.
SPECIFICATION Spec
CONSTANTS
    Procesos = {p1,p2,p3}
    GradoMax = 3
    Algoritmo = "Feedback"
    PidsCPU = {23}
    Nulo = Nulo
    p1 = p1
    p2 = p2
    p3 = p3
\* No console is obliged to connect, and after one process the scheduler waits
\* for a semaphore nobody posts.
CHECK_DEADLOCK FALSE
INVARIANTS
    SoloRRDevuelve
PROPERTIES
    CicloSeguro
    ComoFIFO
