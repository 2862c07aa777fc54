\* Three programs, the four returns, any cut of the stream.
SPECIFICATION Spec
CONSTANTS
    i1 = i1
    i2 = i2
    disco = disco
    Textos <- MCTextos
    Largo <- MCLargo
    Programas <- MCProgramas
    Respuestas <- MCRespuestas
    PidDeLaCPU = 23
    Nulo = Nulo
INVARIANTS
    TypeOK
    CamposEnteros
    SinSobrantes
PROPERTIES
    ImplementaDispatch
