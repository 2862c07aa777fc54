SPECIFICATION Spec
CONSTANTS
    Programas <- MCProgramas
    Numeros <- MCNumeros
    Tope = 8
    MaxPCBs = 2
INVARIANTS TypeOK RegistrosFieles UnaRespuesta
PROPERTY CicloTermina
CHECK_DEADLOCK FALSE
