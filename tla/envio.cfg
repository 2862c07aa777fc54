\* Every program, two of them with their fields cut in pieces.
SPECIFICATION Spec
CONSTANTS
    Archivos <- MCArchivos
    SaltosFinales <- MCSaltos
    LargoSegmentos = 2
    Cortados <- MCCortados
    Restos <- MCRestos
INVARIANTS
    TypeOK
    ProgramaFiel
    KernelVivo
    ReservaAlcanza
    PCBCabe
    RenglonesFieles
PROPERTIES
    SeCrea
    HiloTermina
