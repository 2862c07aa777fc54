SPECIFICATION Spec
CONSTANTS
    Consolas = {c1, c2}
    MaxVidas = 2
    Configuraciones <- MCConfiguraciones
INVARIANTS TypeOK SinBasura SaludoFiel
PROPERTIES ArranqueTermina CPUNoSobrevive ConsolaTermina ProgramaServido
CHECK_DEADLOCK FALSE
