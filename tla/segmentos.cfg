\* Three threads, every interleaving of the steps of strtok.
SPECIFICATION Spec
CONSTANTS
    h1 = h1
    h2 = h2
    h3 = h3
    Hilos <- MCHilos
    Cadenas <- MCCadenas
INVARIANTS
    TablaSinSolape
    SinRepetidos
PROPERTIES
    Terminan
