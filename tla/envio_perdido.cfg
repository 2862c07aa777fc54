\* A field of the message arrives in two pieces.
SPECIFICATION Spec
CONSTANTS
    Archivos <- MCUnRenglon
    SaltosFinales <- MCSaltos
    LargoSegmentos = 2
    Cortados <- MCUnRenglon
    Restos <- MCRestos
INVARIANT ProcesoFiel
