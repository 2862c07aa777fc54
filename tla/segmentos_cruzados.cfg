\* Two consoles that arrive together.
SPECIFICATION Spec
CONSTANTS
    h1 = h1
    h2 = h2
    h3 = h3
    Hilos <- DosHilos
    Cadenas <- DosCadenas
INVARIANT TablaPropia
