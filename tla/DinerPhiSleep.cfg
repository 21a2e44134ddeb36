CONSTANTS
    NOMBRE_DE_PHILOSOPHE = 3
    NOMBRE_DE_REPAS = 2
SPECIFICATION Spec
INVARIANTS ActifCoherent
PROPERTIES Terminaison
