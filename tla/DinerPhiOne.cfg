CONSTANTS
    NOMBRE_DE_PHILOSOPHE = 5
    NOMBRE_DE_REPAS = 2
SPECIFICATION Spec
INVARIANTS VerrouCoherent
PROPERTIES RaffineRepas Terminaison
