CONSTANTS
    nombre_produ = 3
    nombre_conso = 1
    MAXDONNEE = 1
    TAILLE_MAX = 2
SPECIFICATION SpecProgrammes
CHECK_DEADLOCK FALSE
INVARIANTS IndexAvecMutex IndexSansMutex
