CONSTANTS
    nombre_produ = 1
    nombre_conso = 2
    MAXDONNEE = 2
    TAILLE_MAX = 2
SPECIFICATION Spec
CHECK_DEADLOCK FALSE
INVARIANTS DonneeDisponible
