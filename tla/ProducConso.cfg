CONSTANTS
    nombre_produ = 2
    nombre_conso = 3
    MAXDONNEE = 2
    TAILLE_MAX = 2
SPECIFICATION Spec
INVARIANTS EtatCoherent AccesExclusif BilanSemaphores ValeursFinales
PROPERTIES RaffineFile Terminaison
