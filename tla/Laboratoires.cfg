SPECIFICATION Spec
CONSTANTS
    CAPACITE = 2
    MAXECRIT = 4
    NFICHIERS = 2
    MAXAJOUTS = 3
    MAXIMUM = 23
    NB_THREAD = 3
    MAXSIGNAUX = 4
    NFILS = 3
    NDOSSIERS = 3
    MAXTAILLE = 5
    MAXTOURS = 6
    MAXARGUMENTS = 2
    TAILLE_LIEN = 3
    Dossiers = {"a", "b", "c"}
    MAXDEPLACEMENTS = 2
INVARIANTS ToutLu AffichageExact CompteJuste SansCourse SignauxTraites ArbreExact CommandeLancee ProjectionExacte ListeExacte CheminExact
PROPERTIES Terminaison Rattrapage
CHECK_DEADLOCK FALSE
