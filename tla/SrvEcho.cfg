SPECIFICATION Spec
CONSTANTS
    Clients = {c1, c2, c3}
    MAXLIGNES = 2
    TAMPON = 2
INVARIANTS ConnexionsSures
PROPERTIES RaffineEcho ClientsServis
