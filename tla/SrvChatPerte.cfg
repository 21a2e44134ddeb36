SPECIFICATION SpecChat
CONSTANTS
    Clients = {c1, c2}
    MAXLIGNES = 2
    TAMPON = 2
    DIX = 3
    nbre_client_max = 2
    Indefini = {"rien"}
INVARIANTS PasDePerte
CHECK_DEADLOCK FALSE
