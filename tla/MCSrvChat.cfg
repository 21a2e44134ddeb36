SPECIFICATION SpecChat
CONSTANTS
    Clients = {c1, c2, c3}
    MAXLIGNES = 2
    TAMPON = 2
    DIX = 3
    nbre_client_max = 2
    Indefini = {"rien", "POLLIN", "POLLHUP"}
SYMMETRY Symetrie
INVARIANTS CasesCoherentes DiffusionOrdonnee
CHECK_DEADLOCK FALSE
