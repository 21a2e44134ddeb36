SPECIFICATION Spec
CONSTANTS
    Clients = {c1, c2, c3}
    MAXLIGNES = 2
    TAMPON = 2
    nbre_client_max = 2
    Indefini = {"rien"}
INVARIANTS CasesCoherentes LectureSansBlocage MortParInterruption
PROPERTIES RaffineEcho ClientsServis
