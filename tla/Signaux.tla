-------------------------------- MODULE Signaux --------------------------------
(***************************************************************************)
(* The six programs of signaux-tubes that handle a signal: main changes the *)
(* disposition of a signal and waits in pause, while the user sends signals *)
(* at any moment.  The kernel keeps one signal of a kind at most, and       *)
(* delivers it when the process does not block it.                          *)
(***************************************************************************)
EXTENDS Execution, Integers, Sequences, FiniteSets

CONSTANT MAXSIGNAUX   \* bound: signals that are sent

ASSUME SignauxAssumption == MAXSIGNAUX \in Nat

VARIABLES envois,      \* the number of signals that were sent
          pendants,    \* the signals that wait to be delivered
          masque,      \* the signals that are blocked
          dispo,       \* the disposition of each signal
          etape,       \* the call of main that comes next
          endormi,     \* main sleeps in pause
          gestion,     \* the signal whose handler runs
          tours,       \* the iterations of the handler
          traites,     \* the handlers that have returned
          issue        \* how the process has ended

varsSignaux == <<envois, pendants, masque, dispo, etape, endormi, gestion, tours, traites, issue>>

Signaux == {"SIGINT", "SIGUSR1"}
Aucun   == "aucun"

-----------------------------------------------------------------------------
\* Each program: the signal, what else its handler blocks, the iterations of
\* the handler, whether it exits, and the calls of main.
gestionDirecte == [signal |-> "SIGINT", bloque |-> {}, tours |-> 1, sort |-> TRUE,
                   main |-> <<"gere", "pause">>]
ignoreSignal == [signal |-> "SIGINT", bloque |-> {}, tours |-> 1, sort |-> FALSE,
                 main |-> <<"ignorer", "pause">>]
\* Mutant: SIGINT is not added to the mask.
eviterSansMasque == [signal |-> "SIGUSR1", bloque |-> {}, tours |-> 5, sort |-> TRUE,
                     main |-> <<"gere", "pause">>]
eviterSigInt == [signal |-> "SIGUSR1", bloque |-> {"SIGINT"}, tours |-> 5, sort |-> TRUE,
                 main |-> <<"gere", "pause">>]
verifierReception == [signal |-> "SIGUSR1", bloque |-> {}, tours |-> 5, sort |-> TRUE,
                      main |-> <<"gere", "pause">>]
traiterDeuxFois == [signal |-> "SIGINT", bloque |-> {}, tours |-> 1, sort |-> FALSE,
                    main |-> <<"gere", "pause", "pause", "defaut", "pause">>]
traiterUneFois == [signal |-> "SIGINT", bloque |-> {}, tours |-> 1, sort |-> FALSE,
                   main |-> <<"gere", "pause", "defaut", "pause">>]

ProgrammesSignaux == {"gestionDirecte", "ignoreSignal", "eviterSigInt", "verifierReception",
                      "traiterDeuxFois", "traiterUneFois"}
Programme ==
    CASE programme = "gestionDirecte"    -> gestionDirecte
      [] programme = "ignoreSignal"      -> ignoreSignal
      [] programme = "eviterSigInt"      -> eviterSigInt
      [] programme = "verifierReception" -> verifierReception
      [] programme = "traiterDeuxFois"   -> traiterDeuxFois
      [] programme = "traiterUneFois"    -> traiterUneFois

InitNoyau ==
    /\ envois = 0 /\ pendants = {} /\ masque = {}
    /\ dispo = [s \in Signaux |-> "defaut"]
    /\ etape = 1 /\ endormi = FALSE
    /\ gestion = Aucun /\ tours = 0 /\ traites = 0

InitSignaux == programme \in ProgrammesSignaux /\ issue = "actif" /\ InitNoyau

\* Another program is executed.
ReposSignaux == issue = "autre" /\ InitNoyau

EnCoursSignaux == issue = "actif"
DansMain       == EnCoursSignaux /\ gestion = Aucun

-----------------------------------------------------------------------------
\* kill, or control-C: a signal that is ignored is thrown away at once.
Envoyer(s) ==
    /\ EnCoursSignaux /\ envois < MAXSIGNAUX
    /\ envois' = envois + 1
    /\ pendants' = IF dispo[s] = "ignorer" THEN pendants ELSE pendants \cup {s}
    /\ UNCHANGED <<masque, dispo, etape, endormi, gestion, tours, traites, issue>>

Delivrer(s) ==
    /\ EnCoursSignaux /\ s \in pendants \ masque
    /\ pendants' = pendants \ {s}
    /\ IF dispo[s] = "defaut"
       THEN issue' = s /\ UNCHANGED <<gestion, masque, tours>>
       ELSE /\ gestion' = s /\ tours' = 0
            /\ masque' = {s} \cup Programme.bloque
            /\ UNCHANGED issue
    /\ UNCHANGED <<envois, dispo, etape, endormi, traites>>

\* sigaction; the kernel throws away a signal that waits and is now ignored.
Installer ==
    /\ DansMain /\ etape <= Len(Programme.main) /\ Programme.main[etape] # "pause"
    /\ dispo' = [dispo EXCEPT ![Programme.signal] = Programme.main[etape]]
    /\ pendants' = IF Programme.main[etape] = "ignorer" THEN pendants \ {Programme.signal}
                   ELSE pendants
    /\ etape' = etape + 1
    /\ UNCHANGED <<envois, masque, endormi, gestion, tours, traites, issue>>

\* pause: what was handled before does not wake it.
Dormir ==
    /\ DansMain /\ etape <= Len(Programme.main) /\ Programme.main[etape] = "pause"
    /\ ~endormi /\ endormi' = TRUE
    /\ UNCHANGED <<envois, pendants, masque, dispo, etape, gestion, tours, traites, issue>>

Retourner ==
    /\ DansMain /\ etape > Len(Programme.main)
    /\ issue' = "retour"
    /\ UNCHANGED <<envois, pendants, masque, dispo, etape, endormi, gestion, tours, traites>>

\* An iteration of gere, and its end: exit, or the return into main.
gere ==
    /\ EnCoursSignaux /\ gestion # Aucun
    /\ IF tours < Programme.tours
       THEN tours' = tours + 1 /\ UNCHANGED <<masque, etape, endormi, gestion, traites, issue>>
       ELSE IF Programme.sort
       THEN issue' = "exit" /\ UNCHANGED <<masque, etape, endormi, gestion, tours, traites>>
       ELSE /\ gestion' = Aucun /\ masque' = {} /\ traites' = traites + 1
            /\ endormi' = FALSE
            /\ etape' = IF endormi THEN etape + 1 ELSE etape
            /\ UNCHANGED <<tours, issue>>
    /\ UNCHANGED <<envois, pendants, dispo>>

processusSignaux == Installer \/ Dormir \/ Retourner \/ gere \/ (\E s \in Signaux : Delivrer(s))

utilisateurSignaux == \E s \in Signaux : Envoyer(s)

-----------------------------------------------------------------------------
TypeOKSignaux ==
    /\ pendants \subseteq Signaux /\ masque \subseteq Signaux
    /\ dispo \in [Signaux -> {"defaut", "ignorer", "gere"}]
    /\ tours \in 0 .. 5 /\ traites \in 0 .. envois
    /\ issue \in Signaux \cup {"actif", "exit", "retour", "autre"}

\* The signals that have to be handled before the default comes back.
Promis == CASE programme = "traiterUneFois" -> 1 [] programme = "traiterDeuxFois" -> 2
            [] OTHER -> MAXSIGNAUX + 1

\* Whenever the signals come: no program returns from its last pause; once the
\* handler is installed its signal kills only after it has been handled as often
\* as the name of the program says; and SIGINT never cuts the handler of
\* eviterSigInt, "pour ignorer SIGINT durant l'execution de la gérante".
SignauxTraites ==
    /\ TypeOKSignaux
    /\ issue # "retour"
    /\ issue \in Signaux /\ issue = Programme.signal /\ etape > 1 => traites >= Promis
    /\ issue \in Signaux /\ programme = "eviterSigInt" => gestion = Aucun

\* What must come after a signal that eviterSigInt has begun to handle: the end of
\* the handler.
CalmeSignaux == programme = "eviterSigInt" /\ gestion # Aucun => issue = "exit"
=============================================================================
