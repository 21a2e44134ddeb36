------------------------------- MODULE DinerPhi -------------------------------
(***************************************************************************)
(* diner_phi.c: one mutex per fork, taken in increasing order of their      *)
(* index and released in the opposite order.                                *)
(***************************************************************************)
EXTENDS Philosophes

VARIABLE mutex_fouchette    \* for each fork: its owner, Libre or Invalide

vars == <<varsPhilosophes, mutex_fouchette>>

Libre == -1
Invalide == -2              \* not initialised yet, or destroyed

Init ==
    /\ Init0("initialiser")
    /\ mutex_fouchette = [f \in Phi |-> Invalide]

Gauche(p) == p
Droite(p) == (p + 1) % NOMBRE_DE_PHILOSOPHE

\* Mutant: everybody takes his left fork first.
ToujoursGauche(p) == Gauche(p)

\* The fork a philosopher takes first, and the other one.
Premiere(p) == IF p < Droite(p) THEN Gauche(p) ELSE Droite(p)
Seconde(p)  == IF Premiere(p) = Gauche(p) THEN Droite(p) ELSE Gauche(p)

-----------------------------------------------------------------------------
InitialiserMutex ==
    /\ Iteration("initialiser", "creer")
    /\ mutex_fouchette' = [mutex_fouchette EXCEPT ![i] = Libre]
    /\ UNCHANGED <<nombre_repas, tab, pc, id_philosophe>>

DetruireMutex ==
    /\ Iteration("detruire", "fini")
    /\ mutex_fouchette' = [mutex_fouchette EXCEPT ![i] = Invalide]
    /\ UNCHANGED <<nombre_repas, tab, pc, id_philosophe>>

main ==
    \/ InitialiserMutex
    \/ Creer /\ UNCHANGED mutex_fouchette
    \/ Joindre("detruire") /\ UNCHANGED mutex_fouchette
    \/ DetruireMutex

-----------------------------------------------------------------------------
\* Mutant: the mutex is taken whatever its state.
VerrouillerSansTest(f, t) ==
    mutex_fouchette' = [mutex_fouchette EXCEPT ![f] = t]

Verrouiller(f, t) ==
    /\ mutex_fouchette[f] = Libre
    /\ mutex_fouchette' = [mutex_fouchette EXCEPT ![f] = t]

Deverrouiller(f) == mutex_fouchette' = [mutex_fouchette EXCEPT ![f] = Libre]

PrendrePremiere(t) ==
    /\ pc[t] = "prendre"
    /\ Verrouiller(Premiere(id_philosophe[t]), t)
    /\ Aller(t, "prendre2")
    /\ UNCHANGED <<nombre_repas, tab, phase, i, id_philosophe>>

PrendreSeconde(t) ==
    /\ pc[t] = "prendre2"
    /\ Verrouiller(Seconde(id_philosophe[t]), t)
    /\ Aller(t, "mange")
    /\ UNCHANGED <<nombre_repas, tab, phase, i, id_philosophe>>

PoserSeconde(t) ==
    /\ pc[t] = "poser"
    /\ Deverrouiller(Seconde(id_philosophe[t]))
    /\ Aller(t, "poser2")
    /\ UNCHANGED <<nombre_repas, tab, phase, i, id_philosophe>>

PoserPremiere(t) ==
    /\ pc[t] = "poser2"
    /\ Deverrouiller(Premiere(id_philosophe[t]))
    /\ Aller(t, "boucle")
    /\ UNCHANGED <<nombre_repas, tab, phase, i, id_philosophe>>

philosophe(t) ==
    \/ Demarrer(t) /\ UNCHANGED mutex_fouchette
    \/ Tester(t) /\ UNCHANGED mutex_fouchette
    \/ PrendrePremiere(t)
    \/ PrendreSeconde(t)
    \/ Manger(t) /\ UNCHANGED mutex_fouchette
    \/ PoserSeconde(t)
    \/ PoserPremiere(t)

\* The program stops once main has returned.
Termine == phase = "fini" /\ UNCHANGED vars

Next == main \/ (\E t \in Phi : philosophe(t)) \/ Termine

\* The system scheduler runs every thread that can run, main included.  Every
\* thread takes a bounded number of steps, so weak fairness is enough.
Spec ==
    /\ Init /\ [][Next]_vars
    /\ WF_vars(main)
    /\ \A t \in Phi : WF_vars(philosophe(t))

-----------------------------------------------------------------------------
Points == Inactif \cup {"demarre", "boucle", "prendre", "prendre2", "mange",
                        "poser", "poser2"}
Phases == {"initialiser", "creer", "joindre", "detruire", "fini"}

\* Every variable of diner_phi.c stays in its range; nobody eats more than
\* NOMBRE_DE_REPAS times.
TypeOK ==
    /\ TypeOKPhilosophes(Points, Phases)
    /\ mutex_fouchette \in [Phi -> Phi \cup {Libre, Invalide}]

Voisins(p, q) == p # q /\ (q = Droite(p) \/ p = Droite(q))

\* The forks a philosopher holds according to the point his thread has reached.
Tenues(t) ==
    {f \in Phi :
        \/ /\ pc[t] \in {"prendre2", "mange", "poser", "poser2"}
           /\ f = Premiere(id_philosophe[t])
        \/ /\ pc[t] \in {"mange", "poser"}
           /\ f = Seconde(id_philosophe[t])}

\* No fork is in two hands, and a mutex is owned exactly while its owner is
\* between the lock of prendre_couverts and the unlock of poser_couverts: a
\* thread never unlocks a mutex it does not own.
VerrousCoherents ==
    \A f, t \in Phi : mutex_fouchette[f] = t <=> f \in Tenues(t)

\* Two neighbours are never between the end of prendre_couverts and the
\* beginning of poser_couverts at the same time, although they synchronise only
\* through the fork they share.
ExclusionVoisins ==
    \A t, u \in Phi :
        pc[t] \in {"mange", "poser"} /\ pc[u] \in {"mange", "poser"}
            => ~Voisins(id_philosophe[t], id_philosophe[u])

\* A thread is blocked only by pthread_mutex_lock.
PeutAvancer(t) ==
    /\ pc[t] \notin Inactif
    /\ pc[t] = "prendre" => mutex_fouchette[Premiere(id_philosophe[t])] = Libre
    /\ pc[t] = "prendre2" => mutex_fouchette[Seconde(id_philosophe[t])] = Libre

\* The remark of diner_phi.c: as long as a philosopher is at the table, one of
\* them can go on.  The circular wait never closes.
SansInterblocage ==
    (\E t \in Phi : pc[t] \notin Inactif) => \E t \in Phi : PeutAvancer(t)

\* main destroys the mutexes only when every thread has returned and all the
\* meals were taken; as long as a thread can use a fork, every mutex is
\* initialised and not destroyed.
DestructionSure ==
    /\ phase \in {"detruire", "fini"} =>
           \A p \in Phi : pc[p] = "sorti" /\ nombre_repas[p] = NOMBRE_DE_REPAS
    /\ (\E t \in Phi : pc[t] \notin Inactif) =>
           \A f \in Phi : mutex_fouchette[f] # Invalide

\* No thread unlocks a mutex that is not its own, or uses one that is destroyed.
VerrousSurs == VerrousCoherents /\ DestructionSure

Table == INSTANCE Repas WITH Convives <- Phi, EnConflit <- Voisins,
                             NombreDeRepas <- NOMBRE_DE_REPAS,
                             mangent <- Mangent, repas <- nombre_repas

\* The program implements the abstract table: a meal starts only when no
\* neighbour eats and when its philosopher still has one to take.
RaffineRepas == Table!Spec

\* Everybody eats his meals, every thread is joined and the program ends.
Terminaison == <>(phase = "fini")
=============================================================================
