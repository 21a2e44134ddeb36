----------------------------- MODULE DinerPhiOne -----------------------------
(***************************************************************************)
(* diner_phi_one.c: a single mutex, held for the whole meal.                *)
(***************************************************************************)
EXTENDS Philosophes

VARIABLE mutex_manger       \* its owner, Libre or Invalide

vars == <<varsPhilosophes, mutex_manger>>

Libre == -1
Invalide == -2              \* destroyed

\* main initialises the mutex before it creates the first thread.
Init ==
    /\ Init0("creer")
    /\ mutex_manger = Libre

DetruireMutex ==
    /\ phase = "detruire"
    /\ phase' = "fini"
    /\ mutex_manger' = Invalide
    /\ UNCHANGED <<nombre_repas, tab, i, pc, id_philosophe>>

main ==
    \/ Creer /\ UNCHANGED mutex_manger
    \/ Joindre("detruire") /\ UNCHANGED mutex_manger
    \/ DetruireMutex

-----------------------------------------------------------------------------
\* Mutant: the philosopher sits down without taking the mutex.
PrendreSansMutex(t) ==
    /\ pc[t] = "prendre"
    /\ mutex_manger' = t
    /\ Aller(t, "mange")
    /\ UNCHANGED <<nombre_repas, tab, phase, i, id_philosophe>>

prendre_couverts(t) ==
    /\ pc[t] = "prendre"
    /\ mutex_manger = Libre
    /\ mutex_manger' = t
    /\ Aller(t, "mange")
    /\ UNCHANGED <<nombre_repas, tab, phase, i, id_philosophe>>

poser_couverts(t) ==
    /\ pc[t] = "poser"
    /\ mutex_manger' = Libre
    /\ Aller(t, "boucle")
    /\ UNCHANGED <<nombre_repas, tab, phase, i, id_philosophe>>

philosophe(t) ==
    \/ Demarrer(t) /\ UNCHANGED mutex_manger
    \/ Tester(t) /\ UNCHANGED mutex_manger
    \/ prendre_couverts(t)
    \/ Manger(t) /\ UNCHANGED mutex_manger
    \/ poser_couverts(t)

\* The program stops once main has returned.
Termine == phase = "fini" /\ UNCHANGED vars

Next == main \/ (\E t \in Phi : philosophe(t)) \/ Termine

\* Each thread takes a bounded number of steps: weak fairness of the system
\* scheduler is enough, even for a mutex that is not fair.
Spec ==
    /\ Init /\ [][Next]_vars
    /\ WF_vars(main)
    /\ \A t \in Phi : WF_vars(philosophe(t))

-----------------------------------------------------------------------------
\* Every variable of diner_phi_one.c stays in its range.
TypeOK ==
    /\ TypeOKPhilosophes(Inactif \cup {"demarre", "boucle", "prendre", "mange",
                                       "poser"},
                         {"creer", "joindre", "detruire", "fini"})
    /\ mutex_manger \in Phi \cup {Libre, Invalide}

\* The mutex is owned exactly by the philosopher who is between
\* prendre_couverts and poser_couverts, so there is at most one of them, and
\* it is valid as long as a thread runs.
VerrouCoherent ==
    /\ TypeOK
    /\ \A t \in Phi : mutex_manger = t <=> pc[t] \in {"mange", "poser"}
    /\ mutex_manger = Invalide => \A t \in Phi : pc[t] = "sorti"

TousDistincts(p, q) == p # q

Table == INSTANCE Repas WITH Convives <- Phi, EnConflit <- TousDistincts,
                             NombreDeRepas <- NOMBRE_DE_REPAS,
                             mangent <- Mangent, repas <- nombre_repas

\* The program implements the table where only one philosopher eats at a time,
\* the strictest of the abstract tables.
RaffineRepas == Table!Spec

\* The program ends, and only after everybody has eaten all his meals.
Terminaison ==
    <>(phase = "fini" /\ \A p \in Phi : nombre_repas[p] = NOMBRE_DE_REPAS)
=============================================================================
