---------------------------- MODULE DinerPhiSleep ----------------------------
(***************************************************************************)
(* diner_phi_sleep.c: no mutex; a philosopher polls the shared int actif    *)
(* and writes his identity into it.  The test of the loop reads actif       *)
(* twice and the assignment is a third access, so other threads run in      *)
(* between; philosopher 0 writes the value that means "nobody".             *)
(***************************************************************************)
EXTENDS Philosophes

VARIABLE actif

vars == <<varsPhilosophes, actif>>

Init ==
    /\ Init0("creer")
    /\ actif = 0

main ==
    /\ Creer \/ Joindre("fini")
    /\ UNCHANGED actif

-----------------------------------------------------------------------------
\* while (actif != 0 ...
LireActif(t) ==
    /\ pc[t] = "prendre"
    /\ Aller(t, IF actif # 0 THEN "relire" ELSE "affecter")
    /\ UNCHANGED <<nombre_repas, tab, phase, i, id_philosophe, actif>>

\* ... && actif != id_philosophe) attendre();
RelireActif(t) ==
    /\ pc[t] = "relire"
    /\ Aller(t, IF actif # id_philosophe[t] THEN "prendre" ELSE "affecter")
    /\ UNCHANGED <<nombre_repas, tab, phase, i, id_philosophe, actif>>

AffecterActif(t) ==
    /\ pc[t] = "affecter"
    /\ actif' = id_philosophe[t]
    /\ Aller(t, "mange")
    /\ UNCHANGED <<nombre_repas, tab, phase, i, id_philosophe>>

\* Mutant: actif is not reset.
PoserSansRemettre(t) ==
    /\ pc[t] = "poser"
    /\ Aller(t, "boucle")
    /\ UNCHANGED <<nombre_repas, tab, phase, i, id_philosophe, actif>>

poser_couverts(t) ==
    /\ pc[t] = "poser"
    /\ actif' = 0
    /\ Aller(t, "boucle")
    /\ UNCHANGED <<nombre_repas, tab, phase, i, id_philosophe>>

philosophe(t) ==
    \/ /\ Demarrer(t) \/ Tester(t) \/ Manger(t)
       /\ UNCHANGED actif
    \/ LireActif(t)
    \/ RelireActif(t)
    \/ AffecterActif(t)
    \/ poser_couverts(t)

\* The program stops once main has returned.
Termine == phase = "fini" /\ UNCHANGED vars

Next == main \/ (\E t \in Phi : philosophe(t)) \/ Termine

\* The system scheduler runs every thread, also those that poll.
Spec ==
    /\ Init /\ [][Next]_vars
    /\ WF_vars(main)
    /\ \A t \in Phi : WF_vars(philosophe(t))

-----------------------------------------------------------------------------
\* Every variable of diner_phi_sleep.c stays in its range; in particular the
\* races on actif never make a philosopher eat once too often.
TypeOK ==
    /\ TypeOKPhilosophes(Inactif \cup {"demarre", "boucle", "prendre", "relire",
                                       "affecter", "mange", "poser"},
                         {"creer", "joindre", "fini"})
    /\ actif \in Phi

\* Although two philosophers may pass the test together and overwrite each
\* other's mark, actif never names a philosopher who is not eating: the mark
\* cannot be left behind and block the table.
ActifCoherent ==
    /\ TypeOK
    /\ actif # 0 => \E t \in Phi : id_philosophe[t] = actif
                                   /\ pc[t] \in {"mange", "poser"}

\* However the polls and the assignments interleave, nobody polls for ever:
\* the program ends, and only after everybody has eaten all his meals.
Terminaison ==
    <>(phase = "fini" /\ \A p \in Phi : nombre_repas[p] = NOMBRE_DE_REPAS)
=============================================================================
