----------------------------- MODULE Philosophes -----------------------------
(***************************************************************************)
(* What the three dining programs share: main creates one thread per        *)
(* philosopher, each thread reads its identity through the pointer it was   *)
(* given, eats NOMBRE_DE_REPAS times and leaves; main joins every thread.   *)
(* How the cutlery is taken and put back is added by DinerPhi, DinerPhiOne  *)
(* and DinerPhiSleep.                                                       *)
(***************************************************************************)
EXTENDS Integers

CONSTANTS NOMBRE_DE_PHILOSOPHE, NOMBRE_DE_REPAS

\* With a single philosopher both forks are the same mutex and diner_phi locks
\* it twice; the programs set 5.
ASSUME NombreDePhilosopheAssumption ==
    NOMBRE_DE_PHILOSOPHE \in Nat /\ NOMBRE_DE_PHILOSOPHE >= 2
ASSUME NombreDeRepasAssumption == NOMBRE_DE_REPAS \in Nat

Phi == 0 .. NOMBRE_DE_PHILOSOPHE - 1

Indefini == -1      \* an int nobody has written yet

VARIABLES
    nombre_repas,   \* global: meals taken by each philosopher
    tab,            \* local of main: the identities given to the threads
    phase,          \* the loop of main that is running
    i,              \* its counter
    pc,             \* where each thread is
    id_philosophe   \* local of each thread

varsPhilosophes == <<nombre_repas, tab, phase, i, pc, id_philosophe>>

\* Threads that have not been created, or that have returned.
Inactif == {"absent", "sorti"}

Init0(premiere) ==
    /\ nombre_repas = [p \in Phi |-> 0]
    /\ tab = [p \in Phi |-> Indefini]
    /\ phase = premiere
    /\ i = 0
    /\ pc = [t \in Phi |-> "absent"]
    /\ id_philosophe = [t \in Phi |-> Indefini]

-----------------------------------------------------------------------------
\* One iteration of the loop `ici' of main, which is followed by `ensuite'.
Iteration(ici, ensuite) ==
    /\ phase = ici
    /\ IF i + 1 < NOMBRE_DE_PHILOSOPHE
       THEN i' = i + 1 /\ UNCHANGED phase
       ELSE i' = 0     /\ phase' = ensuite

Creer ==
    /\ Iteration("creer", "joindre")
    /\ tab' = [tab EXCEPT ![i] = i]
    /\ pc' = [pc EXCEPT ![i] = "demarre"]
    /\ UNCHANGED <<nombre_repas, id_philosophe>>

\* Mutant: the join loop does not wait.
JoindreSansAttendre(ensuite) ==
    /\ Iteration("joindre", ensuite)
    /\ UNCHANGED <<nombre_repas, tab, pc, id_philosophe>>

Joindre(ensuite) ==
    /\ Iteration("joindre", ensuite)
    /\ pc[i] = "sorti"
    /\ UNCHANGED <<nombre_repas, tab, pc, id_philosophe>>

-----------------------------------------------------------------------------
Aller(t, point) == pc' = [pc EXCEPT ![t] = point]

\* Mutant: the thread is given the address of the loop counter itself.
DemarrerAvecCompteur(t) ==
    /\ pc[t] = "demarre"
    /\ id_philosophe' = [id_philosophe EXCEPT ![t] = i]
    /\ Aller(t, "boucle")
    /\ UNCHANGED <<nombre_repas, tab, phase, i>>

\* The new thread reads *arg, which is tab[t], some time after its creation.
Demarrer(t) ==
    /\ pc[t] = "demarre"
    /\ id_philosophe' = [id_philosophe EXCEPT ![t] = tab[t]]
    /\ Aller(t, "boucle")
    /\ UNCHANGED <<nombre_repas, tab, phase, i>>

\* The test of the while loop; pense, which follows, touches nothing shared.
Tester(t) ==
    /\ pc[t] = "boucle"
    /\ Aller(t, IF nombre_repas[id_philosophe[t]] < NOMBRE_DE_REPAS
                THEN "prendre" ELSE "sorti")
    /\ UNCHANGED <<nombre_repas, tab, phase, i, id_philosophe>>

\* Mutant: the meal is not counted.
MangerSansCompter(t) ==
    /\ pc[t] = "mange"
    /\ Aller(t, "poser")
    /\ UNCHANGED <<nombre_repas, tab, phase, i, id_philosophe>>

\* mange: the meal is counted, then the philosopher eats for a while.
Manger(t) ==
    /\ pc[t] = "mange"
    /\ nombre_repas' = [nombre_repas EXCEPT ![id_philosophe[t]] = @ + 1]
    /\ Aller(t, "poser")
    /\ UNCHANGED <<tab, phase, i, id_philosophe>>

\* The philosophers who are eating: counted, and not yet putting anything back.
Mangent == {id_philosophe[t] : t \in {u \in Phi : pc[u] = "poser"}}

-----------------------------------------------------------------------------
TypeOKPhilosophes(Points, Phases) ==
    /\ nombre_repas \in [Phi -> 0 .. NOMBRE_DE_REPAS]
    /\ tab \in [Phi -> Phi \cup {Indefini}]
    /\ phase \in Phases
    /\ i \in Phi
    /\ pc \in [Phi -> Points]
    /\ id_philosophe \in [Phi -> Phi \cup {Indefini}]
=============================================================================
