-------------------------- MODULE DinerPhiOne_proofs --------------------------
(***************************************************************************)
(* Proofs about DinerPhiOne for any number of philosophers (at least two)   *)
(* and of meals.                                                            *)
(***************************************************************************)
EXTENDS DinerPhiOne, TLAPS

USE NombreDePhilosopheAssumption, NombreDeRepasAssumption

-----------------------------------------------------------------------------
(* The inductive invariant.                                                 *)

\* Every thread that exists was given its own number, and has read it.
ArgumentsCoherents ==
    \A t \in Phi :
        /\ pc[t] # "absent" => tab[t] = t
        /\ pc[t] \notin {"absent", "demarre"} => id_philosophe[t] = t

\* The meals counted at the points of the loop.
RepasCoherents ==
    \A t \in Phi :
        /\ pc[t] \in {"prendre", "mange"} => nombre_repas[t] < NOMBRE_DE_REPAS
        /\ pc[t] = "sorti" => nombre_repas[t] = NOMBRE_DE_REPAS

\* How far main is, and that the mutex is destroyed last.
PhasesCoherentes ==
    /\ phase = "creer" => \A t \in Phi : t < i <=> pc[t] # "absent"
    /\ phase = "joindre" => \A t \in Phi : pc[t] # "absent" /\ (t < i => pc[t] = "sorti")
    /\ phase \in {"detruire", "fini"} => \A t \in Phi : pc[t] = "sorti"
    /\ phase # "fini" => mutex_manger # Invalide

\* Who is at the table, seen from the mutex.
Verrou ==
    \A t \in Phi : mutex_manger = t <=> pc[t] \in {"mange", "poser"}

IInv ==
    /\ TypeOK
    /\ ArgumentsCoherents
    /\ Verrou
    /\ RepasCoherents
    /\ PhasesCoherentes

USE DEF Libre, Invalide, Indefini

\* The invariant holds when the program starts.
LEMMA InitIInv == Init => IInv
<1> SUFFICES ASSUME Init PROVE IInv
  OBVIOUS
<1> USE DEF Init, Init0
<1>1. TypeOK
  BY DEF TypeOK, TypeOKPhilosophes, Inactif, Phi
<1>2. ArgumentsCoherents /\ RepasCoherents
  BY DEF ArgumentsCoherents, RepasCoherents
<1>3. Verrou
  BY DEF Verrou, Phi
<1>4. PhasesCoherentes
  BY DEF PhasesCoherentes, Phi
<1>5. QED
  BY <1>1, <1>2, <1>3, <1>4 DEF IInv

\* Each step preserves it: main first, then the threads.
LEMMA CreerIInv == IInv /\ Creer /\ UNCHANGED mutex_manger => IInv'
<1> SUFFICES ASSUME IInv, Creer, UNCHANGED mutex_manger PROVE IInv'
  OBVIOUS
<1> USE DEF IInv, Creer, Iteration
<1>0. i \in Phi /\ pc[i] = "absent"
  BY DEF TypeOK, TypeOKPhilosophes, PhasesCoherentes, Phi
<1>1. TypeOK'
  BY DEF TypeOK, TypeOKPhilosophes, Phi
<1>2. ArgumentsCoherents'
  BY <1>0 DEF ArgumentsCoherents, TypeOK, TypeOKPhilosophes
<1>3. Verrou'
  BY <1>0 DEF Verrou, TypeOK, TypeOKPhilosophes
<1>4. RepasCoherents'
  BY <1>0 DEF RepasCoherents, TypeOK, TypeOKPhilosophes
<1>5. PhasesCoherentes'
  BY <1>0 DEF PhasesCoherentes, TypeOK, TypeOKPhilosophes, Phi
<1>6. QED
  BY <1>1, <1>2, <1>3, <1>4, <1>5 DEF IInv

LEMMA JoindreIInv == IInv /\ Joindre("detruire") /\ UNCHANGED mutex_manger => IInv'
<1> SUFFICES ASSUME IInv, Joindre("detruire"), UNCHANGED mutex_manger
             PROVE  IInv'
  OBVIOUS
<1> USE DEF IInv, Joindre, Iteration
<1>1. TypeOK'
  BY DEF TypeOK, TypeOKPhilosophes, Phi
<1>2. ArgumentsCoherents' /\ RepasCoherents' /\ Verrou'
  BY DEF ArgumentsCoherents, RepasCoherents, Verrou
<1>3. PhasesCoherentes'
  BY DEF PhasesCoherentes, TypeOK, TypeOKPhilosophes, Phi
<1>4. QED
  BY <1>1, <1>2, <1>3 DEF IInv

LEMMA DetruireMutexIInv == IInv /\ DetruireMutex => IInv'
<1> SUFFICES ASSUME IInv, DetruireMutex PROVE IInv'
  OBVIOUS
<1> USE DEF IInv, DetruireMutex
<1>1. TypeOK'
  BY DEF TypeOK, TypeOKPhilosophes
<1>2. ArgumentsCoherents' /\ RepasCoherents'
  BY DEF ArgumentsCoherents, RepasCoherents
<1>3. PhasesCoherentes'
  BY DEF PhasesCoherentes
<1>4. Verrou'
  BY DEF Verrou, PhasesCoherentes, Phi
<1>5. QED
  BY <1>1, <1>2, <1>3, <1>4 DEF IInv

LEMMA DemarrerIInv ==
    ASSUME NEW t \in Phi, IInv, Demarrer(t), UNCHANGED mutex_manger
    PROVE  IInv'
<1> USE DEF IInv, Demarrer, Aller
<1>1. TypeOK'
  BY DEF TypeOK, TypeOKPhilosophes, Inactif
<1>2. ArgumentsCoherents'
  BY DEF ArgumentsCoherents, TypeOK, TypeOKPhilosophes
<1>3. Verrou'
  BY DEF Verrou, TypeOK, TypeOKPhilosophes
<1>4. RepasCoherents'
  BY DEF RepasCoherents, TypeOK, TypeOKPhilosophes
<1>5. PhasesCoherentes'
  BY DEF PhasesCoherentes, TypeOK, TypeOKPhilosophes
<1>6. QED
  BY <1>1, <1>2, <1>3, <1>4, <1>5 DEF IInv

LEMMA TesterIInv ==
    ASSUME NEW t \in Phi, IInv, Tester(t), UNCHANGED mutex_manger
    PROVE  IInv'
<1> USE DEF IInv, Tester, Aller
<1>0. id_philosophe[t] = t
  BY DEF ArgumentsCoherents
<1>1. TypeOK'
  BY <1>0 DEF TypeOK, TypeOKPhilosophes, Inactif
<1>2. ArgumentsCoherents'
  BY DEF ArgumentsCoherents, TypeOK, TypeOKPhilosophes
<1>3. Verrou'
  BY DEF Verrou, TypeOK, TypeOKPhilosophes
<1>4. RepasCoherents'
  BY <1>0 DEF RepasCoherents, TypeOK, TypeOKPhilosophes
<1>5. PhasesCoherentes'
  BY DEF PhasesCoherentes, TypeOK, TypeOKPhilosophes
<1>6. QED
  BY <1>1, <1>2, <1>3, <1>4, <1>5 DEF IInv

LEMMA prendre_couvertsIInv ==
    ASSUME NEW t \in Phi, IInv, prendre_couverts(t)
    PROVE  IInv'
<1> USE DEF IInv, prendre_couverts, Aller
<1>1. TypeOK'
  BY DEF TypeOK, TypeOKPhilosophes, Inactif
<1>2. ArgumentsCoherents'
  BY DEF ArgumentsCoherents, TypeOK, TypeOKPhilosophes
<1>3. Verrou'
  BY DEF Verrou, TypeOK, TypeOKPhilosophes, Phi
<1>4. RepasCoherents'
  BY DEF RepasCoherents, TypeOK, TypeOKPhilosophes
<1>5. PhasesCoherentes'
  BY DEF PhasesCoherentes, TypeOK, TypeOKPhilosophes, Phi
<1>6. QED
  BY <1>1, <1>2, <1>3, <1>4, <1>5 DEF IInv

LEMMA MangerIInv ==
    ASSUME NEW t \in Phi, IInv, Manger(t), UNCHANGED mutex_manger
    PROVE  IInv'
<1> USE DEF IInv, Manger, Aller
<1>0. id_philosophe[t] = t /\ nombre_repas[t] < NOMBRE_DE_REPAS
  BY DEF ArgumentsCoherents, RepasCoherents
<1>1. TypeOK'
  BY <1>0 DEF TypeOK, TypeOKPhilosophes, Inactif
<1>2. ArgumentsCoherents'
  BY DEF ArgumentsCoherents, TypeOK, TypeOKPhilosophes
<1>3. Verrou'
  BY DEF Verrou, TypeOK, TypeOKPhilosophes
<1>4. RepasCoherents'
  BY <1>0 DEF RepasCoherents, TypeOK, TypeOKPhilosophes
<1>5. PhasesCoherentes'
  BY DEF PhasesCoherentes, TypeOK, TypeOKPhilosophes
<1>6. QED
  BY <1>1, <1>2, <1>3, <1>4, <1>5 DEF IInv

LEMMA poser_couvertsIInv ==
    ASSUME NEW t \in Phi, IInv, poser_couverts(t)
    PROVE  IInv'
<1> USE DEF IInv, poser_couverts, Aller
<1>1. TypeOK'
  BY DEF TypeOK, TypeOKPhilosophes, Inactif
<1>2. ArgumentsCoherents'
  BY DEF ArgumentsCoherents, TypeOK, TypeOKPhilosophes
<1>3. Verrou'
  BY DEF Verrou, TypeOK, TypeOKPhilosophes, Phi
<1>4. RepasCoherents'
  BY DEF RepasCoherents, TypeOK, TypeOKPhilosophes
<1>5. PhasesCoherentes'
  BY DEF PhasesCoherentes, TypeOK, TypeOKPhilosophes
<1>6. QED
  BY <1>1, <1>2, <1>3, <1>4, <1>5 DEF IInv

LEMMA StutterIInv == IInv /\ UNCHANGED vars => IInv'
BY DEF vars, varsPhilosophes, IInv, TypeOK, TypeOKPhilosophes, ArgumentsCoherents,
       Verrou, RepasCoherents, PhasesCoherentes

\* The invariant is inductive.
LEMMA NextIInv == IInv /\ [Next]_vars => IInv'
<1> SUFFICES ASSUME IInv, [Next]_vars PROVE IInv'
  OBVIOUS
<1>1. CASE main
  BY <1>1, CreerIInv, JoindreIInv, DetruireMutexIInv DEF main
<1>2. ASSUME NEW t \in Phi, philosophe(t) PROVE IInv'
  BY <1>2, DemarrerIInv, TesterIInv, prendre_couvertsIInv, MangerIInv,
     poser_couvertsIInv DEF philosophe
<1>3. CASE UNCHANGED vars
  BY <1>3, StutterIInv
<1>4. QED
  BY <1>1, <1>2, <1>3 DEF Next, Termine

LEMMA SpecIInv == Spec => []IInv
<1>1. Init => IInv
  BY InitIInv
<1>2. IInv /\ [Next]_vars => IInv'
  BY NextIInv
<1>3. QED
  BY <1>1, <1>2, PTL DEF Spec

-----------------------------------------------------------------------------
(* The theorems.                                                            *)

\* diner_phi_one.c: the mutex is owned exactly by the philosopher who is between
\* prendre_couverts and poser_couverts, and it outlives the last of them, for
\* any number of philosophers.
THEOREM VerrouDinerPhiOne == Spec => []VerrouCoherent
<1>1. IInv => VerrouCoherent
  BY DEF IInv, Verrou, VerrouCoherent, PhasesCoherentes, TypeOK, TypeOKPhilosophes
<1>2. QED
  BY <1>1, SpecIInv, PTL

-----------------------------------------------------------------------------
(* The refinement of the abstract table.                                    *)

\* The philosophers who eat are the threads at "poser".
LEMMA MangentSimple ==
    /\ IInv => Mangent = {t \in Phi : pc[t] = "poser"}
    /\ IInv' => Mangent' = {t \in Phi : pc'[t] = "poser"}
BY DEF IInv, ArgumentsCoherents, Mangent

\* A meal that starts is a meal of the abstract table, and nobody else is eating.
LEMMA MangerTable ==
    ASSUME NEW t \in Phi, IInv, IInv', Manger(t)
    PROVE  Table!Commencer(t)
<1>1. id_philosophe[t] = t /\ nombre_repas[t] < NOMBRE_DE_REPAS
  BY DEF IInv, ArgumentsCoherents, RepasCoherents, Manger
<1>2. /\ Mangent = {u \in Phi : pc[u] = "poser"}
      /\ Mangent' = {u \in Phi : pc'[u] = "poser"}
  BY MangentSimple
<1>3. Mangent' = Mangent \cup {t} /\ t \notin Mangent
  BY <1>2 DEF Manger, Aller, IInv, TypeOK, TypeOKPhilosophes
<1>4. Mangent = {}
  BY <1>2 DEF Manger, IInv, Verrou
<1>5. QED
  BY <1>1, <1>3, <1>4 DEF Table!Commencer, Manger, IInv, TypeOK, TypeOKPhilosophes

\* poser_couverts ends the meal.
LEMMA PoserTable ==
    ASSUME NEW t \in Phi, IInv, IInv', poser_couverts(t)
    PROVE  Table!Finir(t)
<1>1. /\ Mangent = {u \in Phi : pc[u] = "poser"}
      /\ Mangent' = {u \in Phi : pc'[u] = "poser"}
  BY MangentSimple
<1>2. QED
  BY <1>1 DEF Table!Finir, poser_couverts, Aller, IInv, TypeOK, TypeOKPhilosophes

\* No other step is seen from the abstract table.
LEMMA AutresTable ==
    ASSUME IInv, IInv',
           \/ main
           \/ UNCHANGED vars
           \/ \E t \in Phi : Demarrer(t) \/ Tester(t) \/ prendre_couverts(t)
    PROVE  UNCHANGED Table!vars
<1>1. /\ Mangent = {u \in Phi : pc[u] = "poser"}
      /\ Mangent' = {u \in Phi : pc'[u] = "poser"}
  BY MangentSimple
<1>2. nombre_repas' = nombre_repas
  BY DEF main, Creer, Joindre, DetruireMutex, vars, varsPhilosophes,
         Demarrer, Tester, prendre_couverts
<1>3. \A u \in Phi : pc'[u] = "poser" <=> pc[u] = "poser"
  <2>1. CASE main
    <3>1. CASE Creer
      BY <3>1 DEF Creer, Iteration, IInv, TypeOK, TypeOKPhilosophes, PhasesCoherentes, Phi
    <3>2. CASE UNCHANGED pc
      BY <3>2
    <3>3. QED
      BY <2>1, <3>1, <3>2 DEF main, Joindre, DetruireMutex
  <2>2. CASE UNCHANGED vars
    BY <2>2 DEF vars, varsPhilosophes
  <2>3. ASSUME NEW t \in Phi, Demarrer(t) \/ Tester(t) \/ prendre_couverts(t)
        PROVE  \A u \in Phi : pc'[u] = "poser" <=> pc[u] = "poser"
    BY <2>3 DEF Demarrer, Tester, prendre_couverts, Aller, IInv, TypeOK,
                TypeOKPhilosophes
  <2>4. QED
    BY <2>1, <2>2, <2>3
<1>4. QED
  BY <1>1, <1>2, <1>3 DEF Table!vars

\* diner_phi_one.c implements the table where only one philosopher eats at a time
\* and nobody eats more than his meals, for any number of philosophers.
THEOREM RaffinementDinerPhiOne == Spec => RaffineRepas
<1>1. Init => Table!Init
  BY DEF Init, Init0, Table!Init, Mangent
<1>2. ASSUME IInv, IInv', [Next]_vars
      PROVE  [Table!Next]_(Table!vars)
  <2>1. CASE main \/ UNCHANGED vars
    BY <1>2, <2>1, AutresTable
  <2>2. ASSUME NEW t \in Phi, philosophe(t)
        PROVE  [Table!Next]_(Table!vars)
    BY <1>2, <2>2, AutresTable, MangerTable, PoserTable DEF philosophe, Table!Next
  <2>3. QED
    BY <1>2, <2>1, <2>2 DEF Next, Termine
<1>3. QED
  BY <1>1, <1>2, SpecIInv, PTL DEF Spec, RaffineRepas, Table!Spec
=============================================================================
