------------------------- MODULE DinerPhiSleep_proofs -------------------------
(***************************************************************************)
(* Proofs about DinerPhiSleep for any number of philosophers (at least two) *)
(* and of meals.                                                            *)
(***************************************************************************)
EXTENDS DinerPhiSleep, TLAPS

USE NombreDePhilosopheAssumption, NombreDeRepasAssumption

-----------------------------------------------------------------------------
(* The inductive invariant.                                                 *)

\* Every thread that exists was given its own number, and has read it.
ArgumentsCoherents ==
    \A t \in Phi :
        /\ pc[t] # "absent" => tab[t] = t
        /\ pc[t] \notin {"absent", "demarre"} => id_philosophe[t] = t

\* The meals counted at the points of the loop: each thread counts its own, so
\* the races on actif do not touch them.
RepasCoherents ==
    \A t \in Phi :
        /\ pc[t] \in {"prendre", "relire", "affecter", "mange"} =>
               nombre_repas[t] < NOMBRE_DE_REPAS
        /\ pc[t] = "sorti" => nombre_repas[t] = NOMBRE_DE_REPAS

\* How far main is.
PhasesCoherentes ==
    /\ phase = "creer" => \A t \in Phi : t < i <=> pc[t] # "absent"
    /\ phase = "joindre" => \A t \in Phi : pc[t] # "absent" /\ (t < i => pc[t] = "sorti")
    /\ phase = "fini" => \A t \in Phi : pc[t] = "sorti"

\* Whoever actif names is eating; without the identity, which a thread may have
\* not read yet.
Marque == actif # 0 => pc[actif] \in {"mange", "poser"}

IInv ==
    /\ TypeOK
    /\ ArgumentsCoherents
    /\ RepasCoherents
    /\ PhasesCoherentes
    /\ Marque

USE DEF Indefini

\* The invariant holds when the program starts.
LEMMA InitIInv == Init => IInv
<1> SUFFICES ASSUME Init PROVE IInv
  OBVIOUS
<1> USE DEF Init, Init0
<1>1. TypeOK
  BY DEF TypeOK, TypeOKPhilosophes, Inactif, Phi
<1>2. ArgumentsCoherents /\ RepasCoherents
  BY DEF ArgumentsCoherents, RepasCoherents
<1>3. Marque
  BY DEF Marque
<1>4. PhasesCoherentes
  BY DEF PhasesCoherentes, Phi
<1>5. QED
  BY <1>1, <1>2, <1>3, <1>4 DEF IInv

\* Each step preserves it: main first, then the threads.
LEMMA CreerIInv == IInv /\ Creer /\ UNCHANGED actif => IInv'
<1> SUFFICES ASSUME IInv, Creer, UNCHANGED actif PROVE IInv'
  OBVIOUS
<1> USE DEF IInv, Creer, Iteration
<1>0. i \in Phi /\ pc[i] = "absent"
  BY DEF TypeOK, TypeOKPhilosophes, PhasesCoherentes, Phi
<1>1. TypeOK'
  BY DEF TypeOK, TypeOKPhilosophes, Phi
<1>2. ArgumentsCoherents'
  BY <1>0 DEF ArgumentsCoherents, TypeOK, TypeOKPhilosophes
<1>3. RepasCoherents'
  BY <1>0 DEF RepasCoherents, TypeOK, TypeOKPhilosophes
<1>4. PhasesCoherentes'
  BY <1>0 DEF PhasesCoherentes, TypeOK, TypeOKPhilosophes, Phi
<1>5. Marque'
  BY <1>0 DEF Marque, TypeOK, TypeOKPhilosophes
<1>6. QED
  BY <1>1, <1>2, <1>3, <1>4, <1>5 DEF IInv

LEMMA JoindreIInv == IInv /\ Joindre("fini") /\ UNCHANGED actif => IInv'
<1> SUFFICES ASSUME IInv, Joindre("fini"), UNCHANGED actif
             PROVE  IInv'
  OBVIOUS
<1> USE DEF IInv, Joindre, Iteration
<1>1. TypeOK'
  BY DEF TypeOK, TypeOKPhilosophes, Phi
<1>2. ArgumentsCoherents' /\ RepasCoherents' /\ Marque'
  BY DEF ArgumentsCoherents, RepasCoherents, Marque
<1>3. PhasesCoherentes'
  BY DEF PhasesCoherentes, TypeOK, TypeOKPhilosophes, Phi
<1>4. QED
  BY <1>1, <1>2, <1>3 DEF IInv

LEMMA DemarrerIInv ==
    ASSUME NEW t \in Phi, IInv, Demarrer(t), UNCHANGED actif
    PROVE  IInv'
<1> USE DEF IInv, Demarrer, Aller
<1>1. TypeOK'
  BY DEF TypeOK, TypeOKPhilosophes, Inactif
<1>2. ArgumentsCoherents'
  BY DEF ArgumentsCoherents, TypeOK, TypeOKPhilosophes
<1>3. RepasCoherents'
  BY DEF RepasCoherents, TypeOK, TypeOKPhilosophes
<1>4. PhasesCoherentes'
  BY DEF PhasesCoherentes, TypeOK, TypeOKPhilosophes
<1>5. Marque'
  BY DEF Marque, TypeOK, TypeOKPhilosophes
<1>6. QED
  BY <1>1, <1>2, <1>3, <1>4, <1>5 DEF IInv

LEMMA TesterIInv ==
    ASSUME NEW t \in Phi, IInv, Tester(t), UNCHANGED actif
    PROVE  IInv'
<1> USE DEF IInv, Tester, Aller
<1>0. id_philosophe[t] = t
  BY DEF ArgumentsCoherents
<1>1. TypeOK'
  BY <1>0 DEF TypeOK, TypeOKPhilosophes, Inactif
<1>2. ArgumentsCoherents'
  BY DEF ArgumentsCoherents, TypeOK, TypeOKPhilosophes
<1>3. RepasCoherents'
  BY <1>0 DEF RepasCoherents, TypeOK, TypeOKPhilosophes
<1>4. PhasesCoherentes'
  BY DEF PhasesCoherentes, TypeOK, TypeOKPhilosophes
<1>5. Marque'
  BY <1>0 DEF Marque, TypeOK, TypeOKPhilosophes
<1>6. QED
  BY <1>1, <1>2, <1>3, <1>4, <1>5 DEF IInv

LEMMA LireActifIInv ==
    ASSUME NEW t \in Phi, IInv, LireActif(t)
    PROVE  IInv'
<1> USE DEF IInv, LireActif, Aller
<1>1. TypeOK'
  BY DEF TypeOK, TypeOKPhilosophes, Inactif
<1>2. ArgumentsCoherents'
  BY DEF ArgumentsCoherents, TypeOK, TypeOKPhilosophes
<1>3. RepasCoherents'
  BY DEF RepasCoherents, TypeOK, TypeOKPhilosophes
<1>4. PhasesCoherentes'
  BY DEF PhasesCoherentes, TypeOK, TypeOKPhilosophes
<1>5. Marque'
  BY DEF Marque, TypeOK, TypeOKPhilosophes
<1>6. QED
  BY <1>1, <1>2, <1>3, <1>4, <1>5 DEF IInv

LEMMA RelireActifIInv ==
    ASSUME NEW t \in Phi, IInv, RelireActif(t)
    PROVE  IInv'
<1> USE DEF IInv, RelireActif, Aller
<1>1. TypeOK'
  BY DEF TypeOK, TypeOKPhilosophes, Inactif
<1>2. ArgumentsCoherents'
  BY DEF ArgumentsCoherents, TypeOK, TypeOKPhilosophes
<1>3. RepasCoherents'
  BY DEF RepasCoherents, TypeOK, TypeOKPhilosophes
<1>4. PhasesCoherentes'
  BY DEF PhasesCoherentes, TypeOK, TypeOKPhilosophes
<1>5. Marque'
  BY DEF Marque, TypeOK, TypeOKPhilosophes
<1>6. QED
  BY <1>1, <1>2, <1>3, <1>4, <1>5 DEF IInv

LEMMA AffecterActifIInv ==
    ASSUME NEW t \in Phi, IInv, AffecterActif(t)
    PROVE  IInv'
<1> USE DEF IInv, AffecterActif, Aller
<1>0. id_philosophe[t] = t
  BY DEF ArgumentsCoherents
<1>1. TypeOK'
  BY <1>0 DEF TypeOK, TypeOKPhilosophes, Inactif
<1>2. ArgumentsCoherents'
  BY DEF ArgumentsCoherents, TypeOK, TypeOKPhilosophes
<1>3. RepasCoherents'
  BY <1>0 DEF RepasCoherents, TypeOK, TypeOKPhilosophes
<1>4. PhasesCoherentes'
  BY DEF PhasesCoherentes, TypeOK, TypeOKPhilosophes
<1>5. Marque'
  BY <1>0 DEF Marque, TypeOK, TypeOKPhilosophes
<1>6. QED
  BY <1>1, <1>2, <1>3, <1>4, <1>5 DEF IInv

LEMMA MangerIInv ==
    ASSUME NEW t \in Phi, IInv, Manger(t), UNCHANGED actif
    PROVE  IInv'
<1> USE DEF IInv, Manger, Aller
<1>0. id_philosophe[t] = t /\ nombre_repas[t] < NOMBRE_DE_REPAS
  BY DEF ArgumentsCoherents, RepasCoherents
<1>1. TypeOK'
  BY <1>0 DEF TypeOK, TypeOKPhilosophes, Inactif
<1>2. ArgumentsCoherents'
  BY DEF ArgumentsCoherents, TypeOK, TypeOKPhilosophes
<1>3. RepasCoherents'
  BY <1>0 DEF RepasCoherents, TypeOK, TypeOKPhilosophes
<1>4. PhasesCoherentes'
  BY DEF PhasesCoherentes, TypeOK, TypeOKPhilosophes
<1>5. Marque'
  BY <1>0 DEF Marque, TypeOK, TypeOKPhilosophes
<1>6. QED
  BY <1>1, <1>2, <1>3, <1>4, <1>5 DEF IInv

LEMMA poser_couvertsIInv ==
    ASSUME NEW t \in Phi, IInv, poser_couverts(t)
    PROVE  IInv'
<1> USE DEF IInv, poser_couverts, Aller
<1>0. 0 \in Phi
  BY DEF Phi
<1>1. TypeOK'
  BY <1>0 DEF TypeOK, TypeOKPhilosophes, Inactif
<1>2. ArgumentsCoherents'
  BY DEF ArgumentsCoherents, TypeOK, TypeOKPhilosophes
<1>3. RepasCoherents'
  BY <1>0 DEF RepasCoherents, TypeOK, TypeOKPhilosophes
<1>4. PhasesCoherentes'
  BY DEF PhasesCoherentes, TypeOK, TypeOKPhilosophes
<1>5. Marque'
  BY <1>0 DEF Marque, TypeOK, TypeOKPhilosophes
<1>6. QED
  BY <1>1, <1>2, <1>3, <1>4, <1>5 DEF IInv

LEMMA StutterIInv == IInv /\ UNCHANGED vars => IInv'
BY DEF vars, varsPhilosophes, IInv, TypeOK, TypeOKPhilosophes, ArgumentsCoherents,
       RepasCoherents, PhasesCoherentes, Marque

\* The invariant is inductive.
LEMMA NextIInv == IInv /\ [Next]_vars => IInv'
<1> SUFFICES ASSUME IInv, [Next]_vars PROVE IInv'
  OBVIOUS
<1>1. CASE main
  BY <1>1, CreerIInv, JoindreIInv DEF main
<1>2. ASSUME NEW t \in Phi, philosophe(t) PROVE IInv'
  BY <1>2, DemarrerIInv, TesterIInv, LireActifIInv, RelireActifIInv,
     AffecterActifIInv, MangerIInv, poser_couvertsIInv DEF philosophe
<1>3. CASE UNCHANGED vars
  BY <1>3, StutterIInv
<1>4. QED
  BY <1>1, <1>2, <1>3 DEF Next, Termine

LEMMA SpecIInv == Spec => []IInv
<1>1. Init => IInv
  BY InitIInv
<1>2. IInv /\ [Next]_vars => IInv'
  BY NextIInv
<1>3. QED
  BY <1>1, <1>2, PTL DEF Spec

-----------------------------------------------------------------------------
(* The theorem.                                                             *)

\* diner_phi_sleep.c: whatever the races on actif, it never names a philosopher
\* who is not eating, and no meal is counted beyond NOMBRE_DE_REPAS, for any
\* number of philosophers.
THEOREM ActifDinerPhiSleep == Spec => []ActifCoherent
<1>1. IInv => ActifCoherent
  <2> SUFFICES ASSUME IInv, actif # 0
               PROVE  \E t \in Phi : id_philosophe[t] = actif
                                     /\ pc[t] \in {"mange", "poser"}
    BY DEF IInv, ActifCoherent
  <2>1. actif \in Phi /\ pc[actif] \in {"mange", "poser"}
    BY DEF IInv, TypeOK, Marque
  <2>2. id_philosophe[actif] = actif
    BY <2>1 DEF IInv, ArgumentsCoherents
  <2>3. QED
    BY <2>1, <2>2
<1>2. QED
  BY <1>1, SpecIInv, PTL
=============================================================================
