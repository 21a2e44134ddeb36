--------------------------- MODULE DinerPhi_proofs ---------------------------
(***************************************************************************)
(* Proofs about DinerPhi for any number of philosophers (at least two) and  *)
(* of meals.                                                                *)
(***************************************************************************)
EXTENDS DinerPhi, WellFoundedInduction, TLAPS

USE NombreDePhilosopheAssumption, NombreDeRepasAssumption

-----------------------------------------------------------------------------
(* The arithmetic of the forks.                                             *)

\* The right neighbour, without the modulo.
LEMMA DroiteSansModulo ==
    ASSUME NEW p \in Phi
    PROVE  Droite(p) = IF p = NOMBRE_DE_PHILOSOPHE - 1 THEN 0 ELSE p + 1
<1>1. CASE p = NOMBRE_DE_PHILOSOPHE - 1
  BY <1>1 DEF Droite, Phi
<1>2. CASE p # NOMBRE_DE_PHILOSOPHE - 1
  BY <1>2 DEF Droite, Phi
<1>3. QED
  BY <1>1, <1>2

\* The order of acquisition: the first fork has the smaller index, and the two
\* forks are the philosopher's own.
LEMMA OrdreDesFourchettes ==
    ASSUME NEW p \in Phi
    PROVE  /\ Premiere(p) \in Phi
           /\ Seconde(p) \in Phi
           /\ Premiere(p) < Seconde(p)
           /\ {Premiere(p), Seconde(p)} = {p, Droite(p)}
BY DroiteSansModulo DEF Premiere, Seconde, Gauche, Phi

-----------------------------------------------------------------------------
(* The inductive invariant.                                                 *)

\* Every thread that exists was given its own number, and has read it.
ArgumentsCoherents ==
    \A t \in Phi :
        /\ pc[t] # "absent" => tab[t] = t
        /\ pc[t] \notin {"absent", "demarre"} => id_philosophe[t] = t

\* The meals counted at the points of the loop.
RepasCoherents ==
    \A t \in Phi :
        /\ pc[t] \in {"prendre", "prendre2", "mange"} =>
               nombre_repas[t] < NOMBRE_DE_REPAS
        /\ pc[t] = "sorti" => nombre_repas[t] = NOMBRE_DE_REPAS

\* How far main is.
PhasesCoherentes ==
    /\ phase = "initialiser" => \A t \in Phi : pc[t] = "absent"
    /\ phase = "creer" => \A t \in Phi : t < i <=> pc[t] # "absent"
    /\ phase = "joindre" => \A t \in Phi : pc[t] # "absent" /\ (t < i => pc[t] = "sorti")
    /\ phase \in {"detruire", "fini"} => \A t \in Phi : pc[t] = "sorti"
    /\ phase = "initialiser" => \A f \in Phi : f < i => mutex_fouchette[f] # Invalide
    /\ phase \in {"creer", "joindre"} => \A f \in Phi : mutex_fouchette[f] # Invalide

IInv ==
    /\ TypeOK
    /\ ArgumentsCoherents
    /\ VerrousCoherents
    /\ RepasCoherents
    /\ PhasesCoherentes

USE DEF Libre, Invalide, Indefini

\* The invariant holds when the program starts.
LEMMA InitIInv == Init => IInv
<1> SUFFICES ASSUME Init PROVE IInv
  OBVIOUS
<1> USE DEF Init, Init0
<1>1. TypeOK
  BY DEF TypeOK, TypeOKPhilosophes, Points, Phases, Inactif, Phi
<1>2. ArgumentsCoherents
  BY DEF ArgumentsCoherents
<1>3. VerrousCoherents
  BY DEF VerrousCoherents, Tenues, Phi
<1>4. RepasCoherents
  BY DEF RepasCoherents
<1>5. PhasesCoherentes
  BY DEF PhasesCoherentes, Phi
<1>6. QED
  BY <1>1, <1>2, <1>3, <1>4, <1>5 DEF IInv

\* Each step preserves it: main first, then the threads.
LEMMA InitialiserMutexIInv == IInv /\ InitialiserMutex => IInv'
<1> SUFFICES ASSUME IInv, InitialiserMutex PROVE IInv'
  OBVIOUS
<1> USE DEF IInv, InitialiserMutex, Iteration
<1>1. TypeOK'
  BY DEF TypeOK, TypeOKPhilosophes, Phases, Phi
<1>2. ArgumentsCoherents'
  BY DEF ArgumentsCoherents
<1>3. VerrousCoherents'
  <2> SUFFICES ASSUME NEW f \in Phi, NEW t \in Phi
               PROVE  (mutex_fouchette[f] = t <=> f \in Tenues(t))'
    BY DEF VerrousCoherents
  <2>1. pc[t] = "absent"
    BY DEF PhasesCoherentes
  <2>2. Tenues(t) = {} /\ Tenues(t)' = {}
    BY <2>1 DEF Tenues
  <2>3. mutex_fouchette'[f] \in {mutex_fouchette[f], Libre}
    BY DEF TypeOK, TypeOKPhilosophes
  <2>4. QED
    BY <2>2, <2>3 DEF VerrousCoherents, Phi
<1>4. RepasCoherents'
  BY DEF RepasCoherents
<1>5. PhasesCoherentes'
  BY DEF PhasesCoherentes, TypeOK, TypeOKPhilosophes, Phi
<1>6. QED
  BY <1>1, <1>2, <1>3, <1>4, <1>5 DEF IInv

LEMMA CreerIInv == IInv /\ Creer /\ UNCHANGED mutex_fouchette => IInv'
<1> SUFFICES ASSUME IInv, Creer, UNCHANGED mutex_fouchette PROVE IInv'
  OBVIOUS
<1> USE DEF IInv, Creer, Iteration
<1>0. i \in Phi /\ pc[i] = "absent"
  BY DEF TypeOK, TypeOKPhilosophes, PhasesCoherentes, Phi
<1>1. TypeOK'
  BY DEF TypeOK, TypeOKPhilosophes, Points, Phases, Phi
<1>2. ArgumentsCoherents'
  BY <1>0 DEF ArgumentsCoherents, TypeOK, TypeOKPhilosophes
<1>3. VerrousCoherents'
  <2>1. \A t \in Phi : Tenues(t)' = Tenues(t)
    BY <1>0 DEF Tenues, TypeOK, TypeOKPhilosophes
  <2>2. QED
    BY <2>1 DEF VerrousCoherents
<1>4. RepasCoherents'
  BY <1>0 DEF RepasCoherents, TypeOK, TypeOKPhilosophes
<1>5. PhasesCoherentes'
  BY <1>0 DEF PhasesCoherentes, TypeOK, TypeOKPhilosophes, Phi
<1>6. QED
  BY <1>1, <1>2, <1>3, <1>4, <1>5 DEF IInv

LEMMA JoindreIInv == IInv /\ Joindre("detruire") /\ UNCHANGED mutex_fouchette => IInv'
<1> SUFFICES ASSUME IInv, Joindre("detruire"), UNCHANGED mutex_fouchette
             PROVE  IInv'
  OBVIOUS
<1> USE DEF IInv, Joindre, Iteration
<1>1. TypeOK'
  BY DEF TypeOK, TypeOKPhilosophes, Phases, Phi
<1>2. ArgumentsCoherents' /\ RepasCoherents'
  BY DEF ArgumentsCoherents, RepasCoherents
<1>3. VerrousCoherents'
  BY DEF VerrousCoherents, Tenues
<1>4. PhasesCoherentes'
  BY DEF PhasesCoherentes, TypeOK, TypeOKPhilosophes, Phi
<1>5. QED
  BY <1>1, <1>2, <1>3, <1>4 DEF IInv

LEMMA DetruireMutexIInv == IInv /\ DetruireMutex => IInv'
<1> SUFFICES ASSUME IInv, DetruireMutex PROVE IInv'
  OBVIOUS
<1> USE DEF IInv, DetruireMutex, Iteration
<1>1. TypeOK'
  BY DEF TypeOK, TypeOKPhilosophes, Phases, Phi
<1>2. ArgumentsCoherents' /\ RepasCoherents'
  BY DEF ArgumentsCoherents, RepasCoherents
<1>3. VerrousCoherents'
  <2>1. \A t \in Phi : Tenues(t) = {} /\ Tenues(t)' = {}
    BY DEF Tenues, PhasesCoherentes
  <2>2. \A f \in Phi : mutex_fouchette'[f] \in {mutex_fouchette[f], Invalide}
    BY DEF TypeOK, TypeOKPhilosophes
  <2>3. QED
    BY <2>1, <2>2 DEF VerrousCoherents, Phi
<1>4. PhasesCoherentes'
  BY DEF PhasesCoherentes, TypeOK, TypeOKPhilosophes, Phi
<1>5. QED
  BY <1>1, <1>2, <1>3, <1>4 DEF IInv

LEMMA DemarrerIInv ==
    ASSUME NEW t \in Phi, IInv, Demarrer(t), UNCHANGED mutex_fouchette
    PROVE  IInv'
<1> USE DEF IInv, Demarrer, Aller
<1>1. TypeOK'
  BY DEF TypeOK, TypeOKPhilosophes, Points
<1>2. ArgumentsCoherents'
  BY DEF ArgumentsCoherents, TypeOK, TypeOKPhilosophes
<1>3. VerrousCoherents'
  <2>1. \A u \in Phi : Tenues(u)' = Tenues(u)
    BY DEF Tenues, TypeOK, TypeOKPhilosophes
  <2>2. QED
    BY <2>1 DEF VerrousCoherents
<1>4. RepasCoherents'
  BY DEF RepasCoherents, TypeOK, TypeOKPhilosophes
<1>5. PhasesCoherentes'
  BY DEF PhasesCoherentes, TypeOK, TypeOKPhilosophes
<1>6. QED
  BY <1>1, <1>2, <1>3, <1>4, <1>5 DEF IInv

LEMMA TesterIInv ==
    ASSUME NEW t \in Phi, IInv, Tester(t), UNCHANGED mutex_fouchette
    PROVE  IInv'
<1> USE DEF IInv, Tester, Aller
<1>0. id_philosophe[t] = t
  BY DEF ArgumentsCoherents
<1>1. TypeOK'
  BY DEF TypeOK, TypeOKPhilosophes, Points, Inactif
<1>2. ArgumentsCoherents'
  BY DEF ArgumentsCoherents, TypeOK, TypeOKPhilosophes
<1>3. VerrousCoherents'
  <2>1. \A u \in Phi : Tenues(u)' = Tenues(u)
    BY DEF Tenues, TypeOK, TypeOKPhilosophes
  <2>2. QED
    BY <2>1 DEF VerrousCoherents
<1>4. RepasCoherents'
  BY <1>0 DEF RepasCoherents, TypeOK, TypeOKPhilosophes
<1>5. PhasesCoherentes'
  BY DEF PhasesCoherentes, TypeOK, TypeOKPhilosophes
<1>6. QED
  BY <1>1, <1>2, <1>3, <1>4, <1>5 DEF IInv

LEMMA MangerIInv ==
    ASSUME NEW t \in Phi, IInv, Manger(t), UNCHANGED mutex_fouchette
    PROVE  IInv'
<1> USE DEF IInv, Manger, Aller
<1>0. id_philosophe[t] = t /\ nombre_repas[t] < NOMBRE_DE_REPAS
  BY DEF ArgumentsCoherents, RepasCoherents
<1>1. TypeOK'
  BY <1>0 DEF TypeOK, TypeOKPhilosophes, Points
<1>2. ArgumentsCoherents'
  BY DEF ArgumentsCoherents, TypeOK, TypeOKPhilosophes
<1>3. VerrousCoherents'
  <2>1. \A u \in Phi : Tenues(u)' = Tenues(u)
    BY DEF Tenues, TypeOK, TypeOKPhilosophes
  <2>2. QED
    BY <2>1 DEF VerrousCoherents
<1>4. RepasCoherents'
  BY <1>0 DEF RepasCoherents, TypeOK, TypeOKPhilosophes
<1>5. PhasesCoherentes'
  BY DEF PhasesCoherentes, TypeOK, TypeOKPhilosophes
<1>6. QED
  BY <1>1, <1>2, <1>3, <1>4, <1>5 DEF IInv

LEMMA PrendrePremiereIInv ==
    ASSUME NEW t \in Phi, IInv, PrendrePremiere(t)
    PROVE  IInv'
<1> USE DEF IInv, PrendrePremiere, Verrouiller, Aller
<1>0. /\ id_philosophe[t] = t
      /\ Premiere(t) \in Phi /\ Seconde(t) \in Phi /\ Premiere(t) # Seconde(t)
  BY OrdreDesFourchettes DEF ArgumentsCoherents, Phi
<1>1. TypeOK'
  BY <1>0 DEF TypeOK, TypeOKPhilosophes, Points
<1>2. ArgumentsCoherents'
  BY DEF ArgumentsCoherents, TypeOK, TypeOKPhilosophes
<1>3. VerrousCoherents'
  <2>1. \A u \in Phi : u # t => Tenues(u)' = Tenues(u)
    BY DEF Tenues, TypeOK, TypeOKPhilosophes
  <2>2. Tenues(t)' = Tenues(t) \cup {Premiere(t)}
    BY <1>0 DEF Tenues, TypeOK, TypeOKPhilosophes
  <2>3. \A f \in Phi : mutex_fouchette'[f] = IF f = Premiere(t) THEN t
                                            ELSE mutex_fouchette[f]
    BY <1>0 DEF TypeOK, TypeOKPhilosophes
  <2>4. mutex_fouchette[Premiere(t)] = Libre
    BY <1>0 DEF VerrousCoherents, Tenues
  <2>5. QED
    BY <1>0, <2>1, <2>2, <2>3, <2>4 DEF VerrousCoherents, Phi
<1>4. RepasCoherents'
  BY DEF RepasCoherents, TypeOK, TypeOKPhilosophes
<1>5. PhasesCoherentes'
  BY <1>0 DEF PhasesCoherentes, TypeOK, TypeOKPhilosophes, Phi
<1>6. QED
  BY <1>1, <1>2, <1>3, <1>4, <1>5 DEF IInv

LEMMA PrendreSecondeIInv ==
    ASSUME NEW t \in Phi, IInv, PrendreSeconde(t)
    PROVE  IInv'
<1> USE DEF IInv, PrendreSeconde, Verrouiller, Aller
<1>0. /\ id_philosophe[t] = t
      /\ Premiere(t) \in Phi /\ Seconde(t) \in Phi /\ Premiere(t) # Seconde(t)
  BY OrdreDesFourchettes DEF ArgumentsCoherents, Phi
<1>1. TypeOK'
  BY <1>0 DEF TypeOK, TypeOKPhilosophes, Points
<1>2. ArgumentsCoherents'
  BY DEF ArgumentsCoherents, TypeOK, TypeOKPhilosophes
<1>3. VerrousCoherents'
  <2>1. \A u \in Phi : u # t => Tenues(u)' = Tenues(u)
    BY DEF Tenues, TypeOK, TypeOKPhilosophes
  <2>2. Tenues(t)' = Tenues(t) \cup {Seconde(t)}
    BY <1>0 DEF Tenues, TypeOK, TypeOKPhilosophes
  <2>3. \A f \in Phi : mutex_fouchette'[f] = IF f = Seconde(t) THEN t
                                            ELSE mutex_fouchette[f]
    BY <1>0 DEF TypeOK, TypeOKPhilosophes
  <2>4. mutex_fouchette[Seconde(t)] = Libre
    BY <1>0 DEF VerrousCoherents, Tenues
  <2>5. QED
    BY <1>0, <2>1, <2>2, <2>3, <2>4 DEF VerrousCoherents, Phi
<1>4. RepasCoherents'
  BY DEF RepasCoherents, TypeOK, TypeOKPhilosophes
<1>5. PhasesCoherentes'
  BY <1>0 DEF PhasesCoherentes, TypeOK, TypeOKPhilosophes, Phi
<1>6. QED
  BY <1>1, <1>2, <1>3, <1>4, <1>5 DEF IInv

LEMMA PoserSecondeIInv ==
    ASSUME NEW t \in Phi, IInv, PoserSeconde(t)
    PROVE  IInv'
<1> USE DEF IInv, PoserSeconde, Deverrouiller, Aller
<1>0. /\ id_philosophe[t] = t
      /\ Premiere(t) \in Phi /\ Seconde(t) \in Phi /\ Premiere(t) # Seconde(t)
  BY OrdreDesFourchettes DEF ArgumentsCoherents, Phi
<1>1. TypeOK'
  BY <1>0 DEF TypeOK, TypeOKPhilosophes, Points
<1>2. ArgumentsCoherents'
  BY DEF ArgumentsCoherents, TypeOK, TypeOKPhilosophes
<1>3. VerrousCoherents'
  <2>1. \A u \in Phi : u # t => Tenues(u)' = Tenues(u)
    BY DEF Tenues, TypeOK, TypeOKPhilosophes
  <2>2. Tenues(t)' = Tenues(t) \ {Seconde(t)}
    BY <1>0 DEF Tenues, TypeOK, TypeOKPhilosophes
  <2>3. \A f \in Phi : mutex_fouchette'[f] = IF f = Seconde(t) THEN Libre
                                            ELSE mutex_fouchette[f]
    BY <1>0 DEF TypeOK, TypeOKPhilosophes
  <2>4. mutex_fouchette[Seconde(t)] = t
    BY <1>0 DEF VerrousCoherents, Tenues
  <2>5. QED
    BY <1>0, <2>1, <2>2, <2>3, <2>4 DEF VerrousCoherents, Phi
<1>4. RepasCoherents'
  BY DEF RepasCoherents, TypeOK, TypeOKPhilosophes
<1>5. PhasesCoherentes'
  BY <1>0 DEF PhasesCoherentes, TypeOK, TypeOKPhilosophes, Phi
<1>6. QED
  BY <1>1, <1>2, <1>3, <1>4, <1>5 DEF IInv

LEMMA PoserPremiereIInv ==
    ASSUME NEW t \in Phi, IInv, PoserPremiere(t)
    PROVE  IInv'
<1> USE DEF IInv, PoserPremiere, Deverrouiller, Aller
<1>0. /\ id_philosophe[t] = t
      /\ Premiere(t) \in Phi /\ Seconde(t) \in Phi /\ Premiere(t) # Seconde(t)
  BY OrdreDesFourchettes DEF ArgumentsCoherents, Phi
<1>1. TypeOK'
  BY <1>0 DEF TypeOK, TypeOKPhilosophes, Points
<1>2. ArgumentsCoherents'
  BY DEF ArgumentsCoherents, TypeOK, TypeOKPhilosophes
<1>3. VerrousCoherents'
  <2>1. \A u \in Phi : u # t => Tenues(u)' = Tenues(u)
    BY DEF Tenues, TypeOK, TypeOKPhilosophes
  <2>2. Tenues(t)' = Tenues(t) \ {Premiere(t)}
    BY <1>0 DEF Tenues, TypeOK, TypeOKPhilosophes
  <2>3. \A f \in Phi : mutex_fouchette'[f] = IF f = Premiere(t) THEN Libre
                                            ELSE mutex_fouchette[f]
    BY <1>0 DEF TypeOK, TypeOKPhilosophes
  <2>4. mutex_fouchette[Premiere(t)] = t
    BY <1>0 DEF VerrousCoherents, Tenues
  <2>5. QED
    BY <1>0, <2>1, <2>2, <2>3, <2>4 DEF VerrousCoherents, Phi
<1>4. RepasCoherents'
  BY DEF RepasCoherents, TypeOK, TypeOKPhilosophes
<1>5. PhasesCoherentes'
  BY <1>0 DEF PhasesCoherentes, TypeOK, TypeOKPhilosophes, Phi
<1>6. QED
  BY <1>1, <1>2, <1>3, <1>4, <1>5 DEF IInv

LEMMA StutterIInv == IInv /\ UNCHANGED vars => IInv'
BY DEF vars, varsPhilosophes, IInv, TypeOK, TypeOKPhilosophes, ArgumentsCoherents,
       VerrousCoherents, Tenues, RepasCoherents, PhasesCoherentes

\* The invariant is inductive.
LEMMA NextIInv == IInv /\ [Next]_vars => IInv'
<1> SUFFICES ASSUME IInv, [Next]_vars PROVE IInv'
  OBVIOUS
<1>1. CASE main
  BY <1>1, InitialiserMutexIInv, CreerIInv, JoindreIInv, DetruireMutexIInv DEF main
<1>2. ASSUME NEW t \in Phi, philosophe(t) PROVE IInv'
  BY <1>2, DemarrerIInv, TesterIInv, PrendrePremiereIInv, PrendreSecondeIInv,
     MangerIInv, PoserSecondeIInv, PoserPremiereIInv DEF philosophe
<1>3. CASE UNCHANGED vars
  BY <1>3, StutterIInv
<1>4. QED
  BY <1>1, <1>2, <1>3 DEF Next, Termine

LEMMA SpecIInv == Spec => []IInv
<1>1. Init => IInv
  BY InitIInv
<1>2. IInv /\ [Next]_vars => IInv'
  BY NextIInv
<1>3. QED
  BY <1>1, <1>2, PTL DEF Spec

-----------------------------------------------------------------------------
(* The theorems.                                                            *)

\* diner_phi.c: every variable stays in its range and nobody eats more than
\* NOMBRE_DE_REPAS times, for any number of philosophers.
THEOREM TypageDinerPhi == Spec => []TypeOK
<1>1. IInv => TypeOK
  BY DEF IInv
<1>2. QED
  BY <1>1, SpecIInv, PTL

\* prendre_couverts and poser_couverts: a thread owns exactly the mutexes that
\* its point says, and unlocks only those.
THEOREM VerrousDinerPhi == Spec => []VerrousCoherents
<1>1. IInv => VerrousCoherents
  BY DEF IInv
<1>2. QED
  BY <1>1, SpecIInv, PTL

\* Two philosophers who are both between prendre_couverts and poser_couverts
\* share no fork, so they are not neighbours.
LEMMA ExclusionDeIInv == IInv => ExclusionVoisins
<1> SUFFICES ASSUME IInv, NEW t \in Phi, NEW u \in Phi,
                    pc[t] \in {"mange", "poser"}, pc[u] \in {"mange", "poser"},
                    Voisins(id_philosophe[t], id_philosophe[u])
             PROVE  FALSE
  BY DEF ExclusionVoisins
<1>1. id_philosophe[t] = t /\ id_philosophe[u] = u
  BY DEF IInv, ArgumentsCoherents
<1>2. PICK f \in Phi : f \in {t, Droite(t)} /\ f \in {u, Droite(u)}
  BY <1>1, OrdreDesFourchettes DEF Voisins
<1>3. f \in Tenues(t) /\ f \in Tenues(u)
  BY <1>1, <1>2, OrdreDesFourchettes DEF Tenues
<1>4. mutex_fouchette[f] = t /\ mutex_fouchette[f] = u
  BY <1>3 DEF IInv, VerrousCoherents
<1>5. QED
  BY <1>1, <1>4 DEF Voisins

\* diner_phi.c: neighbours never eat at the same time.
THEOREM ExclusionDinerPhi == Spec => []ExclusionVoisins
BY ExclusionDeIInv, SpecIInv, PTL

\* A non-empty set of natural numbers has a smallest element.
LEMMA PlusPetit ==
    ASSUME NEW T \in SUBSET Nat, T # {}
    PROVE  \E m \in T : \A n \in T : m <= n
<1> DEFINE R == {ss \in Nat \X Nat : ss[1] < ss[2]}
<1>1. IsWellFoundedOn(R, Nat)
  BY NatLessThanWellFounded DEF OpToRel
<1>2. \A x, y \in Nat : x < y => <<x, y>> \in R
  OBVIOUS
<1>3. PICK m \in T : \A n \in T : ~(<<n, m>> \in R)
  <2> HIDE DEF R
  <2>1. QED
    BY <1>1, WFMin
<1> HIDE DEF R
<1>4. ASSUME NEW n \in T PROVE m <= n
  <2>1. m \in Nat /\ n \in Nat /\ (n < m => <<n, m>> \in R)
    BY <1>2
  <2>2. ~(n < m)
    BY <2>1, <1>3
  <2>3. QED
    BY <2>1, <2>2
<1>5. QED
  BY <1>4

\* A non-empty set of philosophers has one whose first fork is the highest.
LEMMA PlusHaute ==
    ASSUME NEW Q \in SUBSET Phi, Q # {}
    PROVE  \E p \in Q : \A q \in Q : Premiere(q) <= Premiere(p)
<1> DEFINE Ecart(p) == NOMBRE_DE_PHILOSOPHE - Premiere(p)
           T == {Ecart(p) : p \in Q}
<1>1. \A p \in Q : Premiere(p) \in Int /\ Ecart(p) \in Nat
  BY OrdreDesFourchettes DEF Phi
<1>2. T \in SUBSET Nat /\ T # {}
  BY <1>1
<1>3. PICK m \in T : \A n \in T : m <= n
  <2> HIDE DEF T
  <2>1. QED
    BY <1>2, PlusPetit
<1>4. PICK p \in Q : m = Ecart(p)
  BY <1>3
<1>5. QED
  BY <1>1, <1>3, <1>4

\* The circular wait cannot close.  If everybody were blocked, the philosophers
\* who hold a fork would hold their first one and wait for their second one;
\* the one whose first fork is the highest would wait for a higher fork still,
\* held by another of them as his first: a contradiction.
LEMMA SansInterblocageDeIInv == IInv => SansInterblocage
<1> SUFFICES ASSUME IInv, NEW a \in Phi, pc[a] \notin Inactif,
                    \A t \in Phi : ~PeutAvancer(t)
             PROVE  FALSE
  BY DEF SansInterblocage
<1> DEFINE Q == {t \in Phi : pc[t] = "prendre2"}
<1>1. \A t \in Phi : /\ Premiere(t) \in Phi /\ Seconde(t) \in Phi
                     /\ Premiere(t) < Seconde(t)
                     /\ Premiere(t) \in Int /\ Seconde(t) \in Int
  BY OrdreDesFourchettes DEF Phi
<1>2. \A t \in Phi : pc[t] \in {"prendre", "prendre2", "mange", "poser", "poser2"}
                        => id_philosophe[t] = t
  BY DEF IInv, ArgumentsCoherents
\* Whoever is at the table is blocked by a lock, and not by an invalid mutex.
<1>3. \A t \in Phi : pc[t] \notin Inactif =>
          \/ pc[t] = "prendre" /\ mutex_fouchette[Premiere(t)] # Libre
          \/ pc[t] = "prendre2" /\ mutex_fouchette[Seconde(t)] # Libre
  BY <1>2 DEF PeutAvancer
<1>4. \A f \in Phi : mutex_fouchette[f] # Invalide
  BY DEF IInv, PhasesCoherentes, TypeOK, TypeOKPhilosophes, Phases, Inactif
\* The owner of a fork waits for his second one, and the fork is his first.
<1>5. ASSUME NEW f \in Phi, mutex_fouchette[f] # Libre
      PROVE  \E q \in Q : f = Premiere(q)
  <2>1. PICK q \in Phi : mutex_fouchette[f] = q
    BY <1>4, <1>5 DEF IInv, TypeOK
  <2>2. f \in Tenues(q)
    BY <2>1 DEF IInv, VerrousCoherents
  <2>3. pc[q] = "prendre2"
    BY <2>2, <1>3 DEF Tenues, Inactif
  <2>4. f = Premiere(q)
    BY <2>2, <2>3, <1>2 DEF Tenues
  <2>5. QED
    BY <2>3, <2>4
<1>6. Q # {}
  BY <1>1, <1>3, <1>5
<1>7. PICK p \in Q : \A q \in Q : Premiere(q) <= Premiere(p)
  <2> HIDE DEF Q
  <2>1. Q \in SUBSET Phi
    BY DEF Q
  <2>2. QED
    BY <1>6, <2>1, PlusHaute
<1>8. mutex_fouchette[Seconde(p)] # Libre
  BY <1>3, <1>7 DEF Inactif
<1>9. PICK q \in Q : Seconde(p) = Premiere(q)
  BY <1>1, <1>5, <1>7, <1>8
<1>10. QED
  BY <1>1, <1>7, <1>9

\* The remark of diner_phi.c, for any number of philosophers: taking the forks
\* in increasing order prevents the deadlock.
THEOREM SansInterblocageDinerPhi == Spec => []SansInterblocage
BY SansInterblocageDeIInv, SpecIInv, PTL

\* main destroys the mutexes when nobody can use them and everybody has eaten.
THEOREM DestructionDinerPhi == Spec => []DestructionSure
<1>1. IInv => DestructionSure
  BY DEF IInv, DestructionSure, RepasCoherents, PhasesCoherentes, TypeOK,
         TypeOKPhilosophes, Phases, Inactif
<1>2. QED
  BY <1>1, SpecIInv, PTL

\* The mutexes are used safely, as the run states it: each by its owner, none
\* when it is destroyed.
THEOREM VerrousSursDinerPhi == Spec => []VerrousSurs
BY VerrousDinerPhi, DestructionDinerPhi, PTL DEF VerrousSurs

-----------------------------------------------------------------------------
(* The refinement of the abstract table.                                    *)

\* The philosophers who eat are the threads at "poser".
LEMMA MangentSimple ==
    /\ IInv => Mangent = {t \in Phi : pc[t] = "poser"}
    /\ IInv' => Mangent' = {t \in Phi : pc'[t] = "poser"}
BY DEF IInv, ArgumentsCoherents, Mangent

LEMMA InitTable == Init => Table!Init
BY DEF Init, Init0, Table!Init, Mangent

\* A meal that starts is a meal of the abstract table.
LEMMA MangerTable ==
    ASSUME NEW t \in Phi, IInv, IInv', Manger(t)
    PROVE  Table!Commencer(t)
<1>1. id_philosophe[t] = t /\ nombre_repas[t] < NOMBRE_DE_REPAS
  BY DEF IInv, ArgumentsCoherents, RepasCoherents, Manger
<1>2. /\ Mangent = {u \in Phi : pc[u] = "poser"}
      /\ Mangent' = {u \in Phi : pc'[u] = "poser"}
  BY MangentSimple
<1>3. Mangent' = Mangent \cup {t} /\ t \notin Mangent
  BY <1>2 DEF Manger, Aller, IInv, TypeOK, TypeOKPhilosophes
<1>4. \A q \in Mangent : ~Voisins(t, q)
  <2> SUFFICES ASSUME NEW q \in Phi, pc[q] = "poser" PROVE ~Voisins(t, q)
    BY <1>2
  <2>1. id_philosophe[q] = q
    BY DEF IInv, ArgumentsCoherents
  <2>2. QED
    BY <1>1, <2>1, ExclusionDeIInv DEF ExclusionVoisins, Manger
<1>5. QED
  BY <1>1, <1>3, <1>4 DEF Table!Commencer, Manger, IInv, TypeOK, TypeOKPhilosophes

\* The first unlock ends the meal.
LEMMA PoserTable ==
    ASSUME NEW t \in Phi, IInv, IInv', PoserSeconde(t)
    PROVE  Table!Finir(t)
<1>1. /\ Mangent = {u \in Phi : pc[u] = "poser"}
      /\ Mangent' = {u \in Phi : pc'[u] = "poser"}
  BY MangentSimple
<1>2. QED
  BY <1>1 DEF Table!Finir, PoserSeconde, Aller, IInv, TypeOK, TypeOKPhilosophes

\* No other step is seen from the abstract table.
LEMMA AutresTable ==
    ASSUME IInv, IInv',
           \/ main
           \/ UNCHANGED vars
           \/ \E t \in Phi : \/ Demarrer(t) \/ Tester(t) \/ PrendrePremiere(t)
                            \/ PrendreSeconde(t) \/ PoserPremiere(t)
    PROVE  UNCHANGED Table!vars
<1>1. /\ Mangent = {u \in Phi : pc[u] = "poser"}
      /\ Mangent' = {u \in Phi : pc'[u] = "poser"}
  BY MangentSimple
<1>2. nombre_repas' = nombre_repas
  BY DEF main, InitialiserMutex, Creer, Joindre, DetruireMutex, vars, varsPhilosophes,
         Demarrer, Tester, PrendrePremiere, PrendreSeconde, PoserPremiere
<1>3. \A u \in Phi : pc'[u] = "poser" <=> pc[u] = "poser"
  <2>1. CASE main
    <3>1. CASE Creer
      BY <3>1 DEF Creer, Iteration, IInv, TypeOK, TypeOKPhilosophes, PhasesCoherentes, Phi
    <3>2. CASE UNCHANGED pc
      BY <3>2
    <3>3. QED
      BY <2>1, <3>1, <3>2 DEF main, InitialiserMutex, Joindre, DetruireMutex
  <2>2. CASE UNCHANGED vars
    BY <2>2 DEF vars, varsPhilosophes
  <2>3. ASSUME NEW t \in Phi,
               \/ Demarrer(t) \/ Tester(t) \/ PrendrePremiere(t)
               \/ PrendreSeconde(t) \/ PoserPremiere(t)
        PROVE  \A u \in Phi : pc'[u] = "poser" <=> pc[u] = "poser"
    BY <2>3 DEF Demarrer, Tester, PrendrePremiere, PrendreSeconde, PoserPremiere,
                Aller, IInv, TypeOK, TypeOKPhilosophes
  <2>4. QED
    BY <2>1, <2>2, <2>3
<1>4. QED
  BY <1>1, <1>2, <1>3 DEF Table!vars

\* diner_phi.c implements the abstract table: a meal starts only when no
\* neighbour eats and when its philosopher still has one to take.
THEOREM RaffinementDinerPhi == Spec => RaffineRepas
<1>1. Init => Table!Init
  BY InitTable
<1>2. ASSUME IInv, IInv', [Next]_vars
      PROVE  [Table!Next]_(Table!vars)
  <2>1. CASE main \/ UNCHANGED vars
    BY <1>2, <2>1, AutresTable
  <2>2. ASSUME NEW t \in Phi, philosophe(t)
        PROVE  [Table!Next]_(Table!vars)
    BY <1>2, <2>2, AutresTable, MangerTable, PoserTable DEF philosophe, Table!Next
  <2>3. QED
    BY <1>2, <2>1, <2>2 DEF Next, Termine
<1>3. QED
  BY <1>1, <1>2, SpecIInv, PTL DEF Spec, RaffineRepas, Table!Spec
=============================================================================
