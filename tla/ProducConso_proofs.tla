-------------------------- MODULE ProducConso_proofs --------------------------
(***************************************************************************)
(* Proofs about ProducConso for any number of producers and consumers, of   *)
(* data and of slots.                                                       *)
(***************************************************************************)
EXTENDS ProducConso, FiniteSetTheorems, TLAPS

USE ArgumentsAssumption, MacrosAssumption

-----------------------------------------------------------------------------
(* Definitions of the invariant.                                            *)

\* The slot before x in the ring.
Precedent(x) == IF x = 0 THEN TAILLE_MAX - 1 ELSE x - 1

\* The slot at distance d after x, for d at most TAILLE_MAX.
Apres(x, d) == IF x + d < TAILLE_MAX THEN x + d ELSE x + d - TAILLE_MAX

Occupe(S) == \E t \in S : pc[t] = "acces"

\* The slot of the next datum to be written, also while it is being written,
\* and the slot of the next datum to be read.
Tete  == IF Occupe(Producteurs)   THEN Precedent(index_ecriture) ELSE index_ecriture
Queue == IF Occupe(Consommateurs) THEN Precedent(index_lecture) ELSE index_lecture

EnAttente == Len(produits) - Len(consommes)

\* A thread inside its loop has not reached its quota.
QuotasCoherents ==
    \A t \in Threads :
        /\ pc[t] = "absent" => k[t] = 0
        /\ pc[t] \in {"attendre"} \cup Reserve \cup Rend => k[t] < Quota(t)

\* The threads that use a slot use the one at the head or at the tail.
CasesCoherentes ==
    /\ \A t \in Producteurs : pc[t] = "acces" => j[t] = Tete
    /\ \A t \in Consommateurs : pc[t] = "acces" => j[t] = Queue

\* The ring holds the data that wait, in order, between the tail and the head.
RingCoherent ==
    /\ Tete = Apres(Queue, EnAttente)
    /\ \A d \in 0 .. EnAttente - 1 :
           liste[Apres(Queue, d)] = produits[Len(consommes) + 1 + d]

\* main is past the creation of the threads that run, and past their end.
PhasesCoherentes ==
    /\ phase = "creer" => \A t \in Threads : t >= i => pc[t] = "absent"
    /\ phase = "joindre" => \A t \in Threads : t < i => pc[t] = "sorti"
    /\ phase \in {"afficher", "fini"} => \A t \in Threads : pc[t] = "sorti"

IInv ==
    /\ TypeOK
    /\ VerrousCoherents
    /\ QuotasCoherents
    /\ PhasesCoherentes
    /\ BilanSemaphores
    /\ CasesCoherentes
    /\ RingCoherent

-----------------------------------------------------------------------------
(* Integers, sets and the ring.                                             *)

\* Quotas are natural numbers.
LEMMA QuotaType == ASSUME NEW t \in Threads PROVE Quota(t) \in Nat
<1>1. TOTALDONNEE \in Nat
  BY DEF TOTALDONNEE
<1>2. TOTALDONNEE \div nombre_conso \in Nat /\ TOTALDONNEE % nombre_conso \in Nat
  BY <1>1
<1>3. QED
  BY <1>2 DEF Quota

LEMMA ThreadsFinis ==
    /\ IsFiniteSet(Producteurs) /\ IsFiniteSet(Consommateurs)
    /\ Producteurs \subseteq Threads /\ Consommateurs \subseteq Threads
    /\ Producteurs \cap Consommateurs = {}
    /\ Threads \subseteq Nat /\ 0 \in Threads
BY FS_Interval DEF Producteurs, Consommateurs, Threads

\* How a step of the thread t changes the number of threads at given points.
LEMMA ParmiChange ==
    ASSUME NEW S, S \subseteq Threads, IsFiniteSet(S), NEW Pts, NEW t \in Threads, NEW x,
           pc \in [Threads -> Points], pc' = [pc EXCEPT ![t] = x]
    PROVE  /\ Cardinality(Parmi(S, Pts)) \in Nat
           /\ Cardinality(Parmi(S, Pts)') =
                  Cardinality(Parmi(S, Pts))
                  + (IF t \in S /\ x \in Pts THEN 1 ELSE 0)
                  - (IF t \in S /\ pc[t] \in Pts THEN 1 ELSE 0)
<1> DEFINE P == Parmi(S, Pts)
           P2 == {u \in S : pc'[u] \in Pts}
<1>1. IsFiniteSet(P) /\ Cardinality(P) \in Nat
  BY FS_Subset, FS_CardinalityType DEF Parmi
<1>2. P2 = IF t \in S /\ x \in Pts THEN P \cup {t} ELSE P \ {t}
  BY DEF Parmi
<1>3. t \in P <=> t \in S /\ pc[t] \in Pts
  BY DEF Parmi
<1>4. Parmi(S, Pts)' = P2
  BY DEF Parmi
<1> HIDE DEF P, P2
<1>5. /\ Cardinality(P \cup {t}) = IF t \in P THEN Cardinality(P) ELSE Cardinality(P) + 1
      /\ Cardinality(P \ {t}) = IF t \in P THEN Cardinality(P) - 1 ELSE Cardinality(P)
  BY <1>1, FS_AddElement, FS_RemoveElement
<1>6. QED
  BY <1>1, <1>2, <1>3, <1>4, <1>5 DEF P

\* The numbers of threads that the accounts of the semaphores mention.
NbPR == Cardinality(Parmi(Producteurs, Reserve))
NbPD == Cardinality(Parmi(Producteurs, Rend))
NbCR == Cardinality(Parmi(Consommateurs, Reserve))
NbCD == Cardinality(Parmi(Consommateurs, Rend))

LEMMA NombresChange ==
    ASSUME NEW t \in Threads, NEW x,
           pc \in [Threads -> Points], pc' = [pc EXCEPT ![t] = x]
    PROVE  /\ NbPR \in Nat /\ NbPD \in Nat /\ NbCR \in Nat /\ NbCD \in Nat
           /\ NbPR' = NbPR + (IF t \in Producteurs /\ x \in Reserve THEN 1 ELSE 0)
                           - (IF t \in Producteurs /\ pc[t] \in Reserve THEN 1 ELSE 0)
           /\ NbPD' = NbPD + (IF t \in Producteurs /\ x \in Rend THEN 1 ELSE 0)
                           - (IF t \in Producteurs /\ pc[t] \in Rend THEN 1 ELSE 0)
           /\ NbCR' = NbCR + (IF t \in Consommateurs /\ x \in Reserve THEN 1 ELSE 0)
                           - (IF t \in Consommateurs /\ pc[t] \in Reserve THEN 1 ELSE 0)
           /\ NbCD' = NbCD + (IF t \in Consommateurs /\ x \in Rend THEN 1 ELSE 0)
                           - (IF t \in Consommateurs /\ pc[t] \in Rend THEN 1 ELSE 0)
<1>1. /\ NbPR \in Nat
      /\ NbPR' = NbPR + (IF t \in Producteurs /\ x \in Reserve THEN 1 ELSE 0)
                      - (IF t \in Producteurs /\ pc[t] \in Reserve THEN 1 ELSE 0)
  BY ParmiChange, ThreadsFinis DEF NbPR
<1>2. /\ NbPD \in Nat
      /\ NbPD' = NbPD + (IF t \in Producteurs /\ x \in Rend THEN 1 ELSE 0)
                      - (IF t \in Producteurs /\ pc[t] \in Rend THEN 1 ELSE 0)
  BY ParmiChange, ThreadsFinis DEF NbPD
<1>3. /\ NbCR \in Nat
      /\ NbCR' = NbCR + (IF t \in Consommateurs /\ x \in Reserve THEN 1 ELSE 0)
                      - (IF t \in Consommateurs /\ pc[t] \in Reserve THEN 1 ELSE 0)
  BY ParmiChange, ThreadsFinis DEF NbCR
<1>4. /\ NbCD \in Nat
      /\ NbCD' = NbCD + (IF t \in Consommateurs /\ x \in Rend THEN 1 ELSE 0)
                      - (IF t \in Consommateurs /\ pc[t] \in Rend THEN 1 ELSE 0)
  BY ParmiChange, ThreadsFinis DEF NbCD
<1>5. QED
  BY <1>1, <1>2, <1>3, <1>4

LEMMA NombresInchanges ==
    ASSUME NEW t \in Threads, NEW x, pc \in [Threads -> Points],
           pc[t] \notin Reserve \cup Rend, x \notin Reserve \cup Rend,
           pc' = [pc EXCEPT ![t] = x]
    PROVE  NbPR' = NbPR /\ NbPD' = NbPD /\ NbCR' = NbCR /\ NbCD' = NbCD
<1>1. x \notin Reserve /\ x \notin Rend /\ pc[t] \notin Reserve /\ pc[t] \notin Rend
  OBVIOUS
<1>2. /\ NbPR \in Nat /\ NbPD \in Nat /\ NbCR \in Nat /\ NbCD \in Nat
      /\ NbPR' = NbPR + 0 - 0 /\ NbPD' = NbPD + 0 - 0
      /\ NbCR' = NbCR + 0 - 0 /\ NbCD' = NbCD + 0 - 0
  BY <1>1, NombresChange
<1>3. QED
  BY <1>2

\* A wait that succeeds.
LEMMA NombresAttendre ==
    ASSUME NEW t \in Threads, NEW x, pc \in [Threads -> Points], pc[t] = "attendre", x = "verrou",
           pc' = [pc EXCEPT ![t] = x]
    PROVE  /\ NbPR \in Nat /\ NbPD \in Nat /\ NbCR \in Nat /\ NbCD \in Nat
           /\ t \in Producteurs =>
                  NbPR' = NbPR + 1 /\ NbPD' = NbPD /\ NbCR' = NbCR /\ NbCD' = NbCD
           /\ t \in Consommateurs =>
                  NbPR' = NbPR /\ NbPD' = NbPD /\ NbCR' = NbCR + 1 /\ NbCD' = NbCD
<1>1. x \in Reserve /\ x \notin Rend /\ pc[t] \notin Reserve /\ pc[t] \notin Rend
  BY DEF Reserve, Rend
<1>2. NbPR \in Nat /\ NbPD \in Nat /\ NbCR \in Nat /\ NbCD \in Nat
  BY NombresChange
<1>3. ASSUME t \in Producteurs
      PROVE  NbPR' = NbPR + 1 - 0 /\ NbPD' = NbPD + 0 - 0 /\ NbCR' = NbCR + 0 - 0 /\ NbCD' = NbCD + 0 - 0
  <2>1. t \notin Consommateurs
    BY <1>3, ThreadsFinis
  <2>2. QED
    BY <1>1, <1>3, <2>1, NombresChange
<1>4. ASSUME t \in Consommateurs
      PROVE  NbPR' = NbPR + 0 - 0 /\ NbPD' = NbPD + 0 - 0 /\ NbCR' = NbCR + 1 - 0 /\ NbCD' = NbCD + 0 - 0
  <2>1. t \notin Producteurs
    BY <1>4, ThreadsFinis
  <2>2. QED
    BY <1>1, <1>4, <2>1, NombresChange
<1>5. QED
  BY <1>2, <1>3, <1>4

\* The access to the slot.
LEMMA NombresAcces ==
    ASSUME NEW t \in Threads, NEW x, pc \in [Threads -> Points], pc[t] = "acces", x = "deverrou",
           pc' = [pc EXCEPT ![t] = x]
    PROVE  /\ NbPR \in Nat /\ NbPD \in Nat /\ NbCR \in Nat /\ NbCD \in Nat
           /\ t \in Producteurs =>
                  NbPR' = NbPR - 1 /\ NbPD' = NbPD + 1 /\ NbCR' = NbCR /\ NbCD' = NbCD
           /\ t \in Consommateurs =>
                  NbPR' = NbPR /\ NbPD' = NbPD /\ NbCR' = NbCR - 1 /\ NbCD' = NbCD + 1
<1>1. x \notin Reserve /\ x \in Rend /\ pc[t] \in Reserve /\ pc[t] \notin Rend
  BY DEF Reserve, Rend
<1>2. NbPR \in Nat /\ NbPD \in Nat /\ NbCR \in Nat /\ NbCD \in Nat
  BY NombresChange
<1>3. ASSUME t \in Producteurs
      PROVE  NbPR' = NbPR + 0 - 1 /\ NbPD' = NbPD + 1 - 0 /\ NbCR' = NbCR + 0 - 0 /\ NbCD' = NbCD + 0 - 0
  <2>1. t \notin Consommateurs
    BY <1>3, ThreadsFinis
  <2>2. QED
    BY <1>1, <1>3, <2>1, NombresChange
<1>4. ASSUME t \in Consommateurs
      PROVE  NbPR' = NbPR + 0 - 0 /\ NbPD' = NbPD + 0 - 0 /\ NbCR' = NbCR + 0 - 1 /\ NbCD' = NbCD + 1 - 0
  <2>1. t \notin Producteurs
    BY <1>4, ThreadsFinis
  <2>2. QED
    BY <1>1, <1>4, <2>1, NombresChange
<1>5. QED
  BY <1>2, <1>3, <1>4

\* A post.
LEMMA NombresSignaler ==
    ASSUME NEW t \in Threads, NEW x, pc \in [Threads -> Points], pc[t] = "signaler", x \in {"attendre", "sorti"},
           pc' = [pc EXCEPT ![t] = x]
    PROVE  /\ NbPR \in Nat /\ NbPD \in Nat /\ NbCR \in Nat /\ NbCD \in Nat
           /\ t \in Producteurs =>
                  NbPR' = NbPR /\ NbPD' = NbPD - 1 /\ NbCR' = NbCR /\ NbCD' = NbCD
           /\ t \in Consommateurs =>
                  NbPR' = NbPR /\ NbPD' = NbPD /\ NbCR' = NbCR /\ NbCD' = NbCD - 1
<1>1. x \notin Reserve /\ x \notin Rend /\ pc[t] \notin Reserve /\ pc[t] \in Rend
  BY DEF Reserve, Rend
<1>2. NbPR \in Nat /\ NbPD \in Nat /\ NbCR \in Nat /\ NbCD \in Nat
  BY NombresChange
<1>3. ASSUME t \in Producteurs
      PROVE  NbPR' = NbPR + 0 - 0 /\ NbPD' = NbPD + 0 - 1 /\ NbCR' = NbCR + 0 - 0 /\ NbCD' = NbCD + 0 - 0
  <2>1. t \notin Consommateurs
    BY <1>3, ThreadsFinis
  <2>2. QED
    BY <1>1, <1>3, <2>1, NombresChange
<1>4. ASSUME t \in Consommateurs
      PROVE  NbPR' = NbPR + 0 - 0 /\ NbPD' = NbPD + 0 - 0 /\ NbCR' = NbCR + 0 - 0 /\ NbCD' = NbCD + 0 - 1
  <2>1. t \notin Producteurs
    BY <1>4, ThreadsFinis
  <2>2. QED
    BY <1>1, <1>4, <2>1, NombresChange
<1>5. QED
  BY <1>2, <1>3, <1>4

\* A step inside the critical section.
LEMMA NombresReste ==
    ASSUME NEW t \in Threads, NEW x, pc \in [Threads -> Points],
           (pc[t] \in Reserve /\ x \in Reserve) \/ (pc[t] \in Rend /\ x \in Rend),
           pc' = [pc EXCEPT ![t] = x]
    PROVE  NbPR' = NbPR /\ NbPD' = NbPD /\ NbCR' = NbCR /\ NbCD' = NbCD
<1>1. (pc[t] \in Reserve <=> x \in Reserve) /\ (pc[t] \in Rend <=> x \in Rend)
  BY DEF Reserve, Rend
<1>2. NbPR \in Nat /\ NbPD \in Nat /\ NbCR \in Nat /\ NbCD \in Nat
  BY NombresChange
<1> DEFINE a(S, Pts) == IF t \in S /\ x \in Pts THEN 1 ELSE 0
           b(S, Pts) == IF t \in S /\ pc[t] \in Pts THEN 1 ELSE 0
<1>3. /\ NbPR' = NbPR + a(Producteurs, Reserve) - b(Producteurs, Reserve)
      /\ NbPD' = NbPD + a(Producteurs, Rend) - b(Producteurs, Rend)
      /\ NbCR' = NbCR + a(Consommateurs, Reserve) - b(Consommateurs, Reserve)
      /\ NbCD' = NbCD + a(Consommateurs, Rend) - b(Consommateurs, Rend)
  BY NombresChange
<1>4. /\ a(Producteurs, Reserve) = b(Producteurs, Reserve) /\ b(Producteurs, Reserve) \in Int
      /\ a(Producteurs, Rend) = b(Producteurs, Rend) /\ b(Producteurs, Rend) \in Int
      /\ a(Consommateurs, Reserve) = b(Consommateurs, Reserve) /\ b(Consommateurs, Reserve) \in Int
      /\ a(Consommateurs, Rend) = b(Consommateurs, Rend) /\ b(Consommateurs, Rend) \in Int
  BY <1>1
<1> HIDE DEF a, b
<1>5. QED
  BY <1>2, <1>3, <1>4

\* The accounts of the semaphores, with these names.
LEMMA Bilan ==
    /\ BilanSemaphores <=>
           /\ empty = TAILLE_MAX - (Len(produits) + NbPR) + (Len(consommes) - NbCD)
           /\ full = (Len(produits) - NbPD) - (Len(consommes) + NbCR)
    /\ BilanSemaphores' <=>
           /\ empty' = TAILLE_MAX - (Len(produits') + NbPR') + (Len(consommes') - NbCD')
           /\ full' = (Len(produits') - NbPD') - (Len(consommes') + NbCR')
BY DEF BilanSemaphores, NbPR, NbPD, NbCR, NbCD

-----------------------------------------------------------------------------
(* Consequences of the invariant.                                           *)

\* Walking around the ring.
LEMMA Anneau ==
    ASSUME NEW x \in Cases
    PROVE  /\ Suivant(x) \in Cases /\ Precedent(x) \in Cases
           /\ Precedent(Suivant(x)) = x /\ Suivant(Precedent(x)) = x
           /\ Apres(x, 0) = x
           /\ \A d \in 0 .. TAILLE_MAX : Apres(x, d) \in Cases
           /\ \A d \in 0 .. TAILLE_MAX - 1 : /\ Apres(x, d + 1) = Suivant(Apres(x, d))
                                            /\ Apres(Suivant(x), d) = Apres(x, d + 1)
           /\ \A d, e \in 0 .. TAILLE_MAX - 1 : d # e => Apres(x, d) # Apres(x, e)
BY DEF Suivant, Precedent, Apres, Cases

\* The consumers are never ahead of the producers, nor more than a ring behind;
\* a producer that has a slot has a free one, a consumer has a full one.
LEMMA Bornes ==
    ASSUME IInv
    PROVE  /\ EnAttente \in 0 .. TAILLE_MAX
           /\ Len(produits) \in Nat /\ Len(consommes) \in Nat
           /\ Occupe(Producteurs) => EnAttente < TAILLE_MAX
           /\ Occupe(Consommateurs) => EnAttente > 0
<1>1. Len(produits) \in Nat /\ Len(consommes) \in Nat
  BY DEF IInv, TypeOK, TypeOKTampon
<1>2. /\ IsFiniteSet(Parmi(Producteurs, Reserve)) /\ IsFiniteSet(Parmi(Producteurs, Rend))
      /\ IsFiniteSet(Parmi(Consommateurs, Reserve)) /\ IsFiniteSet(Parmi(Consommateurs, Rend))
  BY FS_Subset, ThreadsFinis DEF Parmi
<1>3. NbPR \in Nat /\ NbPD \in Nat /\ NbCR \in Nat /\ NbCD \in Nat
  BY <1>2, FS_CardinalityType DEF NbPR, NbPD, NbCR, NbCD
<1>4. Occupe(Producteurs) => NbPR # 0
  BY <1>2, FS_EmptySet DEF NbPR, Occupe, Parmi, Reserve
<1>5. Occupe(Consommateurs) => NbCR # 0
  BY <1>2, FS_EmptySet DEF NbCR, Occupe, Parmi, Reserve
<1>6. /\ empty \in Nat /\ full \in Nat
      /\ empty = TAILLE_MAX - (Len(produits) + NbPR) + (Len(consommes) - NbCD)
      /\ full = (Len(produits) - NbPD) - (Len(consommes) + NbCR)
  BY Bilan DEF IInv, TypeOK
<1>7. QED
  BY <1>1, <1>3, <1>4, <1>5, <1>6 DEF EnAttente

\* The head and the tail are slots of the ring, and differ while a producer
\* writes and a consumer reads.
LEMMA TeteQueue ==
    ASSUME IInv
    PROVE  /\ Tete \in Cases /\ Queue \in Cases
           /\ Occupe(Producteurs) /\ Occupe(Consommateurs) => Tete # Queue
<1>1. Tete \in Cases /\ Queue \in Cases
  BY Anneau DEF IInv, TypeOK, TypeOKTampon, Tete, Queue
<1>2. ASSUME Occupe(Producteurs), Occupe(Consommateurs) PROVE Tete # Queue
  <2>1. EnAttente \in 1 .. TAILLE_MAX - 1
    BY <1>2, Bornes
  <2>2. Apres(Queue, EnAttente) # Apres(Queue, 0) /\ Apres(Queue, 0) = Queue
    BY <1>1, <2>1, Anneau
  <2>3. QED
    BY <2>2 DEF IInv, RingCoherent
<1>3. QED
  BY <1>1, <1>2

\* A step that neither touches the ring nor begins or ends an access.
LEMMA RingInchange ==
    ASSUME IInv, UNCHANGED <<index_ecriture, index_lecture, liste, j, produits, consommes>>,
           \A u \in Threads : pc'[u] = "acces" <=> pc[u] = "acces"
    PROVE  CasesCoherentes' /\ RingCoherent'
<1>1. Occupe(Producteurs)' = Occupe(Producteurs) /\ Occupe(Consommateurs)' = Occupe(Consommateurs)
  BY ThreadsFinis DEF Occupe
<1>2. Tete' = Tete /\ Queue' = Queue /\ EnAttente' = EnAttente
  BY <1>1 DEF Tete, Queue, EnAttente
<1>3. CasesCoherentes'
  BY <1>2, ThreadsFinis DEF IInv, CasesCoherentes
<1>4. RingCoherent'
  BY <1>2 DEF IInv, RingCoherent
<1>5. QED
  BY <1>3, <1>4

\* A step of a running thread does not disturb what main knows.
LEMMA PhasesThread ==
    ASSUME IInv, NEW t \in Threads, NEW x, pc[t] \notin {"absent", "sorti"},
           pc' = [pc EXCEPT ![t] = x], UNCHANGED varsMain
    PROVE  PhasesCoherentes'
BY DEF IInv, PhasesCoherentes, TypeOK, TypeOKTampon, varsMain

-----------------------------------------------------------------------------
(* The invariant is inductive.                                              *)

LEMMA InitIInv == Init => IInv
<1> SUFFICES ASSUME Init PROVE IInv
  OBVIOUS
<1> USE DEF Init, InitTampon
<1>1. TypeOK
  <2>1. \A t \in Threads : 0 <= Quota(t)
    BY QuotaType
  <2>2. QED
    BY <2>1, ThreadsFinis DEF TypeOK, TypeOKTampon, Points, Cases, Libre
<1>2. VerrousCoherents
  BY ThreadsFinis DEF VerrousCoherents, Critique, Libre
<1>3. QuotasCoherents /\ PhasesCoherentes
  BY DEF QuotasCoherents, PhasesCoherentes, Reserve, Rend
<1>4. BilanSemaphores
  <2>1. /\ Parmi(Producteurs, Reserve) = {} /\ Parmi(Producteurs, Rend) = {}
        /\ Parmi(Consommateurs, Reserve) = {} /\ Parmi(Consommateurs, Rend) = {}
    BY ThreadsFinis DEF Parmi, Reserve, Rend
  <2>2. QED
    BY <2>1, FS_EmptySet DEF BilanSemaphores
<1>5. ~Occupe(Producteurs) /\ ~Occupe(Consommateurs)
  BY ThreadsFinis DEF Occupe
<1>6. CasesCoherentes
  BY ThreadsFinis DEF CasesCoherentes
<1>7. RingCoherent
  BY <1>5 DEF RingCoherent, Tete, Queue, EnAttente, Apres
<1>8. QED
  BY <1>1, <1>2, <1>3, <1>4, <1>6, <1>7 DEF IInv

LEMMA CreerIInv ==
    ASSUME IInv, Creer, UNCHANGED <<varsSem, varsMutex>>
    PROVE  IInv'
<1> USE DEF IInv, Creer, Iteration, Aller, varsSem, varsMutex, varsSortie
<1> DEFINE x == Boucle(i, 0)
<1>1. i \in Threads /\ pc[i] = "absent" /\ x \in {"attendre", "sorti"} /\ pc \in [Threads -> Points]
  BY DEF TypeOK, TypeOKTampon, PhasesCoherentes, Boucle, Threads, Producteurs, Consommateurs
<1>2. pc' = [pc EXCEPT ![i] = x]
  OBVIOUS
<1>3. TypeOK'
  BY <1>1, ThreadsFinis DEF TypeOK, TypeOKTampon, Points
<1>4. VerrousCoherents'
  BY <1>1, ThreadsFinis DEF VerrousCoherents, Critique
<1>5. QuotasCoherents'
  <2>1. x = "attendre" => k[i] < Quota(i)
    BY <1>1, QuotaType DEF Boucle, QuotasCoherents
  <2> HIDE DEF x
  <2>2. QED
    BY <1>1, <1>2, <2>1 DEF QuotasCoherents, Reserve, Rend
<1>6. PhasesCoherentes'
  BY <1>1, ThreadsFinis DEF PhasesCoherentes, Threads, Producteurs, Consommateurs
<1> HIDE DEF x
<1>7. BilanSemaphores'
  <2>1. NbPR' = NbPR /\ NbPD' = NbPD /\ NbCR' = NbCR /\ NbCD' = NbCD
    BY <1>1, <1>2, NombresInchanges DEF Reserve, Rend
  <2>2. QED
    BY <2>1, Bilan
<1>8. CasesCoherentes' /\ RingCoherent'
  BY <1>1, <1>2, RingInchange
<1>9. QED
  BY <1>3, <1>4, <1>5, <1>6, <1>7, <1>8

LEMMA JoindreIInv ==
    ASSUME IInv, Joindre, UNCHANGED <<varsSem, varsMutex>>
    PROVE  IInv'
<1> USE DEF IInv, Joindre, Iteration, varsSem, varsMutex, varsSortie
<1>1. TypeOK' /\ VerrousCoherents' /\ QuotasCoherents'
  BY ThreadsFinis DEF TypeOK, TypeOKTampon, VerrousCoherents, QuotasCoherents
<1>2. PhasesCoherentes'
  BY DEF PhasesCoherentes, TypeOK, TypeOKTampon, Threads, Producteurs, Consommateurs
<1>3. BilanSemaphores'
  BY DEF BilanSemaphores, Parmi
<1>4. CasesCoherentes' /\ RingCoherent'
  BY RingInchange
<1>5. QED
  BY <1>1, <1>2, <1>3, <1>4

LEMMA AfficherIInv ==
    ASSUME IInv, Afficher, UNCHANGED <<varsSem, varsMutex>>
    PROVE  IInv'
<1> USE DEF IInv, Afficher, varsSem, varsMutex, varsSortie
<1>1. TypeOK' /\ VerrousCoherents' /\ QuotasCoherents' /\ PhasesCoherentes'
  BY DEF TypeOK, TypeOKTampon, VerrousCoherents, QuotasCoherents, PhasesCoherentes
<1>2. BilanSemaphores'
  BY DEF BilanSemaphores, Parmi
<1>3. CasesCoherentes' /\ RingCoherent'
  BY RingInchange
<1>4. QED
  BY <1>1, <1>2, <1>3

LEMMA AttendreIInv ==
    ASSUME IInv, NEW t \in Threads,
           \/ t \in Producteurs /\ sem_wait(empty, t) /\ UNCHANGED full
           \/ t \in Consommateurs /\ sem_wait(full, t) /\ UNCHANGED empty
    PROVE  IInv'
<1> USE DEF IInv, sem_wait, Aller, varsMain, varsSortie, varsMutex
<1>1. pc[t] = "attendre" /\ pc' = [pc EXCEPT ![t] = "verrou"] /\ pc \in [Threads -> Points]
  BY DEF TypeOK, TypeOKTampon
<1>2. TypeOK'
  <2>1. empty' \in Nat /\ full' \in Nat
    BY DEF TypeOK
  <2>2. TypeOKTampon(Points, Cases)'
    BY <1>1 DEF TypeOK, TypeOKTampon, Points
  <2>3. QED
    BY <2>1, <2>2 DEF TypeOK
<1>3. VerrousCoherents'
  BY <1>1, ThreadsFinis DEF VerrousCoherents, Critique
<1>4. QuotasCoherents'
  BY <1>1 DEF QuotasCoherents, Reserve, Rend
<1>5. PhasesCoherentes'
  BY <1>1, PhasesThread
<1>6. BilanSemaphores'
  <2>1. /\ NbPR \in Nat /\ NbPD \in Nat /\ NbCR \in Nat /\ NbCD \in Nat
        /\ t \in Producteurs =>
               NbPR' = NbPR + 1 /\ NbPD' = NbPD /\ NbCR' = NbCR /\ NbCD' = NbCD
        /\ t \in Consommateurs =>
               NbPR' = NbPR /\ NbPD' = NbPD /\ NbCR' = NbCR + 1 /\ NbCD' = NbCD
    BY <1>1, NombresAttendre
  <2>2. Len(produits) \in Nat /\ Len(consommes) \in Nat
    BY Bornes
  <2>3. produits' = produits /\ consommes' = consommes
    OBVIOUS
  <2>4. \/ t \in Producteurs /\ empty' = empty - 1 /\ full' = full
        \/ t \in Consommateurs /\ full' = full - 1 /\ empty' = empty
    OBVIOUS
  <2>5. empty \in Nat /\ full \in Nat /\ BilanSemaphores
    BY DEF TypeOK
  <2>6. /\ empty = TAILLE_MAX - (Len(produits) + NbPR) + (Len(consommes) - NbCD)
        /\ full = (Len(produits) - NbPD) - (Len(consommes) + NbCR)
    BY <2>5, Bilan
  <2> HIDE DEF IInv, sem_wait, sem_post
  <2>7. /\ empty' = TAILLE_MAX - (Len(produits) + NbPR') + (Len(consommes) - NbCD')
        /\ full' = (Len(produits) - NbPD') - (Len(consommes) + NbCR')
    <3>1. CASE t \in Producteurs
      BY <2>1, <2>2, <2>4, <2>5, <2>6, <3>1, ThreadsFinis
    <3>2. CASE t \in Consommateurs
      BY <2>1, <2>2, <2>4, <2>5, <2>6, <3>2, ThreadsFinis
    <3>3. QED
      BY <2>4, <3>1, <3>2
  <2>8. QED
    BY <2>3, <2>7, Bilan
<1>7. CasesCoherentes' /\ RingCoherent'
  BY <1>1, RingInchange
<1>8. QED
  BY <1>2, <1>3, <1>4, <1>5, <1>6, <1>7

LEMMA VerrouillerIInv ==
    ASSUME IInv, NEW t \in Threads,
           \/ t \in Producteurs /\ Verrouiller(mutex_prod, t) /\ UNCHANGED mutex_cons
           \/ t \in Consommateurs /\ Verrouiller(mutex_cons, t) /\ UNCHANGED mutex_prod
    PROVE  IInv'
<1> USE DEF IInv, Verrouiller, Aller, varsMain, varsSortie, varsSem
<1>1. pc[t] = "verrou" /\ pc' = [pc EXCEPT ![t] = "index"] /\ pc \in [Threads -> Points]
  BY DEF TypeOK, TypeOKTampon
<1>2. TypeOK'
  BY <1>1, ThreadsFinis DEF TypeOK, TypeOKTampon, Points
<1>3. VerrousCoherents'
  BY <1>1, ThreadsFinis DEF VerrousCoherents, Critique, Libre
<1>4. QuotasCoherents'
  BY <1>1 DEF QuotasCoherents, Reserve, Rend
<1>5. PhasesCoherentes'
  BY <1>1, PhasesThread
<1>6. BilanSemaphores'
  <2>1. NbPR' = NbPR /\ NbPD' = NbPD /\ NbCR' = NbCR /\ NbCD' = NbCD
    BY <1>1, NombresReste DEF Reserve
  <2>2. QED
    BY <2>1, Bilan
<1>7. CasesCoherentes' /\ RingCoherent'
  BY <1>1, RingInchange
<1>8. QED
  BY <1>2, <1>3, <1>4, <1>5, <1>6, <1>7

LEMMA DeverrouillerIInv ==
    ASSUME IInv, NEW t \in Threads,
           \/ t \in Producteurs /\ Deverrouiller(mutex_prod, t) /\ UNCHANGED mutex_cons
           \/ t \in Consommateurs /\ Deverrouiller(mutex_cons, t) /\ UNCHANGED mutex_prod
    PROVE  IInv'
<1> USE DEF IInv, Deverrouiller, Aller, varsMain, varsSortie, varsSem
<1>1. pc[t] = "deverrou" /\ pc' = [pc EXCEPT ![t] = "signaler"] /\ pc \in [Threads -> Points]
  BY DEF TypeOK, TypeOKTampon
<1>2. TypeOK'
  BY <1>1, ThreadsFinis DEF TypeOK, TypeOKTampon, Points
<1>3. VerrousCoherents'
  BY <1>1, ThreadsFinis DEF VerrousCoherents, Critique, Libre
<1>4. QuotasCoherents'
  BY <1>1 DEF QuotasCoherents, Reserve, Rend
<1>5. PhasesCoherentes'
  BY <1>1, PhasesThread
<1>6. BilanSemaphores'
  <2>1. NbPR' = NbPR /\ NbPD' = NbPD /\ NbCR' = NbCR /\ NbCD' = NbCD
    BY <1>1, NombresReste DEF Rend
  <2>2. QED
    BY <2>1, Bilan
<1>7. CasesCoherentes' /\ RingCoherent'
  BY <1>1, RingInchange
<1>8. QED
  BY <1>2, <1>3, <1>4, <1>5, <1>6, <1>7

LEMMA SignalerIInv ==
    ASSUME IInv, NEW t \in Threads,
           \/ t \in Producteurs /\ sem_post(full, t) /\ UNCHANGED empty
           \/ t \in Consommateurs /\ sem_post(empty, t) /\ UNCHANGED full
    PROVE  IInv'
<1> USE DEF IInv, sem_post, Reboucler, Aller, varsMain, varsSortie, varsMutex
<1> DEFINE x == Boucle(t, k[t] + 1)
<1>1. /\ pc[t] = "signaler" /\ pc' = [pc EXCEPT ![t] = x] /\ pc \in [Threads -> Points]
      /\ x \in {"attendre", "sorti"} /\ (x = "attendre" => k[t] + 1 < Quota(t))
      /\ k[t] < Quota(t) /\ k \in [Threads -> Nat] /\ k' = [k EXCEPT ![t] = k[t] + 1]
  BY DEF TypeOK, TypeOKTampon, Boucle, QuotasCoherents, Rend
<1> HIDE DEF x
<1>2. TypeOK'
  <2>1. \A u \in Threads : k'[u] <= Quota(u)
    BY <1>1, QuotaType DEF TypeOK, TypeOKTampon
  <2>2. empty' \in Nat /\ full' \in Nat
    BY DEF TypeOK
  <2>3. k' \in [Threads -> Nat] /\ pc' \in [Threads -> Points]
    BY <1>1 DEF Points
  <2>4. TypeOKTampon(Points, Cases)'
    BY <2>1, <2>3 DEF TypeOK, TypeOKTampon
  <2>5. QED
    BY <2>2, <2>4 DEF TypeOK
<1>3. VerrousCoherents'
  BY <1>1, ThreadsFinis DEF VerrousCoherents, Critique
<1>4. QuotasCoherents'
  BY <1>1 DEF QuotasCoherents, Reserve, Rend
<1>5. PhasesCoherentes'
  BY <1>1, PhasesThread
<1>6. BilanSemaphores'
  <2>1. /\ NbPR \in Nat /\ NbPD \in Nat /\ NbCR \in Nat /\ NbCD \in Nat
        /\ t \in Producteurs =>
               NbPR' = NbPR /\ NbPD' = NbPD - 1 /\ NbCR' = NbCR /\ NbCD' = NbCD
        /\ t \in Consommateurs =>
               NbPR' = NbPR /\ NbPD' = NbPD /\ NbCR' = NbCR /\ NbCD' = NbCD - 1
    BY <1>1, NombresSignaler
  <2>2. Len(produits) \in Nat /\ Len(consommes) \in Nat
    BY Bornes
  <2>3. produits' = produits /\ consommes' = consommes
    OBVIOUS
  <2>4. \/ t \in Producteurs /\ full' = full + 1 /\ empty' = empty
        \/ t \in Consommateurs /\ empty' = empty + 1 /\ full' = full
    OBVIOUS
  <2>5. empty \in Nat /\ full \in Nat /\ BilanSemaphores
    BY DEF TypeOK
  <2>6. /\ empty = TAILLE_MAX - (Len(produits) + NbPR) + (Len(consommes) - NbCD)
        /\ full = (Len(produits) - NbPD) - (Len(consommes) + NbCR)
    BY <2>5, Bilan
  <2> HIDE DEF IInv, sem_wait, sem_post
  <2>7. /\ empty' = TAILLE_MAX - (Len(produits) + NbPR') + (Len(consommes) - NbCD')
        /\ full' = (Len(produits) - NbPD') - (Len(consommes) + NbCR')
    <3>1. CASE t \in Producteurs
      BY <2>1, <2>2, <2>4, <2>5, <2>6, <3>1, ThreadsFinis
    <3>2. CASE t \in Consommateurs
      BY <2>1, <2>2, <2>4, <2>5, <2>6, <3>2, ThreadsFinis
    <3>3. QED
      BY <2>4, <3>1, <3>2
  <2>8. QED
    BY <2>3, <2>7, Bilan
<1>7. CasesCoherentes' /\ RingCoherent'
  BY <1>1, RingInchange
<1>8. QED
  BY <1>2, <1>3, <1>4, <1>5, <1>6, <1>7

\* Only one producer, and only one consumer, is between its lock and its unlock.
LEMMA Seul ==
    ASSUME IInv, NEW t \in Threads, pc[t] \in Critique
    PROVE  /\ t \in Producteurs => \A u \in Producteurs : pc[u] \in Critique => u = t
           /\ t \in Consommateurs => \A u \in Consommateurs : pc[u] \in Critique => u = t
BY DEF IInv, VerrousCoherents

LEMMA ReserverEcritureIInv ==
    ASSUME IInv, NEW t \in Producteurs, ReserverEcriture(t), UNCHANGED <<varsSem, varsMutex>>
    PROVE  IInv'
<1> USE DEF IInv, ReserverEcriture, Aller, varsMain, varsSortie, varsSem, varsMutex
<1>1. /\ t \in Threads /\ t \notin Consommateurs
      /\ pc[t] = "index" /\ pc' = [pc EXCEPT ![t] = "acces"] /\ pc \in [Threads -> Points]
      /\ j \in [Threads -> Cases] /\ index_ecriture \in Cases
  BY ThreadsFinis DEF TypeOK, TypeOKTampon
<1>2. TypeOK'
  BY <1>1, Anneau DEF TypeOK, TypeOKTampon, Points
<1>3. VerrousCoherents'
  BY <1>1, ThreadsFinis DEF VerrousCoherents, Critique
<1>4. QuotasCoherents'
  BY <1>1 DEF QuotasCoherents, Reserve, Rend
<1>5. PhasesCoherentes'
  BY <1>1, PhasesThread
<1>6. BilanSemaphores'
  <2>1. NbPR' = NbPR /\ NbPD' = NbPD /\ NbCR' = NbCR /\ NbCD' = NbCD
    BY <1>1, NombresReste DEF Reserve
  <2>2. QED
    BY <2>1, Bilan
<1>7. /\ ~Occupe(Producteurs) /\ Occupe(Producteurs)'
      /\ Occupe(Consommateurs)' = Occupe(Consommateurs)
  BY <1>1, Seul, ThreadsFinis DEF Occupe, Critique
<1>8. /\ Tete = index_ecriture /\ Tete' = Precedent(Suivant(index_ecriture))
      /\ Queue' = Queue /\ EnAttente' = EnAttente
  BY <1>7 DEF Tete, Queue, EnAttente, Precedent
<1>9. Tete' = Tete
  BY <1>1, <1>8, Anneau
<1>10. CasesCoherentes'
  <2>1. \A u \in Producteurs : pc'[u] = "acces" => u = t
    BY <1>1, Seul, ThreadsFinis DEF Critique
  <2>2. j'[t] = index_ecriture
    BY <1>1
  <2>3. \A u \in Consommateurs : j'[u] = j[u] /\ pc'[u] = pc[u]
    BY <1>1, ThreadsFinis
  <2>4. QED
    BY <1>8, <1>9, <2>1, <2>2, <2>3 DEF CasesCoherentes
<1>11. RingCoherent'
  BY <1>8, <1>9 DEF RingCoherent
<1>12. QED
  BY <1>2, <1>3, <1>4, <1>5, <1>6, <1>10, <1>11

LEMMA ReserverLectureIInv ==
    ASSUME IInv, NEW t \in Consommateurs, ReserverLecture(t), UNCHANGED <<varsSem, varsMutex>>
    PROVE  IInv'
<1> USE DEF IInv, ReserverLecture, Aller, varsMain, varsSortie, varsSem, varsMutex
<1>1. /\ t \in Threads /\ t \notin Producteurs
      /\ pc[t] = "index" /\ pc' = [pc EXCEPT ![t] = "acces"] /\ pc \in [Threads -> Points]
      /\ j \in [Threads -> Cases] /\ index_lecture \in Cases
  BY ThreadsFinis DEF TypeOK, TypeOKTampon
<1>2. TypeOK'
  BY <1>1, Anneau DEF TypeOK, TypeOKTampon, Points
<1>3. VerrousCoherents'
  BY <1>1, ThreadsFinis DEF VerrousCoherents, Critique
<1>4. QuotasCoherents'
  BY <1>1 DEF QuotasCoherents, Reserve, Rend
<1>5. PhasesCoherentes'
  BY <1>1, PhasesThread
<1>6. BilanSemaphores'
  <2>1. NbPR' = NbPR /\ NbPD' = NbPD /\ NbCR' = NbCR /\ NbCD' = NbCD
    BY <1>1, NombresReste DEF Reserve
  <2>2. QED
    BY <2>1, Bilan
<1>7. /\ ~Occupe(Consommateurs) /\ Occupe(Consommateurs)'
      /\ Occupe(Producteurs)' = Occupe(Producteurs)
  BY <1>1, Seul, ThreadsFinis DEF Occupe, Critique
<1>8. /\ Queue = index_lecture /\ Queue' = Precedent(Suivant(index_lecture))
      /\ Tete' = Tete /\ EnAttente' = EnAttente
  BY <1>7 DEF Tete, Queue, EnAttente, Precedent
<1>9. Queue' = Queue
  BY <1>1, <1>8, Anneau
<1>10. CasesCoherentes'
  <2>1. \A u \in Consommateurs : pc'[u] = "acces" => u = t
    BY <1>1, Seul, ThreadsFinis DEF Critique
  <2>2. j'[t] = index_lecture
    BY <1>1
  <2>3. \A u \in Producteurs : j'[u] = j[u] /\ pc'[u] = pc[u]
    BY <1>1, ThreadsFinis
  <2>4. QED
    BY <1>8, <1>9, <2>1, <2>2, <2>3 DEF CasesCoherentes
<1>11. RingCoherent'
  BY <1>8, <1>9 DEF RingCoherent
<1>12. QED
  BY <1>2, <1>3, <1>4, <1>5, <1>6, <1>10, <1>11

LEMMA EcrireIInv ==
    ASSUME IInv, NEW t \in Producteurs, Ecrire(t, "deverrou"), UNCHANGED <<varsSem, varsMutex>>
    PROVE  IInv'
<1> USE DEF IInv, Ecrire, Aller, varsMain, varsSem, varsMutex
<1>1. /\ t \in Threads /\ t \notin Consommateurs
      /\ pc[t] = "acces" /\ pc' = [pc EXCEPT ![t] = "deverrou"] /\ pc \in [Threads -> Points]
      /\ j \in [Threads -> Cases] /\ index_ecriture \in Cases /\ liste \in [Cases -> Donnees \cup {Vide}]
  BY ThreadsFinis DEF TypeOK, TypeOKTampon
<1>2. TypeOK'
  <2>1. <<t, k[t]>> \in Donnees
    BY <1>1 DEF TypeOK, TypeOKTampon, QuotasCoherents, Reserve, Quota, Donnees
  <2>2. liste' \in [Cases -> Donnees \cup {Vide}] /\ produits' \in Seq(Donnees)
    BY <1>1, <2>1 DEF TypeOK, TypeOKTampon
  <2>3. pc' \in [Threads -> Points]
    BY <1>1 DEF Points
  <2>4. QED
    BY <2>2, <2>3 DEF TypeOK, TypeOKTampon
<1>3. VerrousCoherents'
  BY <1>1, ThreadsFinis DEF VerrousCoherents, Critique
<1>4. QuotasCoherents'
  BY <1>1 DEF QuotasCoherents, Reserve, Rend
<1>5. PhasesCoherentes'
  BY <1>1, PhasesThread
<1>6. /\ Len(produits) \in Nat /\ Len(consommes) \in Nat
      /\ produits' = Append(produits, <<t, k[t]>>) /\ consommes' = consommes
      /\ Len(produits') = Len(produits) + 1
      /\ produits'[Len(produits) + 1] = <<t, k[t]>>
      /\ \A n \in 1 .. Len(produits) : produits'[n] = produits[n]
  BY DEF TypeOK, TypeOKTampon
<1>7. BilanSemaphores'
  <2>1. /\ NbPR \in Nat /\ NbPD \in Nat /\ NbCR \in Nat /\ NbCD \in Nat
        /\ NbPR' = NbPR - 1 /\ NbPD' = NbPD + 1 /\ NbCR' = NbCR /\ NbCD' = NbCD
    BY <1>1, NombresAcces
  <2>2. /\ empty = TAILLE_MAX - (Len(produits) + NbPR) + (Len(consommes) - NbCD)
        /\ full = (Len(produits) - NbPD) - (Len(consommes) + NbCR)
        /\ empty' = empty /\ full' = full
    BY Bilan
  <2> HIDE DEF IInv, Ecrire
  <2>3. /\ empty' = TAILLE_MAX - (Len(produits') + NbPR') + (Len(consommes') - NbCD')
        /\ full' = (Len(produits') - NbPD') - (Len(consommes') + NbCR')
    BY <1>6, <2>1, <2>2
  <2>4. QED
    BY <2>3, Bilan
<1>8. /\ Occupe(Producteurs) /\ ~Occupe(Producteurs)'
      /\ Occupe(Consommateurs)' = Occupe(Consommateurs)
  BY <1>1, Seul, ThreadsFinis DEF Occupe, Critique
<1>9. /\ Tete = Precedent(index_ecriture) /\ Tete' = index_ecriture
      /\ Queue' = Queue /\ EnAttente' = EnAttente + 1
  BY <1>6, <1>8 DEF Tete, Queue, EnAttente
<1>10. /\ Tete \in Cases /\ Queue \in Cases /\ Tete' = Suivant(Tete) /\ j[t] = Tete
       /\ EnAttente \in 0 .. TAILLE_MAX - 1
  BY <1>1, <1>8, <1>9, TeteQueue, Bornes, Anneau DEF CasesCoherentes
<1>11. CasesCoherentes'
  <2>1. \A u \in Producteurs : pc'[u] # "acces"
    BY <1>8 DEF Occupe
  <2>2. \A u \in Consommateurs : j'[u] = j[u] /\ pc'[u] = pc[u]
    BY <1>1, ThreadsFinis
  <2>3. QED
    BY <1>9, <2>1, <2>2 DEF CasesCoherentes
<1>12. RingCoherent'
  <2>1. Tete = Apres(Queue, EnAttente)
    BY DEF RingCoherent
  <2>2. Tete' = Apres(Queue, EnAttente + 1)
    <3>1. \A e \in 0 .. TAILLE_MAX - 1 : Apres(Queue, e + 1) = Suivant(Apres(Queue, e))
      BY <1>10, Anneau
    <3>2. QED
      BY <1>10, <2>1, <3>1
  <2>3. ASSUME NEW d \in 0 .. EnAttente
        PROVE  liste'[Apres(Queue, d)] = produits'[Len(consommes) + 1 + d]
    <3>1. Apres(Queue, d) \in Cases
      <4>1. \A e \in 0 .. TAILLE_MAX : Apres(Queue, e) \in Cases
        BY <1>10, Anneau
      <4>2. QED
        BY <1>10, <4>1
    <3>2. CASE d = EnAttente
      <4>1. liste'[Tete] = <<t, k[t]>>
        BY <1>1, <1>10
      <4>2. Len(consommes) + 1 + d = Len(produits) + 1
        BY <1>6, <3>2 DEF EnAttente
      <4>3. QED
        BY <1>6, <2>1, <3>2, <4>1, <4>2
    <3>3. CASE d # EnAttente
      <4>1. d \in 0 .. EnAttente - 1 /\ d \in 0 .. TAILLE_MAX - 1 /\ EnAttente \in 0 .. TAILLE_MAX - 1
        BY <1>10, <3>3
      <4>2. Apres(Queue, d) # Tete
        <5>1. \A c, e \in 0 .. TAILLE_MAX - 1 : c # e => Apres(Queue, c) # Apres(Queue, e)
          BY <1>10, Anneau
        <5>2. QED
          BY <2>1, <3>3, <4>1, <5>1
      <4>3. liste'[Apres(Queue, d)] = liste[Apres(Queue, d)]
        BY <1>1, <1>10, <3>1, <4>2
      <4>4. liste[Apres(Queue, d)] = produits[Len(consommes) + 1 + d]
        BY <4>1 DEF RingCoherent
      <4>5. Len(consommes) + 1 + d \in 1 .. Len(produits)
        BY <1>6, <4>1 DEF EnAttente
      <4>6. QED
        BY <1>6, <4>3, <4>4, <4>5
    <3>4. QED
      BY <3>2, <3>3
  <2>4. (EnAttente + 1) - 1 = EnAttente
    BY <1>10
  <2>5. QED
    BY <1>6, <1>9, <2>2, <2>3, <2>4 DEF RingCoherent
<1>13. QED
  BY <1>2, <1>3, <1>4, <1>5, <1>7, <1>11, <1>12

\* A consumer always reads the oldest datum that waits, never a slot that a
\* producer is writing.
LEMMA LireOrdonne ==
    ASSUME IInv, NEW t \in Consommateurs, Lire(t, "deverrou")
    PROVE  /\ j[t] = Queue /\ Queue = Precedent(index_lecture)
           /\ EnAttente \in 1 .. TAILLE_MAX
           /\ Len(consommes) + 1 \in 1 .. Len(produits)
           /\ consommes' = Append(consommes, produits[Len(consommes) + 1])
<1>1. /\ t \in Threads /\ pc[t] = "acces"
      /\ Occupe(Consommateurs) /\ j[t] = Queue /\ Queue = Precedent(index_lecture)
  BY ThreadsFinis DEF IInv, Lire, Occupe, CasesCoherentes, Queue
<1>2. /\ EnAttente \in 1 .. TAILLE_MAX /\ Len(produits) \in Nat /\ Len(consommes) \in Nat
      /\ Queue \in Cases
  BY <1>1, Bornes, TeteQueue
<1>3. \A p \in Producteurs : pc[p] = "acces" => j[p] # Queue
  BY <1>1, TeteQueue DEF IInv, CasesCoherentes, Occupe
<1>4. Lisible(j[t]) = {liste[Queue]}
  BY <1>1, <1>3 DEF Lisible
<1>5. liste[Queue] = produits[Len(consommes) + 1]
  <2>1. liste[Apres(Queue, 0)] = produits[Len(consommes) + 1 + 0]
    BY <1>2 DEF IInv, RingCoherent
  <2>2. QED
    BY <1>2, <2>1, Anneau
<1>6. Len(consommes) + 1 \in 1 .. Len(produits)
  BY <1>2 DEF EnAttente
<1>7. QED
  BY <1>1, <1>2, <1>4, <1>5, <1>6 DEF Lire

LEMMA LireIInv ==
    ASSUME IInv, NEW t \in Consommateurs, Lire(t, "deverrou"), UNCHANGED <<varsSem, varsMutex>>
    PROVE  IInv'
<1> USE DEF IInv, Aller, varsMain, varsSem, varsMutex
<1>1. /\ t \in Threads /\ t \notin Producteurs
      /\ pc[t] = "acces" /\ pc' = [pc EXCEPT ![t] = "deverrou"] /\ pc \in [Threads -> Points]
      /\ UNCHANGED <<index_ecriture, index_lecture, liste, varsMain, k, j, produits>>
      /\ index_lecture \in Cases
  BY ThreadsFinis DEF TypeOK, TypeOKTampon, Lire
<1>2. /\ Len(produits) \in Nat /\ Len(consommes) \in Nat
      /\ consommes' \in Seq(Donnees \cup {Vide, Melange})
      /\ Len(consommes') = Len(consommes) + 1
  <2>1. produits[Len(consommes) + 1] \in Donnees
    BY LireOrdonne DEF TypeOK, TypeOKTampon
  <2>2. /\ consommes' = Append(consommes, produits[Len(consommes) + 1])
        /\ consommes \in Seq(Donnees \cup {Vide, Melange}) /\ produits \in Seq(Donnees)
    BY LireOrdonne DEF TypeOK, TypeOKTampon
  <2> HIDE DEF IInv
  <2>3. QED
    BY <2>1, <2>2
<1>3. TypeOK'
  <2>1. pc' \in [Threads -> Points]
    BY <1>1 DEF Points
  <2>2. QED
    BY <1>1, <1>2, <2>1 DEF TypeOK, TypeOKTampon
<1>4. VerrousCoherents'
  BY <1>1, ThreadsFinis DEF VerrousCoherents, Critique
<1>5. QuotasCoherents'
  BY <1>1 DEF QuotasCoherents, Reserve, Rend
<1>6. PhasesCoherentes'
  BY <1>1, PhasesThread
<1>7. BilanSemaphores'
  <2>1. /\ NbPR \in Nat /\ NbPD \in Nat /\ NbCR \in Nat /\ NbCD \in Nat
        /\ NbPR' = NbPR /\ NbPD' = NbPD /\ NbCR' = NbCR - 1 /\ NbCD' = NbCD + 1
    BY <1>1, NombresAcces
  <2>2. /\ empty = TAILLE_MAX - (Len(produits) + NbPR) + (Len(consommes) - NbCD)
        /\ full = (Len(produits) - NbPD) - (Len(consommes) + NbCR)
        /\ empty' = empty /\ full' = full /\ produits' = produits
    BY <1>1, Bilan
  <2> HIDE DEF IInv
  <2>3. /\ empty' = TAILLE_MAX - (Len(produits') + NbPR') + (Len(consommes') - NbCD')
        /\ full' = (Len(produits') - NbPD') - (Len(consommes') + NbCR')
    BY <1>2, <2>1, <2>2
  <2>4. QED
    BY <2>3, Bilan
<1>8. /\ Occupe(Consommateurs) /\ ~Occupe(Consommateurs)'
      /\ Occupe(Producteurs)' = Occupe(Producteurs)
  BY <1>1, Seul, ThreadsFinis DEF Occupe, Critique
<1>9. /\ Queue' = index_lecture /\ Tete' = Tete /\ EnAttente' = EnAttente - 1
  BY <1>1, <1>2, <1>8 DEF Tete, Queue, EnAttente
<1>10. Queue \in Cases /\ Queue' = Suivant(Queue) /\ EnAttente \in 1 .. TAILLE_MAX
  BY <1>1, <1>9, LireOrdonne, TeteQueue, Anneau
<1>11. CasesCoherentes'
  <2>1. \A u \in Consommateurs : pc'[u] # "acces"
    BY <1>8 DEF Occupe
  <2>2. \A u \in Producteurs : j'[u] = j[u] /\ pc'[u] = pc[u]
    BY <1>1, ThreadsFinis
  <2>3. QED
    BY <1>9, <2>1, <2>2 DEF CasesCoherentes
<1>12. RingCoherent'
  <2>1. Tete' = Apres(Queue', EnAttente')
    <3>1. EnAttente - 1 \in 0 .. TAILLE_MAX - 1 /\ EnAttente = (EnAttente - 1) + 1
      BY <1>10
    <3>2. Apres(Suivant(Queue), EnAttente - 1) = Apres(Queue, EnAttente)
      BY <1>10, <3>1, Anneau
    <3>3. QED
      BY <1>9, <1>10, <3>2 DEF RingCoherent
  <2>2. ASSUME NEW d \in 0 .. EnAttente - 2
        PROVE  liste[Apres(Queue', d)] = produits[Len(consommes) + 1 + 1 + d]
    <3>1. d \in 0 .. TAILLE_MAX - 1 /\ d + 1 \in 0 .. EnAttente - 1
      BY <1>10
    <3>2. Apres(Queue', d) = Apres(Queue, d + 1)
      BY <1>10, <3>1, Anneau
    <3>3. liste[Apres(Queue, d + 1)] = produits[Len(consommes) + 1 + (d + 1)]
      BY <3>1 DEF RingCoherent
    <3>4. Len(consommes) + 1 + (d + 1) = Len(consommes) + 1 + 1 + d
      BY <1>2, <3>1
    <3>5. QED
      BY <3>2, <3>3, <3>4
  <2>3. (EnAttente - 1) - 1 = EnAttente - 2
    BY <1>10
  <2>4. QED
    BY <1>1, <1>2, <1>9, <2>1, <2>2, <2>3 DEF RingCoherent
<1>13. QED
  BY <1>3, <1>4, <1>5, <1>6, <1>7, <1>11, <1>12

LEMMA NextIInv == IInv /\ [Next]_vars => IInv'
<1> SUFFICES ASSUME IInv, [Next]_vars PROVE IInv'
  OBVIOUS
<1>1. CASE main
  BY <1>1, CreerIInv, JoindreIInv, AfficherIInv DEF main
<1>2. ASSUME NEW t \in Producteurs, producteur(t) PROVE IInv'
  <2> t \in Threads
    BY ThreadsFinis
  <2>1. CASE sem_wait(empty, t) /\ UNCHANGED full
    BY <2>1, AttendreIInv
  <2>2. CASE Verrouiller(mutex_prod, t) /\ UNCHANGED mutex_cons
    BY <2>2, VerrouillerIInv
  <2>3. CASE ReserverEcriture(t) /\ UNCHANGED <<varsSem, varsMutex>>
    BY <2>3, ReserverEcritureIInv
  <2>4. CASE Ecrire(t, "deverrou") /\ UNCHANGED <<varsSem, varsMutex>>
    BY <2>4, EcrireIInv
  <2>5. CASE Deverrouiller(mutex_prod, t) /\ UNCHANGED mutex_cons
    BY <2>5, DeverrouillerIInv
  <2>6. CASE sem_post(full, t) /\ UNCHANGED empty
    BY <2>6, SignalerIInv
  <2>7. QED
    BY <1>2, <2>1, <2>2, <2>3, <2>4, <2>5, <2>6 DEF producteur
<1>3. ASSUME NEW t \in Consommateurs, consommateur(t) PROVE IInv'
  <2> t \in Threads
    BY ThreadsFinis
  <2>1. CASE sem_wait(full, t) /\ UNCHANGED empty
    BY <2>1, AttendreIInv
  <2>2. CASE Verrouiller(mutex_cons, t) /\ UNCHANGED mutex_prod
    BY <2>2, VerrouillerIInv
  <2>3. CASE ReserverLecture(t) /\ UNCHANGED <<varsSem, varsMutex>>
    BY <2>3, ReserverLectureIInv
  <2>4. CASE Lire(t, "deverrou") /\ UNCHANGED <<varsSem, varsMutex>>
    BY <2>4, LireIInv
  <2>5. CASE Deverrouiller(mutex_cons, t) /\ UNCHANGED mutex_prod
    BY <2>5, DeverrouillerIInv
  <2>6. CASE sem_post(empty, t) /\ UNCHANGED full
    BY <2>6, SignalerIInv
  <2>7. QED
    BY <1>3, <2>1, <2>2, <2>3, <2>4, <2>5, <2>6 DEF consommateur
<1>4. CASE UNCHANGED vars
  <2> USE <1>4 DEF vars, varsTampon, varsSem, varsMutex, IInv
  <2>1. TypeOK' /\ VerrousCoherents' /\ QuotasCoherents' /\ PhasesCoherentes'
    BY DEF TypeOK, TypeOKTampon, VerrousCoherents, QuotasCoherents, PhasesCoherentes
  <2>2. BilanSemaphores'
    BY DEF BilanSemaphores, Parmi
  <2>3. CasesCoherentes' /\ RingCoherent'
    BY RingInchange
  <2>4. QED
    BY <2>1, <2>2, <2>3
<1>5. QED
  BY <1>1, <1>2, <1>3, <1>4 DEF Next, Termine

LEMMA SpecIInv == Spec => []IInv
<1>1. Init => IInv
  BY InitIInv
<1>2. IInv /\ [Next]_vars => IInv'
  BY NextIInv
<1>3. QED
  BY <1>1, <1>2, PTL DEF Spec

-----------------------------------------------------------------------------
(* The theorems.                                                            *)

\* produc_conso.c: every variable keeps its type; no index leaves the array
\* and no semaphore would become negative.
THEOREM TypeCorrect == Spec => []TypeOK
<1>1. IInv => TypeOK
  BY DEF IInv
<1>2. QED
  BY <1>1, SpecIInv, PTL

\* Each mutex of produc_conso.c is held exactly by the thread that is between
\* its lock and its unlock.
THEOREM ExclusionMutuelle == Spec => []VerrousCoherents
<1>1. IInv => VerrousCoherents
  BY DEF IInv
<1>2. QED
  BY <1>1, SpecIInv, PTL

\* Both together, as the run states them: types and mutexes, for every number of
\* threads, data and slots.
THEOREM EtatExact == Spec => []EtatCoherent
BY TypeCorrect, ExclusionMutuelle, PTL DEF EtatCoherent

\* Two mutexes and two semaphores are enough: a slot that a producer writes is
\* neither written nor read by another thread, for any numbers of both and any
\* size of the array.
THEOREM CaseExclusive == Spec => []AccesExclusif
<1>1. ASSUME IInv PROVE AccesExclusif
  <2> SUFFICES ASSUME NEW t \in Producteurs, NEW u \in Threads,
                      t # u, pc[t] = "acces", pc[u] = "acces"
               PROVE  j[t] # j[u]
    BY DEF AccesExclusif
  <2>1. u \in Consommateurs
    BY <1>1, Seul, ThreadsFinis DEF Critique, Threads
  <2>2. j[t] = Tete /\ j[u] = Queue
    BY <1>1, <2>1 DEF IInv, CasesCoherentes
  <2>3. QED
    BY <1>1, <2>1, <2>2, TeteQueue DEF Occupe
<1>2. QED
  BY <1>1, SpecIInv, PTL

\* The semaphores of produc_conso.c count the free and the full slots, less
\* what the threads have reserved and not given back.
THEOREM SemaphoresExacts == Spec => []BilanSemaphores
<1>1. IInv => BilanSemaphores
  BY DEF IInv
<1>2. QED
  BY <1>1, SpecIInv, PTL

\* A step of the program is a step of the bounded queue, or leaves it alone.
LEMMA PasFile ==
    ASSUME IInv, [Next]_vars
    PROVE  [File!Deposer \/ File!Retirer]_File!vars
<1> USE DEF File!vars
<1>1. CASE main
  BY <1>1 DEF main, Creer, Joindre, Afficher, varsSortie
<1>2. ASSUME NEW t \in Producteurs, producteur(t)
      PROVE  File!Deposer \/ UNCHANGED File!vars
  <2>1. CASE Ecrire(t, "deverrou")
    <3>1. pc[t] = "acces" /\ t \in Threads
      BY <2>1, ThreadsFinis DEF Ecrire
    <3>2. <<t, k[t]>> \in Donnees
      BY <3>1 DEF IInv, TypeOK, TypeOKTampon, QuotasCoherents, Reserve, Quota, Donnees
    <3>3. Len(produits) - Len(consommes) < TAILLE_MAX
      BY <3>1, Bornes DEF Occupe, EnAttente
    <3>4. produits' = Append(produits, <<t, k[t]>>) /\ UNCHANGED consommes
      BY <2>1 DEF Ecrire
    <3>5. QED
      BY <3>2, <3>3, <3>4 DEF File!Deposer
  <2>2. CASE ~Ecrire(t, "deverrou")
    BY <1>2, <2>2 DEF producteur, sem_wait, Verrouiller, ReserverEcriture, Deverrouiller,
                      sem_post, varsSortie
  <2>3. QED
    BY <2>1, <2>2
<1>3. ASSUME NEW t \in Consommateurs, consommateur(t)
      PROVE  File!Retirer \/ UNCHANGED File!vars
  <2>1. CASE Lire(t, "deverrou")
    <3>1. /\ Len(consommes) + 1 \in 1 .. Len(produits)
          /\ consommes' = Append(consommes, produits[Len(consommes) + 1])
      BY <2>1, LireOrdonne
    <3>2. UNCHANGED produits /\ Len(consommes) \in Nat /\ Len(produits) \in Nat
      BY <2>1, Bornes DEF Lire
    <3>3. QED
      BY <3>1, <3>2 DEF File!Retirer
  <2>2. CASE ~Lire(t, "deverrou")
    BY <1>3, <2>2 DEF consommateur, sem_wait, Verrouiller, ReserverLecture, Deverrouiller,
                      sem_post, varsSortie
  <2>3. QED
    BY <2>1, <2>2
<1>4. CASE UNCHANGED vars
  BY <1>4 DEF vars, varsTampon
<1>5. QED
  BY <1>1, <1>2, <1>3, <1>4 DEF Next, Termine

\* produc_conso.c implements the bounded queue: what the consumers print is
\* what the producers printed, in the same order, each datum once.
THEOREM Raffinement == Spec => RaffineFile
<1>1. Init => File!Init
  BY DEF Init, InitTampon, File!Init
<1>2. IInv /\ [Next]_vars => [File!Deposer \/ File!Retirer]_File!vars
  BY PasFile
<1>3. QED
  BY <1>1, <1>2, SpecIInv, PTL DEF Spec, RaffineFile, File!Spec
-----------------------------------------------------------------------------
(* The final values.                                                        *)

\* How many slots the thread has used.
Fait(t) == k[t] + (IF pc[t] \in Rend THEN 1 ELSE 0)

\* All the uses of a slot by the threads of S: <<t, n>> is the one that t makes in
\* the iteration n of its loop.
Usages(S) == {d \in S \X (0 .. TOTALDONNEE) : d[2] < Fait(d[1])}

\* Every use prints one line, the consumers print what the producers printed,
\* and a thread leaves its loop when it has reached its quota.
ComptesCoherents ==
    /\ Len(produits) = Cardinality(Usages(Producteurs))
    /\ Len(consommes) = Cardinality(Usages(Consommateurs))
    /\ \A n \in 1 .. Len(consommes) : consommes[n] = produits[n]
    /\ \A t \in Threads : pc[t] = "sorti" => k[t] = Quota(t)

\* The arithmetic of the quotas.
LEMMA Fois ==
    ASSUME NEW a \in Int, NEW b \in Int, NEW c \in Nat, a < b
    PROVE  a * c + c <= b * c
<1>1. (a + 1) * c = a * c + c
  OBVIOUS
<1>2. (b - (a + 1)) * c >= 0
  OBVIOUS
<1>3. (b - (a + 1)) * c = b * c - (a + 1) * c
  OBVIOUS
<1>4. QED
  BY <1>1, <1>2, <1>3

LEMMA DivisionEuclidienne ==
    ASSUME NEW m \in Nat, NEW c \in Nat \ {0}
    PROVE  /\ m = ((m \div c) * c) + (m % c)
           /\ m % c \in 0 .. c - 1 /\ m \div c \in Nat
OBVIOUS

LEMMA DivisionUnique ==
    ASSUME NEW a \in Nat, NEW b \in Nat, NEW c \in Nat \ {0},
           NEW r \in 0 .. c - 1, NEW s \in 0 .. c - 1, a * c + r = b * c + s
    PROVE  a = b /\ r = s
<1>1. ~(a < b) /\ ~(b < a)
  BY Fois
<1>2. QED
  BY <1>1

\* One consumer in each iteration while the quotient lasts, then one datum more
\* for the consumers whose number is below the remainder.
LEMMA Partage ==
    ASSUME NEW n \in Nat, NEW q \in Nat, NEW c \in Nat \ {0},
           NEW r \in 0 .. c - 1, NEW x \in 0 .. c - 1
    PROVE  n < q + (IF r > x THEN 1 ELSE 0) <=> n * c + x < q * c + r
<1>0. n * c \in Int /\ q * c \in Int
  OBVIOUS
<1>1. CASE n < q
  BY <1>0, <1>1, Fois
<1>2. CASE n = q
  BY <1>0, <1>2
<1>3. CASE n > q
  BY <1>0, <1>3, Fois
<1>4. QED
  BY <1>1, <1>2, <1>3

LEMMA TotalType ==
    /\ TOTALDONNEE \in Nat /\ IsFiniteSet(0 .. TOTALDONNEE)
    /\ \A t \in Threads : Quota(t) <= TOTALDONNEE + 1
<1>1. TOTALDONNEE \in Nat
  BY DEF TOTALDONNEE
<1>2. ASSUME NEW t \in Threads PROVE Quota(t) <= TOTALDONNEE + 1
  <2>1. CASE t \in Producteurs
    <3>1. 0 * MAXDONNEE + MAXDONNEE <= nombre_produ * MAXDONNEE
      BY Fois
    <3>2. MAXDONNEE <= TOTALDONNEE
      BY <3>1 DEF TOTALDONNEE
    <3>3. QED
      BY <1>1, <2>1, <3>2 DEF Quota
  <2>2. CASE t \notin Producteurs
    <3>1. TOTALDONNEE \div nombre_conso <= TOTALDONNEE
      BY <1>1
    <3>2. QED
      BY <1>1, <2>2, <3>1 DEF Quota
  <2>3. QED
    BY <2>1, <2>2
<1>3. QED
  BY <1>1, <1>2, FS_Interval

LEMMA UsagesFinis ==
    ASSUME NEW S, S \subseteq Threads, IsFiniteSet(S)
    PROVE  IsFiniteSet(Usages(S)) /\ Cardinality(Usages(S)) \in Nat
<1>1. IsFiniteSet(S \X (0 .. TOTALDONNEE))
  BY FS_Product, TotalType
<1>2. Usages(S) \in SUBSET (S \X (0 .. TOTALDONNEE))
  BY DEF Usages
<1>3. QED
  BY <1>1, <1>2, FS_Subset, FS_CardinalityType

\* A step that is not an access to the slot.
LEMMA UsagesInchanges ==
    ASSUME NEW S, \A u \in S : Fait(u)' = Fait(u)
    PROVE  Usages(S)' = Usages(S)
BY DEF Usages

\* An access to the slot.
LEMMA UsagesAcces ==
    ASSUME NEW S, S \subseteq Threads, IsFiniteSet(S), NEW t \in S,
           k[t] \in 0 .. TOTALDONNEE, Fait(t) = k[t], Fait(t)' = k[t] + 1,
           \A u \in S : u # t => Fait(u)' = Fait(u)
    PROVE  Cardinality(Usages(S)') = Cardinality(Usages(S)) + 1
<1>1. Usages(S)' = Usages(S) \cup {<<t, k[t]>>}
  <2>1. ASSUME NEW d \in S \X (0 .. TOTALDONNEE)
        PROVE  d[2] < Fait(d[1])' <=> d[2] < Fait(d[1]) \/ d = <<t, k[t]>>
    <3>1. CASE d[1] = t
      BY <3>1
    <3>2. CASE d[1] # t
      BY <3>2
    <3>3. QED
      BY <3>1, <3>2
  <2>2. <<t, k[t]>> \in S \X (0 .. TOTALDONNEE)
    OBVIOUS
  <2>3. Usages(S)' = {d \in S \X (0 .. TOTALDONNEE) : d[2] < Fait(d[1])'}
    BY DEF Usages
  <2>4. QED
    BY <2>1, <2>2, <2>3 DEF Usages
<1>2. <<t, k[t]>> \notin Usages(S)
  BY DEF Usages
<1>3. QED
  BY <1>1, <1>2, UsagesFinis, FS_AddElement

LEMMA InitComptes == Init => ComptesCoherents
<1> SUFFICES ASSUME Init PROVE ComptesCoherents
  OBVIOUS
<1>1. \A t \in Threads : Fait(t) = 0
  BY DEF Init, InitTampon, Fait, Rend
<1>2. Usages(Producteurs) = {} /\ Usages(Consommateurs) = {}
  <2>1. ASSUME NEW S, S \subseteq Threads PROVE Usages(S) = {}
    <3> SUFFICES ASSUME NEW d \in S \X (0 .. TOTALDONNEE), d[2] < Fait(d[1]) PROVE FALSE
      BY DEF Usages
    <3>1. Fait(d[1]) = 0 /\ d[2] \in 0 .. TOTALDONNEE
      BY <1>1, <2>1
    <3>2. QED
      BY <3>1, TotalType
  <2>2. QED
    BY <2>1, ThreadsFinis
<1>3. QED
  BY <1>2, FS_EmptySet DEF Init, InitTampon, ComptesCoherents

\* A step that neither prints nor ends a loop.
LEMMA ComptesInchanges ==
    ASSUME ComptesCoherents, UNCHANGED <<k, produits, consommes>>,
           \A u \in Threads : /\ pc'[u] \in Rend <=> pc[u] \in Rend
                              /\ pc'[u] = "sorti" => pc[u] = "sorti"
    PROVE  ComptesCoherents'
<1>1. \A u \in Threads : Fait(u)' = Fait(u)
  BY DEF Fait
<1>2. /\ Usages(Producteurs)' = Usages(Producteurs)
      /\ Usages(Consommateurs)' = Usages(Consommateurs)
  BY <1>1, ThreadsFinis, UsagesInchanges
<1>3. QED
  BY <1>2 DEF ComptesCoherents

\* main lets a thread start; it leaves at once if its quota is zero.
LEMMA CreerComptes ==
    ASSUME IInv, ComptesCoherents, Creer
    PROVE  ComptesCoherents'
<1> USE DEF Creer, Aller, varsSortie
<1>0. i \in Threads /\ pc \in [Threads -> Points] /\ phase = "creer" /\ i >= i
  BY ThreadsFinis DEF IInv, TypeOK, TypeOKTampon, Iteration
<1>1. pc[i] = "absent" /\ k[i] = 0 /\ Quota(i) \in Nat
  BY <1>0, QuotaType DEF IInv, PhasesCoherentes, QuotasCoherents
<1>2. \A u \in Threads : Fait(u)' = Fait(u)
  BY <1>0, <1>1 DEF Fait, Boucle, Rend
<1>3. /\ Usages(Producteurs)' = Usages(Producteurs)
      /\ Usages(Consommateurs)' = Usages(Consommateurs)
  BY <1>2, ThreadsFinis, UsagesInchanges
<1>4. ASSUME NEW u \in Threads, pc'[u] = "sorti" PROVE k[u] = Quota(u)
  BY <1>0, <1>1, <1>4 DEF Boucle, ComptesCoherents
<1>5. QED
  BY <1>3, <1>4 DEF ComptesCoherents

\* The post ends the iteration: the use of the slot is now counted by k.
LEMMA SignalerComptes ==
    ASSUME IInv, ComptesCoherents, NEW t \in Threads, pc[t] = "signaler",
           Reboucler(t), UNCHANGED <<produits, consommes>>
    PROVE  ComptesCoherents'
<1> USE DEF Reboucler, Aller
<1>1. /\ pc \in [Threads -> Points] /\ k \in [Threads -> Nat]
      /\ k[t] < Quota(t) /\ Quota(t) \in Nat
  BY QuotaType DEF IInv, TypeOK, TypeOKTampon, QuotasCoherents, Rend
<1>2. \A u \in Threads : Fait(u)' = Fait(u)
  BY <1>1 DEF Fait, Boucle, Rend
<1>3. /\ Usages(Producteurs)' = Usages(Producteurs)
      /\ Usages(Consommateurs)' = Usages(Consommateurs)
  BY <1>2, ThreadsFinis, UsagesInchanges
<1>4. ASSUME NEW u \in Threads, pc'[u] = "sorti" PROVE k'[u] = Quota(u)
  BY <1>1, <1>4 DEF Boucle, ComptesCoherents
<1>5. QED
  BY <1>3, <1>4 DEF ComptesCoherents

\* The line that an access prints is counted as a use of the slot.
LEMMA AccesComptes ==
    ASSUME IInv, NEW t \in Threads, pc[t] = "acces", Aller(t, "deverrou"), UNCHANGED k
    PROVE  /\ t \in Producteurs =>
                  /\ Cardinality(Usages(Producteurs)') = Cardinality(Usages(Producteurs)) + 1
                  /\ Usages(Consommateurs)' = Usages(Consommateurs)
           /\ t \in Consommateurs =>
                  /\ Cardinality(Usages(Consommateurs)') = Cardinality(Usages(Consommateurs)) + 1
                  /\ Usages(Producteurs)' = Usages(Producteurs)
<1>1. /\ pc \in [Threads -> Points] /\ k[t] \in Nat /\ k[t] < Quota(t) /\ Quota(t) \in Nat
  BY QuotaType DEF IInv, TypeOK, TypeOKTampon, QuotasCoherents, Reserve
<1>2. k[t] \in 0 .. TOTALDONNEE
  BY <1>1, TotalType
<1>3. /\ Fait(t) = k[t] /\ Fait(t)' = k[t] + 1
      /\ \A u \in Threads : u # t => Fait(u)' = Fait(u)
  BY <1>1 DEF Fait, Aller, Rend
<1>4. QED
  BY <1>2, <1>3, ThreadsFinis, UsagesAcces, UsagesInchanges

LEMMA NextComptes == IInv /\ ComptesCoherents /\ [Next]_vars => ComptesCoherents'
<1> SUFFICES ASSUME IInv, ComptesCoherents, [Next]_vars PROVE ComptesCoherents'
  OBVIOUS
<1>0. /\ pc \in [Threads -> Points]
      /\ produits \in Seq(Donnees) /\ consommes \in Seq(Donnees \cup {Vide, Melange})
      /\ Len(produits) \in Nat /\ Len(consommes) \in Nat
  BY DEF IInv, TypeOK, TypeOKTampon
<1>1. CASE main
  BY <1>1, CreerComptes, ComptesInchanges DEF main, Joindre, Afficher, varsSortie
<1>2. ASSUME NEW t \in Threads,
             \/ t \in Producteurs /\ producteur(t) /\ ~Ecrire(t, "deverrou")
             \/ t \in Consommateurs /\ consommateur(t) /\ ~Lire(t, "deverrou")
      PROVE  ComptesCoherents'
  <2>1. CASE pc[t] = "signaler"
    BY <1>2, <2>1, SignalerComptes
       DEF producteur, consommateur, sem_wait, Verrouiller, ReserverEcriture,
           ReserverLecture, Deverrouiller, sem_post, varsSortie
  <2>2. CASE pc[t] # "signaler"
    BY <1>0, <1>2, <2>2, ComptesInchanges
       DEF producteur, consommateur, sem_wait, Verrouiller, ReserverEcriture,
           ReserverLecture, Deverrouiller, sem_post, varsSortie, Aller, Rend
  <2>3. QED
    BY <2>1, <2>2
<1>3. ASSUME NEW t \in Producteurs, Ecrire(t, "deverrou") PROVE ComptesCoherents'
  <2>1. /\ t \in Threads /\ pc[t] = "acces" /\ Aller(t, "deverrou") /\ UNCHANGED <<k, consommes>>
        /\ produits' = Append(produits, <<t, k[t]>>)
    BY <1>3, ThreadsFinis DEF Ecrire
  <2>2. /\ Cardinality(Usages(Producteurs)') = Cardinality(Usages(Producteurs)) + 1
        /\ Usages(Consommateurs)' = Usages(Consommateurs)
    BY <2>1, AccesComptes
  <2>3. Len(produits') = Len(produits) + 1 /\ \A n \in 1 .. Len(produits) : produits'[n] = produits[n]
    BY <1>0, <2>1
  <2>4. Len(consommes) <= Len(produits)
    BY Bornes DEF EnAttente
  <2>5. \A u \in Threads : pc'[u] = "sorti" => pc[u] = "sorti"
    BY <1>0, <2>1 DEF Aller
  <2>6. QED
    BY <1>0, <2>1, <2>2, <2>3, <2>4, <2>5 DEF ComptesCoherents
<1>4. ASSUME NEW t \in Consommateurs, Lire(t, "deverrou") PROVE ComptesCoherents'
  <2>1. /\ t \in Threads /\ pc[t] = "acces" /\ Aller(t, "deverrou") /\ UNCHANGED <<k, produits>>
        /\ consommes' = Append(consommes, produits[Len(consommes) + 1])
    BY <1>4, ThreadsFinis, LireOrdonne DEF Lire
  <2>2. /\ Cardinality(Usages(Consommateurs)') = Cardinality(Usages(Consommateurs)) + 1
        /\ Usages(Producteurs)' = Usages(Producteurs)
    BY <2>1, AccesComptes
  <2>3. Len(consommes') = Len(consommes) + 1
    BY <1>0, <2>1
  <2>4. \A n \in 1 .. Len(consommes) + 1 : consommes'[n] = produits[n]
    BY <1>0, <2>1 DEF ComptesCoherents
  <2>5. \A u \in Threads : pc'[u] = "sorti" => pc[u] = "sorti"
    BY <1>0, <2>1 DEF Aller
  <2>6. QED
    BY <2>1, <2>2, <2>3, <2>4, <2>5 DEF ComptesCoherents
<1>5. CASE UNCHANGED vars
  BY <1>5, ComptesInchanges DEF vars, varsTampon
<1>6. QED
  BY <1>1, <1>2, <1>3, <1>4, <1>5, ThreadsFinis DEF Next, Termine

\* The quotas of the producers, and those of the consumers, add up to TOTALDONNEE.
LEMMA QuotasProducteurs ==
    ASSUME \A t \in Producteurs : Fait(t) = Quota(t)
    PROVE  Cardinality(Usages(Producteurs)) = TOTALDONNEE
<1>1. Usages(Producteurs) = Producteurs \X (0 .. MAXDONNEE - 1)
  <2>1. \A t \in Producteurs : Fait(t) = MAXDONNEE /\ MAXDONNEE <= TOTALDONNEE + 1
    BY TotalType, ThreadsFinis DEF Quota
  <2>2. QED
    BY <2>1, TotalType DEF Usages
<1>2. /\ IsFiniteSet(Producteurs) /\ Cardinality(Producteurs) = nombre_produ
      /\ IsFiniteSet(0 .. MAXDONNEE - 1) /\ Cardinality(0 .. MAXDONNEE - 1) = MAXDONNEE
  BY FS_Interval DEF Producteurs
<1>3. QED
  BY <1>1, <1>2, FS_Product DEF TOTALDONNEE

LEMMA QuotasConsommateurs ==
    ASSUME \A t \in Consommateurs : Fait(t) = Quota(t)
    PROVE  Cardinality(Usages(Consommateurs)) = TOTALDONNEE
<1> DEFINE C == nombre_conso
           q == TOTALDONNEE \div C
           r == TOTALDONNEE % C
           U == {d \in Consommateurs \X (0 .. TOTALDONNEE) : d[2] < Quota(d[1])}
           rang(d) == d[2] * C + (d[1] - nombre_produ)
           f == [d \in U |-> rang(d)]
<1>1. /\ C \in Nat \ {0} /\ TOTALDONNEE \in Nat
      /\ TOTALDONNEE = q * C + r /\ r \in 0 .. C - 1 /\ q \in Nat
  BY DivisionEuclidienne, TotalType
<1>2. ASSUME NEW t \in Consommateurs
      PROVE  /\ t - nombre_produ \in 0 .. C - 1
             /\ Quota(t) = q + (IF r > t - nombre_produ THEN 1 ELSE 0)
  <2>1. t \notin Producteurs
    BY ThreadsFinis
  <2>2. QED
    BY <2>1 DEF Quota, Consommateurs
<1>3. Usages(Consommateurs) = U
  BY DEF Usages
<1> HIDE DEF C, q, r
<1>4. ASSUME NEW d \in Consommateurs \X Nat
      PROVE  d[2] < Quota(d[1]) <=> rang(d) < TOTALDONNEE
  BY <1>1, <1>2, Partage
<1>5. \A d \in U : rang(d) \in 0 .. TOTALDONNEE - 1
  BY <1>1, <1>2, <1>4
<1>6. ASSUME NEW d \in U, NEW e \in U, rang(d) = rang(e) PROVE d = e
  <2>1. d[2] = e[2] /\ d[1] - nombre_produ = e[1] - nombre_produ
    BY <1>1, <1>2, <1>6, DivisionUnique
  <2>2. d[1] \in Int /\ e[1] \in Int
    BY DEF Consommateurs
  <2>3. QED
    BY <2>1, <2>2
<1>7. ASSUME NEW m \in 0 .. TOTALDONNEE - 1 PROVE \E d \in U : rang(d) = m
  <2> DEFINE d == <<nombre_produ + (m % C), m \div C>>
  <2>0. m \in Nat /\ C \in Nat \ {0}
    BY <1>1
  <2>1. m = ((m \div C) * C) + (m % C) /\ m % C \in 0 .. C - 1 /\ m \div C \in Nat
    BY <2>0, DivisionEuclidienne
  <2>2. d \in Consommateurs \X Nat /\ rang(d) = m
    BY <2>1 DEF Consommateurs, C
  <2>3. d[2] < Quota(d[1])
    BY <1>1, <1>4, <2>2
  <2>4. d[2] \in 0 .. TOTALDONNEE
    BY <1>1, <2>2, <2>3, TotalType, ThreadsFinis
  <2>5. QED
    BY <2>2, <2>3, <2>4
<1>8. f \in Bijection(U, 0 .. TOTALDONNEE - 1)
  <2>1. f \in Injection(U, 0 .. TOTALDONNEE - 1)
    BY <1>5, <1>6 DEF Injection, IsInjective
  <2>2. f \in Surjection(U, 0 .. TOTALDONNEE - 1)
    BY <1>5, <1>7 DEF Surjection
  <2>3. QED
    BY <2>1, <2>2 DEF Bijection
<1>9. IsFiniteSet(U)
  BY <1>3, UsagesFinis, ThreadsFinis
<1>10. Cardinality(0 .. TOTALDONNEE - 1) = TOTALDONNEE
  BY <1>1, FS_Interval
<1> HIDE DEF f
<1>11. ExistsBijection(U, 0 .. TOTALDONNEE - 1)
  BY <1>8 DEF ExistsBijection
<1>12. QED
  BY <1>3, <1>9, <1>10, <1>11, FS_Bijection

\* The comment before the last printf of produc_conso.c, for any numbers of
\* threads, data and slots, also when the consumers are not as many as the data
\* can be shared out evenly to: full ends at 0, empty at TAILLE_MAX, and what was
\* printed as consumed is what was printed as produced.
THEOREM ValeursFinalesExactes == Spec => []ValeursFinales
<1>1. ASSUME IInv, ComptesCoherents PROVE ValeursFinales
  <2> SUFFICES ASSUME phase \in {"afficher", "fini"}
               PROVE  /\ full = 0 /\ empty = TAILLE_MAX
                      /\ Len(consommes) = TOTALDONNEE /\ consommes = produits
    BY DEF ValeursFinales
  <2>1. \A t \in Threads : pc[t] = "sorti" /\ Fait(t) = Quota(t)
    <3>1. \A t \in Threads : pc[t] = "sorti" /\ k[t] = Quota(t) /\ k[t] \in Nat
      BY <1>1 DEF IInv, PhasesCoherentes, ComptesCoherents, TypeOK, TypeOKTampon
    <3>2. QED
      BY <3>1 DEF Fait, Rend
  <2>2. Len(produits) = TOTALDONNEE /\ Len(consommes) = TOTALDONNEE
    BY <1>1, <2>1, ThreadsFinis, QuotasProducteurs, QuotasConsommateurs DEF ComptesCoherents
  <2>3. consommes = produits
    <3>1. produits \in Seq(Donnees) /\ consommes \in Seq(Donnees \cup {Vide, Melange})
      BY <1>1 DEF IInv, TypeOK, TypeOKTampon
    <3>2. \A n \in 1 .. Len(produits) : consommes[n] = produits[n]
      BY <1>1, <2>2 DEF ComptesCoherents
    <3>3. QED
      BY <2>2, <3>1, <3>2
  <2>4. /\ Parmi(Producteurs, Reserve) = {} /\ Parmi(Producteurs, Rend) = {}
        /\ Parmi(Consommateurs, Reserve) = {} /\ Parmi(Consommateurs, Rend) = {}
    BY <2>1, ThreadsFinis DEF Parmi, Reserve, Rend
  <2>5. full = 0 /\ empty = TAILLE_MAX
    BY <1>1, <2>2, <2>4, FS_EmptySet, TotalType DEF IInv, BilanSemaphores
  <2>6. QED
    BY <2>2, <2>3, <2>5
<1>2. Spec => []ComptesCoherents
  BY InitComptes, NextComptes, SpecIInv, PTL DEF Spec
<1>3. QED
  BY <1>1, <1>2, SpecIInv, PTL
=============================================================================
