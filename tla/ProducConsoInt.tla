---------------------------- MODULE ProducConsoInt ----------------------------
(***************************************************************************)
(* produc_conso_int.c: no mutex at all.  The ring indices race like the     *)
(* counters: every load and every store of index_ecriture and of            *)
(* index_lecture is a step.  What ProducConsoMutex also has is named ...Int, *)
(* so that CompteursPartages_proofs can extend both.                        *)
(***************************************************************************)
EXTENDS CompteursPartages

VARIABLE chevauche
    \* Auxiliary, never read by an action: the indices that two threads have
    \* updated at the same time.

varsInt == <<vars0, chevauche>>

InitInt == InitCompteurs /\ chevauche = {}

mainInt == (Creer \/ Joindre \/ Afficher) /\ UNCHANGED <<varsCompteurs, chevauche>>

-----------------------------------------------------------------------------
\* The points of a thread that has read the index and not updated it yet.
MiseAJour == {"idx_lire", "idx_ecrire", "idx_tester", "idx_zero"}

\* int j = index
CopierIndex(index, nom, S, t) ==
    /\ pc[t] = "index"
    /\ j' = [j EXCEPT ![t] = index]
    /\ chevauche' = chevauche \cup {n \in {nom} : \E u \in S : pc[u] \in MiseAJour}
    /\ Aller(t, "idx_lire")
    /\ UNCHANGED <<index_ecriture, index_lecture, liste, varsMain, k, varsSortie,
                   varsCompteurs>>

inchangeSaufIndex ==
    UNCHANGED <<liste, varsMain, k, j, varsSortie, empty, full, chevauche>>

\* index++: the load,
ChargerIndex(index, t) ==
    /\ pc[t] = "idx_lire"
    /\ reg' = [reg EXCEPT ![t] = index]
    /\ Aller(t, "idx_ecrire")
    /\ inchangeSaufIndex /\ UNCHANGED <<index_ecriture, index_lecture>>

\* and the store.
RangerIndex(index, t) ==
    /\ pc[t] = "idx_ecrire"
    /\ index' = reg[t] + 1
    /\ Oublier(t)
    /\ Aller(t, "idx_tester")
    /\ inchangeSaufIndex

\* Mutant: the test comes one element too late.
TesterIndexTard(index, t) ==
    /\ pc[t] = "idx_tester"
    /\ Aller(t, IF index = TAILLE_MAX + 1 THEN "idx_zero" ELSE "acces")
    /\ inchangeSaufIndex /\ UNCHANGED <<index_ecriture, index_lecture, reg>>

\* if (index == TAILLE_MAX)
TesterIndex(index, t) ==
    /\ pc[t] = "idx_tester"
    /\ Aller(t, IF index = TAILLE_MAX THEN "idx_zero" ELSE "acces")
    /\ inchangeSaufIndex /\ UNCHANGED <<index_ecriture, index_lecture, reg>>

\* index = 0
RamenerIndex(index, t) ==
    /\ pc[t] = "idx_zero"
    /\ index' = 0
    /\ Aller(t, "acces")
    /\ inchangeSaufIndex /\ UNCHANGED reg

Index(index, nom, S, t) ==
    \/ CopierIndex(index, nom, S, t)
    \/ ChargerIndex(index, t)
    \/ TesterIndex(index, t)

\* An access past the end of liste is undefined behaviour: the model stops
\* there and says nothing of what follows.
Deborder(t) ==
    /\ pc[t] = "acces" /\ j[t] \notin Cases
    /\ phase' = "indefini"
    /\ UNCHANGED <<index_ecriture, index_lecture, liste, i, pc, k, j, varsSortie,
                   varsCompteurs, chevauche>>

producteurInt(t) ==
    \/ CompteursProducteur(t, "index") /\ UNCHANGED chevauche
    \/ Index(index_ecriture, "ecriture", Producteurs, t)
    \/ (RangerIndex(index_ecriture, t) \/ RamenerIndex(index_ecriture, t))
       /\ UNCHANGED index_lecture
    \/ /\ j[t] \in Cases
       /\ Ecrire(t, "inc_lire")
       /\ UNCHANGED <<varsCompteurs, chevauche>>
    \/ Deborder(t)

consommateurInt(t) ==
    \/ CompteursConsommateur(t, "index") /\ UNCHANGED chevauche
    \/ Index(index_lecture, "lecture", Consommateurs, t)
    \/ (RangerIndex(index_lecture, t) \/ RamenerIndex(index_lecture, t))
       /\ UNCHANGED index_ecriture
    \/ /\ j[t] \in Cases
       /\ Lire(t, "inc_lire")
       /\ UNCHANGED <<varsCompteurs, chevauche>>
    \/ Deborder(t)

\* Nothing happens after main has returned or after undefined behaviour.
TermineInt == phase \in {"fini", "indefini"} /\ UNCHANGED varsInt

NextInt ==
    \/ mainInt
    \/ phase # "indefini" /\ \E t \in Producteurs : producteurInt(t)
    \/ phase # "indefini" /\ \E t \in Consommateurs : consommateurInt(t)
    \/ TermineInt

SpecInt == InitInt /\ [][NextInt]_varsInt

-----------------------------------------------------------------------------
\* Every variable of produc_conso_int.c stays in its range, for the indices the
\* range they can reach when they run out of the array.
TypeOKInt ==
    /\ phase \in {"creer", "joindre", "afficher", "fini", "indefini"}
    /\ pc \in [Threads -> PointsCompteurs \cup MiseAJour \cup {"index", "acces"}]
    /\ index_ecriture \in 0 .. TOTALDONNEE
    /\ index_lecture \in 0 .. TOTALDONNEE
    /\ j \in [Threads -> 0 .. TOTALDONNEE]
    /\ liste \in [Cases -> Donnees \cup {Vide}]
    /\ \A t \in Threads : k[t] \in 0 .. Quota(t)
    /\ produits \in Seq(Donnees)
    /\ consommes \in Seq(Donnees \cup {Vide, Melange})
    /\ TypeOKCompteurs

ReservationsInt(S) == Cardinality(Iterations(S, {"acces", "inc_lire", "inc_ecrire"}))

IndexJuste(index, S) ==
    /\ (\A t \in S : pc[t] \notin MiseAJour) =>
           index = ReservationsInt(S) % TAILLE_MAX
    /\ \A t \in S : pc[t] = "acces" => j[t] \in Cases

\* As long as no two producers update index_ecriture at the same time it counts
\* the slots taken, modulo TAILLE_MAX, and no producer leaves the array; the
\* same for the consumers.  So one producer and one consumer are safe, and
\* nothing but the missing mutual exclusion leads out of the array.
IndexJusteSansChevauchement ==
    /\ TypeOKInt
    /\ "ecriture" \notin chevauche => IndexJuste(index_ecriture, Producteurs)
    /\ "lecture" \notin chevauche => IndexJuste(index_lecture, Consommateurs)
=============================================================================
