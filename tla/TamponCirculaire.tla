--------------------------- MODULE TamponCirculaire ---------------------------
(***************************************************************************)
(* What produc_conso.c, produc_conso_mutex.c and produc_conso_int.c share:  *)
(* main creates the producers, then the consumers, and joins them in that   *)
(* order; the data go through the circular array liste.  How a thread waits *)
(* for a free or a full slot, and what protects the indices, is added by    *)
(* the modules that extend this one.                                        *)
(*                                                                          *)
(* The threads are numbered in the order of their creation.  main writes    *)
(* arg_pro[i] and arg_conso[i] before it creates the thread that reads them *)
(* and never again, so a thread's identity is its number.                   *)
(***************************************************************************)
EXTENDS Integers, Sequences, FiniteSets

CONSTANTS nombre_produ, nombre_conso,   \* the arguments of the program
          MAXDONNEE, TAILLE_MAX         \* its macros

\* main refuses numbers of threads that are not positive.
ASSUME ArgumentsAssumption ==
    nombre_produ \in Nat \ {0} /\ nombre_conso \in Nat \ {0}
ASSUME MacrosAssumption ==
    MAXDONNEE \in Nat /\ TAILLE_MAX \in Nat \ {0}

Producteurs   == 0 .. nombre_produ - 1
Consommateurs == nombre_produ .. nombre_produ + nombre_conso - 1
Threads       == Producteurs \cup Consommateurs
Cases         == 0 .. TAILLE_MAX - 1

TOTALDONNEE == nombre_produ * MAXDONNEE

VARIABLES
    index_ecriture, index_lecture, liste,   \* the globals
    phase, i,                               \* the loop of main, its counter
    pc, k, j,           \* of each thread: its point, its loop counter, its j
    produits, consommes \* the lines printed by the producers, the consumers

varsTampon == <<index_ecriture, index_lecture, liste, phase, i, pc, k, j,
                produits, consommes>>
varsMain   == <<phase, i>>
varsSortie == <<produits, consommes>>

\* The datum <<t, n>> stands for "Le producteur t a créé la donnée n".
Donnees == Producteurs \X (0 .. MAXDONNEE - 1)
Vide    == <<-1, -1>>   \* the initial empty string
Melange == <<-2, -2>>   \* what is read while sprintf is writing

\* Mutant: the remainder of the division is forgotten.
QuotaSansReste(t) ==
    IF t \in Producteurs THEN MAXDONNEE ELSE TOTALDONNEE \div nombre_conso

\* How many times the thread runs its loop: MAXDONNEE, or nb_a_consommer.
Quota(t) ==
    IF t \in Producteurs
    THEN MAXDONNEE
    ELSE (TOTALDONNEE \div nombre_conso)
         + (IF TOTALDONNEE % nombre_conso > t - nombre_produ THEN 1 ELSE 0)

\* Where a thread goes with its loop counter at n; the test reads only locals
\* and constants.
Boucle(t, n) == IF n < Quota(t) THEN "attendre" ELSE "sorti"

InitTampon ==
    /\ index_ecriture = 0
    /\ index_lecture = 0
    /\ liste = [c \in Cases |-> Vide]
    /\ phase = "creer"
    /\ i = 0
    /\ pc = [t \in Threads |-> "absent"]
    /\ k = [t \in Threads |-> 0]
    /\ j = [t \in Threads |-> 0]
    /\ produits = <<>>
    /\ consommes = <<>>

-----------------------------------------------------------------------------
\* One iteration of the loops `ici' of main, which are followed by `ensuite'.
Iteration(ici, ensuite) ==
    /\ phase = ici
    /\ IF i + 1 \in Threads
       THEN i' = i + 1 /\ UNCHANGED phase
       ELSE i' = 0     /\ phase' = ensuite

Aller(t, point) == pc' = [pc EXCEPT ![t] = point]

Creer ==
    /\ Iteration("creer", "joindre")
    /\ Aller(i, Boucle(i, 0))
    /\ UNCHANGED <<index_ecriture, index_lecture, liste, k, j, varsSortie>>

Joindre ==
    /\ Iteration("joindre", "afficher")
    /\ pc[i] = "sorti"
    /\ UNCHANGED <<index_ecriture, index_lecture, liste, pc, k, j, varsSortie>>

\* main prints full and empty and returns.
Afficher ==
    /\ phase = "afficher"
    /\ phase' = "fini"
    /\ UNCHANGED <<index_ecriture, index_lecture, liste, i, pc, k, j, varsSortie>>

-----------------------------------------------------------------------------
\* Mutant: the index is not brought back to the beginning of the array.
SuivantSansRetour(x) == IF x = TAILLE_MAX THEN 0 ELSE x + 1

Suivant(x) == IF x + 1 = TAILLE_MAX THEN 0 ELSE x + 1

\* j = index_ecriture, and its successor; one step for the programs that hold
\* mutex_prod there: no other thread looks at index_ecriture meanwhile.
ReserverEcriture(t) ==
    /\ pc[t] = "index"
    /\ j' = [j EXCEPT ![t] = index_ecriture]
    /\ index_ecriture' = Suivant(index_ecriture)
    /\ Aller(t, "acces")
    /\ UNCHANGED <<index_lecture, liste, varsMain, k, varsSortie>>

\* The same for index_lecture, under mutex_cons.
ReserverLecture(t) ==
    /\ pc[t] = "index"
    /\ j' = [j EXCEPT ![t] = index_lecture]
    /\ index_lecture' = Suivant(index_lecture)
    /\ Aller(t, "acces")
    /\ UNCHANGED <<index_ecriture, liste, varsMain, k, varsSortie>>

\* sprintf into liste[j] ends; the producer says so.  It has been writing since
\* it arrived at "acces".
Ecrire(t, ensuite) ==
    /\ pc[t] = "acces"
    /\ liste' = [liste EXCEPT ![j[t]] = <<t, k[t]>>]
    /\ produits' = Append(produits, <<t, k[t]>>)
    /\ Aller(t, ensuite)
    /\ UNCHANGED <<index_ecriture, index_lecture, varsMain, k, j, consommes>>

\* What a reader of the slot c may see: its content, or a mixture if a producer
\* is writing there.
Lisible(c) ==
    {liste[c]} \cup {Melange : p \in {q \in Producteurs : pc[q] = "acces" /\ j[q] = c}}

\* The consumer prints liste[j].
Lire(t, ensuite) ==
    /\ pc[t] = "acces"
    /\ \E v \in Lisible(j[t]) : consommes' = Append(consommes, v)
    /\ Aller(t, ensuite)
    /\ UNCHANGED <<index_ecriture, index_lecture, liste, varsMain, k, j, produits>>

\* The end of an iteration of the thread's loop.
Reboucler(t) ==
    /\ k' = [k EXCEPT ![t] = @ + 1]
    /\ Aller(t, Boucle(t, k[t] + 1))

-----------------------------------------------------------------------------
TypeOKTampon(Points, Indices) ==
    /\ index_ecriture \in Indices
    /\ index_lecture \in Indices
    /\ liste \in [Cases -> Donnees \cup {Vide}]
    /\ phase \in {"creer", "joindre", "afficher", "fini"}
    /\ i \in Threads
    /\ pc \in [Threads -> Points]
    /\ k \in [Threads -> Nat]
    /\ \A t \in Threads : k[t] <= Quota(t)
    /\ j \in [Threads -> Indices]
    /\ produits \in Seq(Donnees)
    /\ consommes \in Seq(Donnees \cup {Vide, Melange})

File == INSTANCE FileBornee WITH Capacite <- TAILLE_MAX
=============================================================================
