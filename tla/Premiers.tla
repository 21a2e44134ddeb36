------------------------------- MODULE Premiers -------------------------------
(***************************************************************************)
(* prime.c, which finds the prime numbers up to a maximum, and p_prime.c    *)
(* and primes_th.c, whose text is the same and which share the work between *)
(* threads without synchronisation.                                         *)
(***************************************************************************)
EXTENDS Execution, Integers, Sequences, FiniteSetsExt

CONSTANTS MAXIMUM, NB_THREAD   \* bounds of the arguments

ASSUME PremiersAssumption == MAXIMUM \in Nat \ {0} /\ NB_THREAD \in Nat \ {0}

VARIABLES maximum, nb_thread,    \* the arguments
          work_list, indice,     \* p_prime.c: the array, i of each thread
          primes, cap,           \* prime.c: the array, the size of its memory
          phase, compteur, nb    \* of main: its loop, the index in it, the result

varsPremiers == <<maximum, nb_thread, work_list, indice, primes, cap, phase, compteur, nb>>

ProgrammesPremiers == {"prime", "p_prime"}
Threads            == 0 .. nb_thread - 1

\* work_list comes from malloc and is not cleared; it is the first memory that
\* the process takes from the kernel, which gives zeros.
InitTableaux ==
    /\ work_list = [n \in 0 .. maximum |-> FALSE]
    /\ indice = [t \in Threads |-> 0]
    /\ primes = <<>> /\ cap = 8 /\ nb = 0

InitPremiers ==
    /\ programme \in ProgrammesPremiers
    /\ maximum \in 1 .. MAXIMUM
    /\ nb_thread \in (IF programme = "prime" THEN {1} ELSE 1 .. NB_THREAD)
    /\ InitTableaux
    /\ IF programme = "prime" THEN phase = "chercher" /\ compteur = 2
       ELSE phase = "creer" /\ compteur = 0

\* Another program is executed.
ReposPremiers ==
    /\ maximum = 1 /\ nb_thread = 1 /\ phase = "arrete" /\ compteur = 0
    /\ InitTableaux

-----------------------------------------------------------------------------
\* (long int) sqrt((double) n)
Racine(n) == Max({r \in 0 .. n : r * r <= n})

\* prime.c tries the prime numbers that it has found, in order.
DiviseParUnTrouve(n) ==
    \E k \in DOMAIN primes : primes[k] <= Racine(n) /\ n % primes[k] = 0

\* The array grows after it has been exceeded, not before: the element cap is
\* written outside.
Chercher ==
    /\ phase = "chercher"
    /\ IF compteur > maximum THEN phase' = "fini" /\ nb' = Len(primes) /\ UNCHANGED <<primes, cap, compteur>>
       ELSE /\ compteur' = compteur + 1
            /\ IF DiviseParUnTrouve(compteur) THEN UNCHANGED <<primes, cap, phase>>
               ELSE /\ primes' = Append(primes, compteur)
                    /\ phase' = IF Len(primes) >= cap THEN "indefini" ELSE phase
                    /\ cap' = IF Len(primes) + 1 > cap THEN 2 * cap ELSE cap
            /\ UNCHANGED nb
    /\ UNCHANGED <<maximum, nb_thread, work_list, indice>>

-----------------------------------------------------------------------------
\* Mutant: the square of a prime number passes.
EstPremierSansRacine(n) == \A d \in 2 .. Racine(n) - 1 : n % d # 0

\* The inner loop of do_work.
EstPremier(n) == \A d \in 2 .. Racine(n) : n % d # 0

\* Mutant: the threads do not jump over each other.
Pas == 1

Saut == nb_thread

\* One iteration of the loop of do_work.
do_work(t) ==
    /\ indice[t] \in 2 .. maximum
    /\ work_list' = [work_list EXCEPT ![indice[t]] = @ \/ EstPremier(indice[t])]
    /\ indice' = [indice EXCEPT ![t] = @ + Saut]
    /\ UNCHANGED <<maximum, nb_thread, primes, cap, phase, compteur, nb>>

\* One iteration of a loop over the threads; `ensuite' follows the last one.
ParThread(ici, ensuite) ==
    /\ phase = ici
    /\ IF compteur = nb_thread - 1 THEN phase' = ensuite /\ compteur' = 0
       ELSE compteur' = compteur + 1 /\ UNCHANGED phase
    /\ UNCHANGED <<maximum, nb_thread, work_list, primes, cap, nb>>

\* pthread_create, whose argument is passed by value.
CreerThread ==
    /\ ParThread("creer", "joindre")
    /\ indice' = [indice EXCEPT ![compteur] = compteur + 2]

JoindreThread ==
    /\ ParThread("joindre", "compter")
    /\ indice[compteur] > maximum
    /\ UNCHANGED indice

Compter ==
    /\ phase = "compter"
    /\ nb' = Cardinality({n \in 2 .. maximum : work_list[n]})
    /\ phase' = "fini"
    /\ UNCHANGED <<maximum, nb_thread, work_list, indice, primes, cap, compteur>>

NextPremiers == Chercher \/ (\E t \in Threads : do_work(t)) \/ CreerThread \/ JoindreThread \/ Compter

-----------------------------------------------------------------------------
TypeOKPremiers ==
    /\ work_list \in [0 .. maximum -> BOOLEAN]
    /\ indice \in [Threads -> 0 .. maximum + nb_thread + 1]
    /\ phase \in {"arrete", "chercher", "creer", "joindre", "compter", "fini", "indefini"}
    /\ Len(primes) <= cap + 1 /\ nb \in 0 .. maximum

\* The comment at the end of p_prime.c, "on obtient les mêmes résultats": each
\* program counts the numbers without a divisor, although one tries only the
\* prime numbers up to the root and the other works in parallel.
CompteJuste ==
    /\ TypeOKPremiers
    /\ phase = "fini" =>
           nb = Cardinality({n \in 2 .. maximum : \A d \in 2 .. n - 1 : n % d # 0})

\* The comment before do_work: the threads jump over each other.  Two threads
\* never work on the same element of work_list, so that no lock is needed.
SansCourse ==
    \A t, u \in Threads : t # u /\ indice[t] \in 2 .. maximum => indice[t] # indice[u]
=============================================================================
