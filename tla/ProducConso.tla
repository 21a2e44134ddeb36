----------------------------- MODULE ProducConso -----------------------------
(***************************************************************************)
(* produc_conso.c: the free and the full slots are counted by the           *)
(* semaphores empty and full; mutex_prod and mutex_cons protect the indices *)
(* and the access to the slot.                                              *)
(***************************************************************************)
EXTENDS TamponCirculaire

VARIABLES empty, full,              \* the values of the semaphores
          mutex_prod, mutex_cons    \* their owner, or Libre

varsSem   == <<empty, full>>
varsMutex == <<mutex_prod, mutex_cons>>
vars == <<varsTampon, varsSem, varsMutex>>

Libre == -1

\* Mutant: one slot too many.
InitUneCaseDeTrop ==
    /\ InitTampon
    /\ empty = TAILLE_MAX + 1 /\ full = 0
    /\ mutex_prod = Libre /\ mutex_cons = Libre

Init ==
    /\ InitTampon
    /\ empty = TAILLE_MAX /\ full = 0
    /\ mutex_prod = Libre /\ mutex_cons = Libre

main == (Creer \/ Joindre \/ Afficher) /\ UNCHANGED <<varsSem, varsMutex>>

-----------------------------------------------------------------------------
sem_wait(sem, t) ==
    /\ pc[t] = "attendre"
    /\ sem > 0
    /\ sem' = sem - 1
    /\ Aller(t, "verrou")
    /\ UNCHANGED <<index_ecriture, index_lecture, liste, varsMain, k, j,
                   varsSortie, varsMutex>>

\* Mutant: the mutex protects nothing.
VerrouillerSansAttendre(mutex, t) ==
    /\ pc[t] = "verrou"
    /\ mutex' = t
    /\ Aller(t, "index")
    /\ UNCHANGED <<index_ecriture, index_lecture, liste, varsMain, k, j,
                   varsSortie, varsSem>>

Verrouiller(mutex, t) ==
    /\ pc[t] = "verrou"
    /\ mutex = Libre
    /\ mutex' = t
    /\ Aller(t, "index")
    /\ UNCHANGED <<index_ecriture, index_lecture, liste, varsMain, k, j,
                   varsSortie, varsSem>>

Deverrouiller(mutex, t) ==
    /\ pc[t] = "deverrou"
    /\ mutex' = Libre
    /\ Aller(t, "signaler")
    /\ UNCHANGED <<index_ecriture, index_lecture, liste, varsMain, k, j,
                   varsSortie, varsSem>>

\* Mutant: the semaphore is not posted.
PostOublie(sem, t) ==
    /\ pc[t] = "signaler"
    /\ sem' = sem
    /\ Reboucler(t)
    /\ UNCHANGED <<index_ecriture, index_lecture, liste, varsMain, j,
                   varsSortie, varsMutex>>

sem_post(sem, t) ==
    /\ pc[t] = "signaler"
    /\ sem' = sem + 1
    /\ Reboucler(t)
    /\ UNCHANGED <<index_ecriture, index_lecture, liste, varsMain, j,
                   varsSortie, varsMutex>>

producteur(t) ==
    \/ sem_wait(empty, t) /\ UNCHANGED full
    \/ Verrouiller(mutex_prod, t) /\ UNCHANGED mutex_cons
    \/ ReserverEcriture(t) /\ UNCHANGED <<varsSem, varsMutex>>
    \/ Ecrire(t, "deverrou") /\ UNCHANGED <<varsSem, varsMutex>>
    \/ Deverrouiller(mutex_prod, t) /\ UNCHANGED mutex_cons
    \/ sem_post(full, t) /\ UNCHANGED empty

consommateur(t) ==
    \/ sem_wait(full, t) /\ UNCHANGED empty
    \/ Verrouiller(mutex_cons, t) /\ UNCHANGED mutex_prod
    \/ ReserverLecture(t) /\ UNCHANGED <<varsSem, varsMutex>>
    \/ Lire(t, "deverrou") /\ UNCHANGED <<varsSem, varsMutex>>
    \/ Deverrouiller(mutex_cons, t) /\ UNCHANGED mutex_prod
    \/ sem_post(empty, t) /\ UNCHANGED full

\* The program stops once main has returned.
Termine == phase = "fini" /\ UNCHANGED vars

Next ==
    \/ main
    \/ \E t \in Producteurs : producteur(t)
    \/ \E t \in Consommateurs : consommateur(t)
    \/ Termine

\* The system scheduler runs every thread that can run.  A thread takes a
\* bounded number of steps, so a semaphore or a mutex cannot be stolen from a
\* waiting thread for ever: weak fairness is enough.
Spec ==
    /\ Init /\ [][Next]_vars
    /\ WF_vars(main)
    /\ \A t \in Producteurs : WF_vars(producteur(t))
    /\ \A t \in Consommateurs : WF_vars(consommateur(t))

-----------------------------------------------------------------------------
Points == {"absent", "attendre", "verrou", "index", "acces", "deverrou",
           "signaler", "sorti"}

\* Every variable of produc_conso.c stays in its range: no index leaves the
\* array, no semaphore becomes negative and no thread works past its quota.
TypeOK ==
    /\ TypeOKTampon(Points, Cases)
    /\ empty \in Nat
    /\ full \in Nat
    /\ mutex_prod \in Producteurs \cup {Libre}
    /\ mutex_cons \in Consommateurs \cup {Libre}

Parmi(S, Pts) == {t \in S : pc[t] \in Pts}
Reserve == {"verrou", "index", "acces"}      \* has waited, slot not used yet
Rend    == {"deverrou", "signaler"}          \* slot used, not posted yet
Critique == {"index", "acces", "deverrou"}   \* between lock and unlock

\* Each mutex is owned exactly by the thread between its lock and its unlock:
\* there is at most one of each kind, and nobody unlocks a mutex of another.
VerrousCoherents ==
    /\ \A t \in Producteurs : mutex_prod = t <=> pc[t] \in Critique
    /\ \A t \in Consommateurs : mutex_cons = t <=> pc[t] \in Critique

\* The indices stay in the array, no semaphore becomes negative, and the mutexes
\* are exact, whatever the order of the waits, the accesses and the posts.
EtatCoherent == TypeOK /\ VerrousCoherents

\* While a producer writes a slot, no other thread writes or reads it, although
\* producers and consumers hold different mutexes.
AccesExclusif ==
    \A t \in Producteurs, u \in Threads :
        t # u /\ pc[t] = "acces" /\ pc[u] = "acces" => j[t] # j[u]

\* The value of each semaphore is exactly what the threads have taken from it
\* and given to it: no slot is lost, none is counted twice, whatever the order
\* of the waits, the accesses and the posts.
BilanSemaphores ==
    /\ empty = TAILLE_MAX
               - (Len(produits) + Cardinality(Parmi(Producteurs, Reserve)))
               + (Len(consommes) - Cardinality(Parmi(Consommateurs, Rend)))
    /\ full = (Len(produits) - Cardinality(Parmi(Producteurs, Rend)))
              - (Len(consommes) + Cardinality(Parmi(Consommateurs, Reserve)))

\* The comment before the last printf: when every thread has been joined full
\* is 0 and empty is TAILLE_MAX, and then all the data have been consumed: the
\* quotas of the consumers add up to TOTALDONNEE.
ValeursFinales ==
    phase \in {"afficher", "fini"} =>
        /\ full = 0 /\ empty = TAILLE_MAX
        /\ Len(consommes) = TOTALDONNEE /\ consommes = produits

\* The program implements the bounded queue: the consumers print the data in
\* the order in which the producers printed them, each once and unmixed, and
\* there are never more than TAILLE_MAX of them in between.
RaffineFile == File!Spec

\* Every thread is joined and the program ends.
Terminaison == <>(phase = "fini")
=============================================================================
