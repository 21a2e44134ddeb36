--------------------------- MODULE ProducConsoMutex ---------------------------
(***************************************************************************)
(* produc_conso_mutex.c: the mutexes of produc_conso.c, but shared ints in  *)
(* place of its semaphores.                                                 *)
(***************************************************************************)
EXTENDS CompteursPartages

VARIABLES mutex_prod, mutex_cons    \* their owner, or Libre

varsMutex == <<mutex_prod, mutex_cons>>
vars == <<vars0, varsMutex>>

Libre == -1

Init == InitCompteurs /\ mutex_prod = Libre /\ mutex_cons = Libre

main == (Creer \/ Joindre \/ Afficher) /\ UNCHANGED <<varsCompteurs, varsMutex>>

-----------------------------------------------------------------------------
\* Mutant: the mutex protects nothing.
VerrouillerSansAttendre(mutex, t) ==
    /\ pc[t] = "verrou"
    /\ mutex' = t
    /\ Aller(t, "index")
    /\ inchangeSaufCompteurs /\ UNCHANGED <<k, varsCompteurs>>

Verrouiller(mutex, t) ==
    /\ pc[t] = "verrou"
    /\ mutex = Libre
    /\ mutex' = t
    /\ Aller(t, "index")
    /\ inchangeSaufCompteurs /\ UNCHANGED <<k, varsCompteurs>>

Deverrouiller(mutex, t) ==
    /\ pc[t] = "deverrou"
    /\ mutex' = Libre
    /\ Aller(t, "inc_lire")
    /\ inchangeSaufCompteurs /\ UNCHANGED <<k, varsCompteurs>>

producteur(t) ==
    \/ CompteursProducteur(t, "verrou") /\ UNCHANGED varsMutex
    \/ Verrouiller(mutex_prod, t) /\ UNCHANGED mutex_cons
    \/ ReserverEcriture(t) /\ UNCHANGED <<varsCompteurs, varsMutex>>
    \/ Ecrire(t, "deverrou") /\ UNCHANGED <<varsCompteurs, varsMutex>>
    \/ Deverrouiller(mutex_prod, t) /\ UNCHANGED mutex_cons

consommateur(t) ==
    \/ CompteursConsommateur(t, "verrou") /\ UNCHANGED varsMutex
    \/ Verrouiller(mutex_cons, t) /\ UNCHANGED mutex_prod
    \/ ReserverLecture(t) /\ UNCHANGED <<varsCompteurs, varsMutex>>
    \/ Lire(t, "deverrou") /\ UNCHANGED <<varsCompteurs, varsMutex>>
    \/ Deverrouiller(mutex_cons, t) /\ UNCHANGED mutex_prod

\* The program stops once main has returned.
Termine == phase = "fini" /\ UNCHANGED vars

Next ==
    \/ main
    \/ \E t \in Producteurs : producteur(t)
    \/ \E t \in Consommateurs : consommateur(t)
    \/ Termine

Spec == Init /\ [][Next]_vars

-----------------------------------------------------------------------------
\* Every variable of produc_conso_mutex.c stays in its range.
TypeOK ==
    /\ TypeOKTampon(PointsCompteurs \cup {"verrou", "index", "acces", "deverrou"},
                    Cases)
    /\ TypeOKCompteurs
    /\ mutex_prod \in Producteurs \cup {Libre}
    /\ mutex_cons \in Consommateurs \cup {Libre}

\* How many slots the threads of S have taken since the beginning.
Reservations(S) ==
    Cardinality(Iterations(S, {"acces", "deverrou", "inc_lire", "inc_ecrire"}))

\* The comment on the mutexes: they prevent concurrent accesses to the indices.
\* Although the counters race, no slot is skipped or taken twice in a turn of
\* the array: each index is the number of slots taken, modulo TAILLE_MAX, and
\* the data are printed in the order of the slots.
IndexCoherents ==
    /\ TypeOK
    /\ index_ecriture = Reservations(Producteurs) % TAILLE_MAX
    /\ index_lecture = Reservations(Consommateurs) % TAILLE_MAX
    /\ \A t \in Producteurs : pc[t] = "acces" => j[t] = Len(produits) % TAILLE_MAX
    /\ \A t \in Consommateurs : pc[t] = "acces" => j[t] = Len(consommes) % TAILLE_MAX
=============================================================================
