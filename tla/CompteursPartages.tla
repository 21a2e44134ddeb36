-------------------------- MODULE CompteursPartages --------------------------
(***************************************************************************)
(* The counters of produc_conso_mutex.c and produc_conso_int.c: empty and   *)
(* full are plain ints that the threads poll, decrement and increment       *)
(* without any protection.  empty-- and full++ load the int, then store it  *)
(* (the registers reg), so that updates of other threads can be lost.       *)
(***************************************************************************)
EXTENDS TamponCirculaire

VARIABLES empty, full,
          reg       \* what each thread has loaded and not stored yet

varsCompteurs == <<empty, full, reg>>
vars0 == <<varsTampon, varsCompteurs>>

InitCompteurs ==
    /\ InitTampon
    /\ empty = TAILLE_MAX
    /\ full = 0
    /\ reg = [t \in Threads |-> 0]

Oublier(t) == reg' = [reg EXCEPT ![t] = 0]

inchangeSaufCompteurs ==
    UNCHANGED <<index_ecriture, index_lecture, liste, varsMain, j, varsSortie>>

\* while (compteur <= 0) attendre();
Attendre(compteur, t) ==
    /\ pc[t] = "attendre"
    /\ compteur > 0
    /\ Aller(t, "dec_lire")
    /\ inchangeSaufCompteurs /\ UNCHANGED <<k, varsCompteurs>>

\* The load of compteur-- or of compteur++.
Charger(compteur, t, ici, ensuite) ==
    /\ pc[t] = ici
    /\ reg' = [reg EXCEPT ![t] = compteur]
    /\ Aller(t, ensuite)
    /\ inchangeSaufCompteurs /\ UNCHANGED <<k, empty, full>>

\* The store of compteur--.
Decrementer(compteur, t, ensuite) ==
    /\ pc[t] = "dec_ecrire"
    /\ compteur' = reg[t] - 1
    /\ Aller(t, ensuite)
    /\ Oublier(t)
    /\ inchangeSaufCompteurs /\ UNCHANGED k

\* The store of compteur++, the last instruction of the loop.
Incrementer(compteur, t) ==
    /\ pc[t] = "inc_ecrire"
    /\ compteur' = reg[t] + 1
    /\ Oublier(t)
    /\ Reboucler(t)
    /\ inchangeSaufCompteurs

\* What surrounds the access to the slot in producteur and consommateur.
CompteursProducteur(t, ensuite) ==
    \/ Attendre(empty, t)
    \/ Charger(empty, t, "dec_lire", "dec_ecrire")
    \/ Decrementer(empty, t, ensuite) /\ UNCHANGED full
    \/ Charger(full, t, "inc_lire", "inc_ecrire")
    \/ Incrementer(full, t) /\ UNCHANGED empty

CompteursConsommateur(t, ensuite) ==
    \/ Attendre(full, t)
    \/ Charger(full, t, "dec_lire", "dec_ecrire")
    \/ Decrementer(full, t, ensuite) /\ UNCHANGED empty
    \/ Charger(empty, t, "inc_lire", "inc_ecrire")
    \/ Incrementer(empty, t) /\ UNCHANGED full

PointsCompteurs == {"absent", "attendre", "dec_lire", "dec_ecrire",
                    "inc_lire", "inc_ecrire", "sorti"}

\* The iterations of the threads of S, <<t, n>> for the iteration n of t: those
\* that are over and, for a thread at one of the points Pts, the one in progress.
Iterations(S, Pts) ==
    {d \in S \X (0 .. TOTALDONNEE) :
        d[2] < k[d[1]] + (IF pc[d[1]] \in Pts THEN 1 ELSE 0)}

\* A lost update cannot push a counter further than all the updates would.
TypeOKCompteurs ==
    LET Ecarts == -TOTALDONNEE .. TOTALDONNEE
    IN  /\ full \in Ecarts
        /\ empty - TAILLE_MAX \in Ecarts
        /\ reg \in [Threads -> Int]

\* The comment before the declaration of the counters: they tell whether a datum
\* is available to the consumer.  A consumer that is about to read a slot finds
\* a datum that has been produced and that nobody has consumed yet.
DonneeDisponible ==
    \A t \in Consommateurs : pc[t] = "acces" => Len(consommes) < Len(produits)
=============================================================================
