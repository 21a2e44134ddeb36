------------------------ MODULE CompteursPartages_proofs ------------------------
(***************************************************************************)
(* Proofs about the two programs of CompteursPartages, ProducConsoMutex and *)
(* ProducConsoInt, for any number of producers and consumers, of data and   *)
(* of slots.                                                                *)
(***************************************************************************)
EXTENDS ProducConsoCompteurs, FiniteSetTheorems, TLAPS

USE ArgumentsAssumption, MacrosAssumption

-----------------------------------------------------------------------------
(* What the two programs share.                                             *)

\* The points of a thread inside its loop, past the store of the decrement, and all.
DansBoucle == {"attendre", "dec_lire", "dec_ecrire", "verrou", "index", "idx_lire", "idx_ecrire",
               "idx_tester", "idx_zero", "acces", "deverrou", "inc_lire", "inc_ecrire"}
Decremente == {"verrou", "index", "idx_lire", "idx_ecrire", "idx_tester", "idx_zero", "acces",
               "deverrou", "inc_lire", "inc_ecrire"}
TousPoints == DansBoucle \cup {"absent", "sorti"}

Nombre(S, Pts) == Cardinality(Iterations(S, Pts))

\* What does not depend on the values of the counters: the types and the quotas.
QuotasCoherents ==
    \A t \in Threads :
        /\ pc[t] = "absent" => k[t] = 0
        /\ pc[t] \in DansBoucle => k[t] < Quota(t)

CreationCoherente == phase = "creer" => \A t \in Threads : t >= i => pc[t] = "absent"

Socle ==
    /\ i \in Threads
    /\ pc \in [Threads -> TousPoints] /\ k \in [Threads -> Nat]
    /\ \A t \in Threads : k[t] <= Quota(t)
    /\ full \in Int /\ empty \in Int /\ reg \in [Threads -> Int]
    /\ QuotasCoherents
    /\ CreationCoherente

\* How far lost updates can take a counter: what it holds, and what a thread has
\* loaded from it, is at least minus the decrements that have been stored and at
\* most the increments that have been.
BornesFull(x) ==
    -Nombre(Consommateurs, Decremente) <= x /\ x <= Nombre(Producteurs, {})

BornesEmpty(x) ==
    -Nombre(Producteurs, Decremente) <= x - TAILLE_MAX /\ x - TAILLE_MAX <= Nombre(Consommateurs, {})

CompteursBornes ==
    /\ BornesFull(full)
    /\ BornesEmpty(empty)
    /\ \A t \in Producteurs : /\ pc[t] = "dec_ecrire" => BornesEmpty(reg[t])
                              /\ pc[t] = "inc_ecrire" => BornesFull(reg[t])
    /\ \A t \in Consommateurs : /\ pc[t] = "dec_ecrire" => BornesFull(reg[t])
                                /\ pc[t] = "inc_ecrire" => BornesEmpty(reg[t])

-----------------------------------------------------------------------------
(* Types and quotas.                                                        *)

LEMMA QuotaType == ASSUME NEW t \in Threads PROVE Quota(t) \in Nat
<1>1. TOTALDONNEE \in Nat
  BY DEF TOTALDONNEE
<1>2. TOTALDONNEE \div nombre_conso \in Nat /\ TOTALDONNEE % nombre_conso \in Nat
  BY <1>1
<1>3. QED
  BY <1>2 DEF Quota

LEMMA ThreadsFinis ==
    /\ IsFiniteSet(Producteurs) /\ IsFiniteSet(Consommateurs)
    /\ Producteurs \subseteq Threads /\ Consommateurs \subseteq Threads
    /\ Producteurs \cap Consommateurs = {}
    /\ Threads \subseteq Nat /\ 0 \in Threads
BY FS_Interval DEF Producteurs, Consommateurs, Threads

\* A step of a thread that stays in its loop.
LEMMA ResteDansBoucle ==
    ASSUME Socle, NEW t \in Threads, NEW x \in DansBoucle, pc[t] \in DansBoucle,
           pc' = [pc EXCEPT ![t] = x], UNCHANGED <<k, varsMain>>
    PROVE  /\ pc \in [Threads -> TousPoints] /\ pc' \in [Threads -> TousPoints]
           /\ QuotasCoherents' /\ CreationCoherente'
<1> USE DEF Socle, varsMain
<1>1. pc \in [Threads -> TousPoints] /\ x \in TousPoints /\ i \in Threads
  BY DEF DansBoucle, TousPoints
<1>2. pc' \in [Threads -> TousPoints]
  BY <1>1
<1>3. QuotasCoherents'
  <2>1. x # "absent"
    BY DEF DansBoucle
  <2>2. QED
    BY <1>1, <2>1 DEF QuotasCoherents
<1>4. CreationCoherente'
  <2>1. pc[t] # "absent"
    BY DEF DansBoucle
  <2>2. QED
    BY <1>1, <2>1 DEF CreationCoherente
<1>5. QED
  BY <1>1, <1>2, <1>3, <1>4

-----------------------------------------------------------------------------
(* Counting iterations.                                                     *)

Fait(t, Pts) == k[t] + (IF pc[t] \in Pts THEN 1 ELSE 0)

LEMMA TotalType == TOTALDONNEE \in Nat /\ \A t \in Threads : Quota(t) <= TOTALDONNEE + 1
<1>1. TOTALDONNEE \in Nat
  BY DEF TOTALDONNEE
<1>2. ASSUME NEW t \in Threads PROVE Quota(t) <= TOTALDONNEE + 1
  <2>1. CASE t \in Producteurs
    <3>1. (nombre_produ - 1) * MAXDONNEE >= 0
      OBVIOUS
    <3>2. (nombre_produ - 1) * MAXDONNEE = nombre_produ * MAXDONNEE - MAXDONNEE
      OBVIOUS
    <3>3. MAXDONNEE <= TOTALDONNEE
      BY <3>1, <3>2 DEF TOTALDONNEE
    <3>4. QED
      BY <1>1, <2>1, <3>3 DEF Quota
  <2>2. CASE t \notin Producteurs
    <3>1. TOTALDONNEE \div nombre_conso <= TOTALDONNEE
      BY <1>1
    <3>2. QED
      BY <1>1, <2>2, <3>1 DEF Quota
  <2>3. QED
    BY <2>1, <2>2
<1>3. QED
  BY <1>1, <1>2

LEMMA NombreType ==
    ASSUME NEW S, IsFiniteSet(S), NEW Pts
    PROVE  IsFiniteSet(Iterations(S, Pts)) /\ Nombre(S, Pts) \in Nat
<1>1. IsFiniteSet(S \X (0 .. TOTALDONNEE))
  <2>1. IsFiniteSet(0 .. TOTALDONNEE)
    BY FS_Interval, TotalType
  <2>2. QED
    BY <2>1, FS_Product
<1>2. Iterations(S, Pts) \in SUBSET (S \X (0 .. TOTALDONNEE))
  BY DEF Iterations
<1>3. QED
  BY <1>1, <1>2, FS_Subset, FS_CardinalityType DEF Nombre

LEMMA NombreInchange ==
    ASSUME NEW S, NEW Pts, \A u \in S : Fait(u, Pts)' = Fait(u, Pts)
    PROVE  Nombre(S, Pts)' = Nombre(S, Pts)
<1>1. Iterations(S, Pts)' = Iterations(S, Pts)
  BY DEF Iterations, Fait
<1>2. QED
  BY <1>1 DEF Nombre

LEMMA NombreAjoute ==
    ASSUME NEW S, IsFiniteSet(S), NEW Pts, NEW t \in S,
           k[t] \in 0 .. TOTALDONNEE, Fait(t, Pts) = k[t], Fait(t, Pts)' = k[t] + 1,
           \A u \in S : u # t => Fait(u, Pts)' = Fait(u, Pts)
    PROVE  Nombre(S, Pts)' = Nombre(S, Pts) + 1
<1>1. /\ Iterations(S, Pts) = {d \in S \X (0 .. TOTALDONNEE) : d[2] < Fait(d[1], Pts)}
      /\ Iterations(S, Pts)' = {d \in S \X (0 .. TOTALDONNEE) : d[2] < Fait(d[1], Pts)'}
  BY DEF Iterations, Fait
<1>2. ASSUME NEW d \in S \X (0 .. TOTALDONNEE)
      PROVE  d[2] < Fait(d[1], Pts)' <=> d[2] < Fait(d[1], Pts) \/ d = <<t, k[t]>>
  <2>1. CASE d[1] = t
    BY <2>1
  <2>2. CASE d[1] # t
    BY <2>2
  <2>3. QED
    BY <2>1, <2>2
<1>3. <<t, k[t]>> \in S \X (0 .. TOTALDONNEE)
  OBVIOUS
<1>4. /\ Iterations(S, Pts)' = Iterations(S, Pts) \cup {<<t, k[t]>>}
      /\ <<t, k[t]>> \notin Iterations(S, Pts)
  BY <1>1, <1>2, <1>3
<1>5. QED
  BY <1>4, NombreType, FS_AddElement DEF Nombre

\* A step inside an iteration.
LEMMA NombreDansBoucle ==
    ASSUME Socle, NEW S, S \subseteq Threads, IsFiniteSet(S), NEW Pts,
           NEW t \in Threads, NEW x, pc[t] \in DansBoucle, pc[t] \in Pts => x \in Pts,
           pc' = [pc EXCEPT ![t] = x], UNCHANGED k
    PROVE  /\ Nombre(S, Pts) \in Nat
           /\ t \in S /\ pc[t] \notin Pts /\ x \in Pts => Nombre(S, Pts)' = Nombre(S, Pts) + 1
           /\ t \notin S \/ pc[t] \in Pts \/ x \notin Pts => Nombre(S, Pts)' = Nombre(S, Pts)
<1>1. /\ pc \in [Threads -> TousPoints] /\ k \in [Threads -> Nat]
      /\ k[t] < Quota(t) /\ Quota(t) \in Nat /\ k[t] \in 0 .. TOTALDONNEE
  BY QuotaType, TotalType DEF Socle, QuotasCoherents
<1>2. \A u \in S : u # t => Fait(u, Pts)' = Fait(u, Pts)
  BY <1>1 DEF Fait
<1>3. pc'[t] = x
  BY <1>1
<1>4. ASSUME t \in S, pc[t] \notin Pts, x \in Pts PROVE Nombre(S, Pts)' = Nombre(S, Pts) + 1
  <2>1. Fait(t, Pts) = k[t] /\ Fait(t, Pts)' = k[t] + 1
    BY <1>1, <1>3, <1>4 DEF Fait
  <2>2. QED
    BY <1>1, <1>2, <1>4, <2>1, NombreAjoute
<1>5. ASSUME t \notin S \/ pc[t] \in Pts \/ x \notin Pts PROVE Nombre(S, Pts)' = Nombre(S, Pts)
  <2>1. t \in S => Fait(t, Pts)' = Fait(t, Pts)
    BY <1>3, <1>5 DEF Fait
  <2>2. QED
    BY <1>2, <2>1, NombreInchange
<1>6. QED
  BY <1>4, <1>5, NombreType

\* The end of an iteration.
LEMMA NombreReboucle ==
    ASSUME Socle, NEW S, S \subseteq Threads, IsFiniteSet(S), NEW Pts,
           "attendre" \notin Pts, "sorti" \notin Pts,
           NEW t \in Threads, pc[t] = "inc_ecrire", Reboucler(t)
    PROVE  /\ Nombre(S, Pts) \in Nat
           /\ t \in S /\ pc[t] \notin Pts => Nombre(S, Pts)' = Nombre(S, Pts) + 1
           /\ t \notin S \/ pc[t] \in Pts => Nombre(S, Pts)' = Nombre(S, Pts)
<1>1. /\ pc \in [Threads -> TousPoints] /\ k \in [Threads -> Nat]
      /\ k[t] < Quota(t) /\ Quota(t) \in Nat /\ k[t] \in 0 .. TOTALDONNEE
  BY QuotaType, TotalType DEF Socle, QuotasCoherents, DansBoucle
<1>2. \A u \in S : u # t => Fait(u, Pts)' = Fait(u, Pts)
  BY <1>1 DEF Fait, Reboucler, Aller
<1>3. k'[t] = k[t] + 1 /\ pc'[t] \in {"attendre", "sorti"}
  BY <1>1 DEF Reboucler, Aller, Boucle
<1>4. Fait(t, Pts)' = k[t] + 1
  BY <1>1, <1>3 DEF Fait
<1>5. ASSUME t \in S, pc[t] \notin Pts PROVE Nombre(S, Pts)' = Nombre(S, Pts) + 1
  <2>1. Fait(t, Pts) = k[t]
    BY <1>1, <1>5 DEF Fait
  <2>2. QED
    BY <1>1, <1>2, <1>4, <1>5, <2>1, NombreAjoute
<1>6. ASSUME t \notin S \/ pc[t] \in Pts PROVE Nombre(S, Pts)' = Nombre(S, Pts)
  <2>1. t \in S => Fait(t, Pts)' = Fait(t, Pts)
    BY <1>4, <1>6 DEF Fait
  <2>2. QED
    BY <1>2, <2>1, NombreInchange
<1>7. QED
  BY <1>5, <1>6, NombreType

\* A step of main begins no iteration that counts.
LEMMA NombreMain ==
    ASSUME Socle, Creer \/ Joindre \/ Afficher, NEW S, S \subseteq Threads, NEW Pts,
           "absent" \notin Pts, "attendre" \notin Pts, "sorti" \notin Pts
    PROVE  Nombre(S, Pts)' = Nombre(S, Pts)
<1>1. CASE Creer
  <2>1. i \in Threads /\ pc \in [Threads -> TousPoints] /\ phase = "creer" /\ i >= i
    BY <1>1, ThreadsFinis DEF Socle, Creer, Iteration
  <2>2. pc[i] = "absent"
    BY <2>1 DEF Socle, CreationCoherente
  <2>3. \A u \in S : Fait(u, Pts)' = Fait(u, Pts)
    BY <1>1, <2>1, <2>2 DEF Fait, Creer, Aller, Boucle
  <2>4. QED
    BY <2>3, NombreInchange
<1>2. CASE Joindre \/ Afficher
  BY <1>2, NombreInchange DEF Joindre, Afficher, Fait
<1>3. QED
  BY <1>1, <1>2

-----------------------------------------------------------------------------
(* The counters.                                                            *)

\* The updates that have been stored.
DecFull  == Nombre(Consommateurs, Decremente)
IncFull  == Nombre(Producteurs, {})
DecEmpty == Nombre(Producteurs, Decremente)
IncEmpty == Nombre(Consommateurs, {})

LEMMA MisesAJourType ==
    DecFull \in Nat /\ IncFull \in Nat /\ DecEmpty \in Nat /\ IncEmpty \in Nat
BY NombreType, ThreadsFinis DEF DecFull, IncFull, DecEmpty, IncEmpty

\* A counter that stays in its range stays there when the updates go on.
LEMMA BornesPas ==
    ASSUME Socle, CompteursBornes, NEW t \in Threads,
           DecFull' \in {DecFull, DecFull + 1}, IncFull' \in {IncFull, IncFull + 1},
           DecEmpty' \in {DecEmpty, DecEmpty + 1}, IncEmpty' \in {IncEmpty, IncEmpty + 1},
           full' = full \/ BornesFull(full)',
           empty' = empty \/ BornesEmpty(empty)',
           \A u \in Threads : u # t => pc'[u] = pc[u] /\ reg'[u] = reg[u],
           t \in Producteurs => /\ pc'[t] = "dec_ecrire" => reg'[t] = empty
                                /\ pc'[t] = "inc_ecrire" => reg'[t] = full,
           t \in Consommateurs => /\ pc'[t] = "dec_ecrire" => reg'[t] = full
                                  /\ pc'[t] = "inc_ecrire" => reg'[t] = empty
    PROVE  CompteursBornes'
<1>1. ASSUME NEW x \in Int, BornesFull(x) PROVE -DecFull' <= x /\ x <= IncFull'
  BY <1>1, MisesAJourType DEF BornesFull, DecFull, IncFull
<1>2. ASSUME NEW x \in Int, BornesEmpty(x)
      PROVE  -DecEmpty' <= x - TAILLE_MAX /\ x - TAILLE_MAX <= IncEmpty'
  BY <1>2, MisesAJourType DEF BornesEmpty, DecEmpty, IncEmpty
<1>3. full \in Int /\ empty \in Int /\ \A u \in Threads : reg[u] \in Int
  BY DEF Socle
<1>4. BornesFull(full)' /\ BornesEmpty(empty)'
  BY <1>1, <1>2, <1>3 DEF CompteursBornes, BornesFull, BornesEmpty, DecFull, IncFull, DecEmpty, IncEmpty
<1>5. ASSUME NEW u \in Producteurs
      PROVE  /\ pc'[u] = "dec_ecrire" => BornesEmpty(reg[u])'
             /\ pc'[u] = "inc_ecrire" => BornesFull(reg[u])'
  BY <1>1, <1>2, <1>3, ThreadsFinis
     DEF CompteursBornes, BornesFull, BornesEmpty, DecFull, IncFull, DecEmpty, IncEmpty
<1>6. ASSUME NEW u \in Consommateurs
      PROVE  /\ pc'[u] = "dec_ecrire" => BornesFull(reg[u])'
             /\ pc'[u] = "inc_ecrire" => BornesEmpty(reg[u])'
  BY <1>1, <1>2, <1>3, ThreadsFinis
     DEF CompteursBornes, BornesFull, BornesEmpty, DecFull, IncFull, DecEmpty, IncEmpty
<1>7. QED
  BY <1>4, <1>5, <1>6 DEF CompteursBornes

\* The steps that store no counter.
LEMMA BornesSansEcriture ==
    ASSUME Socle, CompteursBornes, NEW t \in Threads, NEW x \in DansBoucle,
           pc[t] \in DansBoucle, pc[t] \in Decremente <=> x \in Decremente,
           pc' = [pc EXCEPT ![t] = x], UNCHANGED <<k, full, empty>>,
           x \notin {"dec_ecrire", "inc_ecrire"},
           \A u \in Threads : u # t => reg'[u] = reg[u]
    PROVE  CompteursBornes'
<1>1. /\ DecFull' = DecFull /\ IncFull' = IncFull
      /\ DecEmpty' = DecEmpty /\ IncEmpty' = IncEmpty
  BY NombreDansBoucle, ThreadsFinis DEF DecFull, IncFull, DecEmpty, IncEmpty
<1>2. pc \in [Threads -> TousPoints]
  BY DEF Socle
<1>3. QED
  BY <1>1, <1>2, BornesPas

\* The load of a counter.
LEMMA BornesCharger ==
    ASSUME Socle, CompteursBornes, NEW t \in Threads,
           \/ /\ t \in Producteurs
              /\ \/ Charger(empty, t, "dec_lire", "dec_ecrire")
                 \/ Charger(full, t, "inc_lire", "inc_ecrire")
           \/ /\ t \in Consommateurs
              /\ \/ Charger(full, t, "dec_lire", "dec_ecrire")
                 \/ Charger(empty, t, "inc_lire", "inc_ecrire")
    PROVE  CompteursBornes'
<1> USE DEF Charger, Aller
<1>1. pc \in [Threads -> TousPoints] /\ reg \in [Threads -> Int]
  BY DEF Socle
<1>2. UNCHANGED <<k, empty, full>>
  OBVIOUS
<1>3. \/ pc[t] = "dec_lire" /\ pc' = [pc EXCEPT ![t] = "dec_ecrire"]
      \/ pc[t] = "inc_lire" /\ pc' = [pc EXCEPT ![t] = "inc_ecrire"]
  OBVIOUS
<1>4. /\ DecFull' = DecFull /\ IncFull' = IncFull
      /\ DecEmpty' = DecEmpty /\ IncEmpty' = IncEmpty
  BY <1>2, <1>3, NombreDansBoucle, ThreadsFinis
     DEF DecFull, IncFull, DecEmpty, IncEmpty, DansBoucle, Decremente
<1>5. /\ t \in Producteurs => /\ pc'[t] = "dec_ecrire" => reg'[t] = empty
                              /\ pc'[t] = "inc_ecrire" => reg'[t] = full
      /\ t \in Consommateurs => /\ pc'[t] = "dec_ecrire" => reg'[t] = full
                                /\ pc'[t] = "inc_ecrire" => reg'[t] = empty
  BY <1>1, ThreadsFinis
<1>6. \A u \in Threads : u # t => pc'[u] = pc[u] /\ reg'[u] = reg[u]
  BY <1>1, <1>3
<1>7. QED
  BY <1>2, <1>4, <1>5, <1>6, BornesPas

\* The store of a decrement.
LEMMA BornesDecrementer ==
    ASSUME Socle, CompteursBornes, NEW t \in Threads, NEW x \in {"verrou", "index"},
           \/ t \in Producteurs /\ Decrementer(empty, t, x) /\ UNCHANGED full
           \/ t \in Consommateurs /\ Decrementer(full, t, x) /\ UNCHANGED empty
    PROVE  CompteursBornes'
<1> USE DEF Decrementer, Aller, Oublier
<1>1. pc \in [Threads -> TousPoints] /\ reg \in [Threads -> Int] /\ reg[t] \in Int
  BY DEF Socle
<1>2. pc[t] = "dec_ecrire" /\ pc' = [pc EXCEPT ![t] = x] /\ UNCHANGED k
  OBVIOUS
<1>3. /\ IncFull' = IncFull /\ IncEmpty' = IncEmpty
      /\ t \in Producteurs => DecEmpty' = DecEmpty + 1 /\ DecFull' = DecFull
      /\ t \in Consommateurs => DecFull' = DecFull + 1 /\ DecEmpty' = DecEmpty
  BY <1>2, NombreDansBoucle, ThreadsFinis
     DEF DecFull, IncFull, DecEmpty, IncEmpty, DansBoucle, Decremente
<1>4. /\ t \in Producteurs => BornesEmpty(empty)' /\ full' = full
      /\ t \in Consommateurs => BornesFull(full)' /\ empty' = empty
  <2>1. CASE t \in Producteurs
    <3>1. t \notin Consommateurs /\ empty' = reg[t] - 1 /\ full' = full /\ BornesEmpty(reg[t])
      BY <1>2, <2>1, ThreadsFinis DEF CompteursBornes
    <3>2. BornesEmpty(empty)'
      BY <1>1, <1>3, <2>1, <3>1, MisesAJourType DEF BornesEmpty, DecEmpty, IncEmpty
    <3>3. QED
      BY <3>1, <3>2
  <2>2. CASE t \in Consommateurs
    <3>1. t \notin Producteurs /\ full' = reg[t] - 1 /\ empty' = empty /\ BornesFull(reg[t])
      BY <1>2, <2>2, ThreadsFinis DEF CompteursBornes
    <3>2. BornesFull(full)'
      BY <1>1, <1>3, <2>2, <3>1, MisesAJourType DEF BornesFull, DecFull, IncFull
    <3>3. QED
      BY <3>1, <3>2
  <2>3. QED
    BY <2>1, <2>2
<1>5. /\ pc'[t] = x
      /\ \A u \in Threads : u # t => pc'[u] = pc[u] /\ reg'[u] = reg[u]
  BY <1>1, <1>2
<1>6. QED
  BY <1>3, <1>4, <1>5, BornesPas

\* The store of an increment.
LEMMA BornesIncrementer ==
    ASSUME Socle, CompteursBornes, NEW t \in Threads,
           \/ t \in Producteurs /\ Incrementer(full, t) /\ UNCHANGED empty
           \/ t \in Consommateurs /\ Incrementer(empty, t) /\ UNCHANGED full
    PROVE  CompteursBornes'
<1>1. pc \in [Threads -> TousPoints] /\ reg \in [Threads -> Int] /\ reg[t] \in Int
  BY DEF Socle
<1>2. pc[t] = "inc_ecrire" /\ Reboucler(t)
  BY DEF Incrementer
<1>3. /\ DecFull' = DecFull /\ DecEmpty' = DecEmpty
      /\ t \in Producteurs => IncFull' = IncFull + 1 /\ IncEmpty' = IncEmpty
      /\ t \in Consommateurs => IncEmpty' = IncEmpty + 1 /\ IncFull' = IncFull
  BY <1>2, NombreReboucle, ThreadsFinis
     DEF DecFull, IncFull, DecEmpty, IncEmpty, Decremente
<1>4. /\ t \in Producteurs => BornesFull(full)' /\ empty' = empty
      /\ t \in Consommateurs => BornesEmpty(empty)' /\ full' = full
  <2>1. CASE t \in Consommateurs
    <3>1. t \notin Producteurs /\ empty' = reg[t] + 1 /\ full' = full /\ BornesEmpty(reg[t])
      BY <1>2, <2>1, ThreadsFinis DEF CompteursBornes, Incrementer
    <3>2. BornesEmpty(empty)'
      BY <1>1, <1>3, <2>1, <3>1, MisesAJourType DEF BornesEmpty, DecEmpty, IncEmpty
    <3>3. QED
      BY <3>1, <3>2
  <2>2. CASE t \in Producteurs
    <3>1. t \notin Consommateurs /\ full' = reg[t] + 1 /\ empty' = empty /\ BornesFull(reg[t])
      BY <1>2, <2>2, ThreadsFinis DEF CompteursBornes, Incrementer
    <3>2. BornesFull(full)'
      BY <1>1, <1>3, <2>2, <3>1, MisesAJourType DEF BornesFull, DecFull, IncFull
    <3>3. QED
      BY <3>1, <3>2
  <2>3. QED
    BY <2>1, <2>2
<1>5. /\ pc'[t] \in {"attendre", "sorti"}
      /\ \A u \in Threads : u # t => pc'[u] = pc[u] /\ reg'[u] = reg[u]
  BY <1>1, <1>2 DEF Reboucler, Aller, Boucle, Incrementer, Oublier
<1>6. QED
  BY <1>3, <1>4, <1>5, BornesPas, ThreadsFinis DEF Threads

-----------------------------------------------------------------------------
(* Arithmetic modulo the size of the array.                                 *)

LEMMA Fois ==
    ASSUME NEW a \in Int, NEW b \in Int, NEW c \in Nat, a < b
    PROVE  a * c + c <= b * c
<1>1. (a + 1) * c = a * c + c
  OBVIOUS
<1>2. (b - (a + 1)) * c >= 0
  OBVIOUS
<1>3. (b - (a + 1)) * c = b * c - (a + 1) * c
  OBVIOUS
<1>4. QED
  BY <1>1, <1>2, <1>3

LEMMA DivisionEuclidienne ==
    ASSUME NEW m \in Nat, NEW c \in Nat \ {0}
    PROVE  /\ m = ((m \div c) * c) + (m % c)
           /\ m % c \in 0 .. c - 1 /\ m \div c \in Nat
OBVIOUS

LEMMA DivisionUnique ==
    ASSUME NEW a \in Nat, NEW b \in Nat, NEW c \in Nat \ {0},
           NEW r \in 0 .. c - 1, NEW s \in 0 .. c - 1, a * c + r = b * c + s
    PROVE  a = b /\ r = s
<1>1. ~(a < b) /\ ~(b < a)
  BY Fois
<1>2. QED
  BY <1>1

\* The successor of an index, counted modulo the size of the array.
LEMMA SuivantModulo ==
    ASSUME NEW n \in Nat
    PROVE  (n + 1) % TAILLE_MAX = Suivant(n % TAILLE_MAX)
<1> DEFINE M == TAILLE_MAX
           a == n \div M
           r == n % M
<1>1. M \in Nat \ {0} /\ n + 1 \in Nat
  OBVIOUS
<1>2. n = a * M + r /\ r \in 0 .. M - 1 /\ a \in Nat
  BY <1>1, DivisionEuclidienne
<1>3. /\ n + 1 = (((n + 1) \div M) * M) + ((n + 1) % M)
      /\ (n + 1) % M \in 0 .. M - 1 /\ (n + 1) \div M \in Nat
  BY <1>1, DivisionEuclidienne
<1>4. CASE r + 1 < M
  <2>1. n + 1 = a * M + (r + 1) /\ r + 1 \in 0 .. M - 1
    BY <1>1, <1>2, <1>4
  <2> DEFINE b == (n + 1) \div M
             s == (n + 1) % M
             z == r + 1
  <2>2. s = z
    <3>1. b * M + s = a * M + z /\ b \in Nat /\ a \in Nat
      BY <1>2, <1>3, <2>1
    <3>2. s \in 0 .. M - 1 /\ z \in 0 .. M - 1
      BY <1>3, <2>1
    <3> HIDE DEF a, b, s, z, M
    <3>3. QED
      BY <1>1, <3>1, <3>2, DivisionUnique
  <2>3. QED
    BY <1>2, <1>4, <2>2 DEF Suivant
<1>5. CASE r + 1 = M
  <2>1. n + 1 = (a + 1) * M + 0 /\ 0 \in 0 .. M - 1 /\ a + 1 \in Nat
    BY <1>1, <1>2, <1>5
  <2> DEFINE b == (n + 1) \div M
             c == a + 1
             s == (n + 1) % M
             z == 0
  <2>2. s = z
    <3>1. /\ b * M + s = c * M + z /\ b \in Nat /\ c \in Nat
          /\ s \in 0 .. M - 1 /\ z \in 0 .. M - 1
      BY <1>3, <2>1
    <3> HIDE DEF a, b, c, s, z, M
    <3>2. QED
      BY <1>1, <3>1, DivisionUnique
  <2>3. QED
    BY <1>5, <2>2 DEF Suivant
<1>6. QED
  BY <1>1, <1>2, <1>4, <1>5

-----------------------------------------------------------------------------
(* The quotas add up to TOTALDONNEE.                                        *)

LEMMA Partage ==
    ASSUME NEW n \in Nat, NEW q \in Nat, NEW c \in Nat \ {0},
           NEW r \in 0 .. c - 1, NEW x \in 0 .. c - 1,
           n < q + (IF r > x THEN 1 ELSE 0)
    PROVE  n * c + x < q * c + r
<1>0. n * c \in Int /\ q * c \in Int
  OBVIOUS
<1>1. CASE n < q
  BY <1>0, <1>1, Fois
<1>2. CASE n = q
  BY <1>0, <1>2
<1>3. CASE n > q
  BY <1>3
<1>4. QED
  BY <1>1, <1>2, <1>3

LEMMA IterationsProducteurs ==
    LET R == Producteurs \X (0 .. MAXDONNEE - 1)
    IN  IsFiniteSet(R) /\ Cardinality(R) = TOTALDONNEE
<1>1. /\ IsFiniteSet(Producteurs) /\ Cardinality(Producteurs) = nombre_produ
      /\ IsFiniteSet(0 .. MAXDONNEE - 1) /\ Cardinality(0 .. MAXDONNEE - 1) = MAXDONNEE
  <2>1. /\ 0 \in Int /\ nombre_produ - 1 \in Int /\ nombre_produ - 1 >= 0
        /\ MAXDONNEE - 1 \in Int /\ MAXDONNEE \in Nat
    OBVIOUS
  <2>2. IsFiniteSet(0 .. nombre_produ - 1) /\ Cardinality(0 .. nombre_produ - 1) = nombre_produ
    BY <2>1, FS_Interval
  <2>3. IsFiniteSet(0 .. MAXDONNEE - 1) /\ Cardinality(0 .. MAXDONNEE - 1) = MAXDONNEE
    BY <2>1, FS_Interval
  <2>4. QED
    BY <2>2, <2>3 DEF Producteurs
<1>2. QED
  BY <1>1, FS_Product DEF TOTALDONNEE

\* The producers together have TOTALDONNEE iterations, and so have the consumers:
\* n * nombre_conso + (t - nombre_produ) numbers theirs.
LEMMA NombreBorne ==
    ASSUME Socle, NEW Pts, Pts \subseteq DansBoucle
    PROVE  /\ Nombre(Producteurs, Pts) <= TOTALDONNEE
           /\ Nombre(Consommateurs, Pts) <= TOTALDONNEE
<1>1. ASSUME NEW t \in Threads PROVE Fait(t, Pts) <= Quota(t)
  BY QuotaType DEF Fait, Socle, QuotasCoherents, TousPoints
<1>2. Nombre(Producteurs, Pts) <= TOTALDONNEE
  <2> DEFINE R == Producteurs \X (0 .. MAXDONNEE - 1)
  <2>1. Iterations(Producteurs, Pts) \subseteq R
    <3> SUFFICES ASSUME NEW d \in Producteurs \X (0 .. TOTALDONNEE), d[2] < Fait(d[1], Pts)
                 PROVE  d[2] \in 0 .. MAXDONNEE - 1
      BY DEF Iterations, Fait
    <3>1. d[1] \in Threads /\ d[1] \in Producteurs
      BY ThreadsFinis
    <3>2. Quota(d[1]) = MAXDONNEE /\ Fait(d[1], Pts) <= Quota(d[1])
      BY <1>1, <3>1 DEF Quota
    <3>3. Fait(d[1], Pts) \in Int
      BY <3>1 DEF Fait, Socle
    <3>4. QED
      BY <3>2, <3>3, TotalType
  <2>2. IsFiniteSet(R) /\ Cardinality(R) = TOTALDONNEE
    BY IterationsProducteurs
  <2>3. QED
    BY <2>1, <2>2, FS_Subset DEF Nombre
<1>3. Nombre(Consommateurs, Pts) <= TOTALDONNEE
  <2> DEFINE C == nombre_conso
             q == TOTALDONNEE \div C
             r == TOTALDONNEE % C
             U == Iterations(Consommateurs, Pts)
             rang(d) == d[2] * C + (d[1] - nombre_produ)
             f == [d \in U |-> rang(d)]
  <2>1. /\ C \in Nat \ {0} /\ TOTALDONNEE \in Nat
        /\ TOTALDONNEE = q * C + r /\ r \in 0 .. C - 1 /\ q \in Nat
    BY DivisionEuclidienne, TotalType
  <2>2. ASSUME NEW d \in U
        PROVE  /\ d \in Consommateurs \X Nat /\ d[1] \in Int /\ d[1] - nombre_produ \in 0 .. C - 1
               /\ d[2] < q + (IF r > d[1] - nombre_produ THEN 1 ELSE 0)
    <3>1. d \in Consommateurs \X (0 .. TOTALDONNEE) /\ d[2] < Fait(d[1], Pts)
      BY DEF Iterations, Fait
    <3>2. d[1] \in Threads /\ d[1] \notin Producteurs /\ d[1] \in Consommateurs
      BY <3>1, ThreadsFinis
    <3>3. Fait(d[1], Pts) <= Quota(d[1]) /\ Quota(d[1]) \in Nat /\ Fait(d[1], Pts) \in Int
      BY <1>1, <3>2, QuotaType DEF Fait, Socle
    <3>4. Quota(d[1]) = q + (IF r > d[1] - nombre_produ THEN 1 ELSE 0)
      BY <3>2 DEF Quota
    <3>5. d[2] \in Nat /\ d[2] < Quota(d[1])
      BY <3>1, <3>3, TotalType
    <3>6. d[1] \in Int /\ d[1] - nombre_produ \in 0 .. C - 1
      BY <3>2 DEF Consommateurs
    <3>7. QED
      BY <3>1, <3>4, <3>5, <3>6, TotalType
  <2> HIDE DEF C, q, r, U
  <2>3. ASSUME NEW d \in U PROVE rang(d) \in 0 .. TOTALDONNEE - 1
    <3>1. d[2] * C + (d[1] - nombre_produ) < q * C + r
      BY <2>1, <2>2, Partage
    <3>2. QED
      BY <2>1, <2>2, <3>1
  <2>4. ASSUME NEW d \in U, NEW e \in U, rang(d) = rang(e) PROVE d = e
    <3>1. d[2] = e[2] /\ d[1] - nombre_produ = e[1] - nombre_produ
      BY <2>1, <2>2, <2>4, DivisionUnique
    <3>2. QED
      BY <2>2, <3>1
  <2>5. f \in Injection(U, 0 .. TOTALDONNEE - 1)
    BY <2>3, <2>4 DEF Injection, IsInjective
  <2>6. IsFiniteSet(0 .. TOTALDONNEE - 1) /\ Cardinality(0 .. TOTALDONNEE - 1) = TOTALDONNEE
    BY <2>1, FS_Interval
  <2> HIDE DEF f
  <2>7. QED
    BY <2>5, <2>6, FS_Injection DEF U, Nombre
<1>4. QED
  BY <1>2, <1>3

-----------------------------------------------------------------------------
(* The steps that both programs have.                                       *)

LEMMA SocleInitial == InitCompteurs => Socle /\ CompteursBornes
<1> SUFFICES ASSUME InitCompteurs PROVE Socle /\ CompteursBornes
  OBVIOUS
<1> USE DEF InitCompteurs, InitTampon
<1>1. \A t \in Threads : pc[t] = "absent" /\ k[t] = 0 /\ 0 <= Quota(t)
  BY QuotaType
<1>2. Socle
  BY <1>1, ThreadsFinis DEF Socle, QuotasCoherents, CreationCoherente, TousPoints, DansBoucle
<1>3. CompteursBornes
  BY <1>1, MisesAJourType, ThreadsFinis
     DEF CompteursBornes, BornesFull, BornesEmpty, DecFull, IncFull, DecEmpty, IncEmpty
<1>4. QED
  BY <1>2, <1>3

\* main creates, joins and prints.
LEMMA SocleMain ==
    ASSUME Socle, CompteursBornes, Creer \/ Joindre \/ Afficher, UNCHANGED varsCompteurs
    PROVE  Socle' /\ CompteursBornes'
<1> USE DEF varsCompteurs, varsSortie
<1>1. Socle'
  <2> USE DEF Socle
  <2>1. CASE Creer
    <3> USE DEF Creer, Aller, Iteration
    <3> DEFINE x == Boucle(i, 0)
    <3>0. i \in Threads /\ pc \in [Threads -> TousPoints] /\ phase = "creer" /\ i >= i
      BY <2>1, ThreadsFinis
    <3>1. pc[i] = "absent" /\ k[i] = 0 /\ Quota(i) \in Nat
      BY <3>0, QuotaType DEF CreationCoherente, QuotasCoherents
    <3>2. /\ x \in {"attendre", "sorti"} /\ (x = "attendre" => k[i] < Quota(i))
          /\ pc' = [pc EXCEPT ![i] = x] /\ k' = k /\ i' \in Threads
      BY <2>1, <3>1, ThreadsFinis DEF Boucle
    <3>3. pc' \in [Threads -> TousPoints]
      BY <3>0, <3>2 DEF TousPoints, DansBoucle
    <3>4. CreationCoherente'
      BY <2>1, <3>0, <3>2, ThreadsFinis DEF CreationCoherente
    <3> HIDE DEF x
    <3>5. QuotasCoherents'
      BY <3>0, <3>2 DEF QuotasCoherents, DansBoucle
    <3>6. QED
      BY <3>2, <3>3, <3>4, <3>5
  <2>2. CASE Joindre \/ Afficher
    <3> USE DEF Joindre, Afficher, Iteration
    <3>1. UNCHANGED <<pc, k>> /\ phase' # "creer" /\ i' \in Threads
      BY <2>2, ThreadsFinis
    <3>2. QuotasCoherents' /\ CreationCoherente'
      BY <3>1 DEF QuotasCoherents, CreationCoherente
    <3>3. QED
      BY <3>1, <3>2
  <2>3. QED
    BY <2>1, <2>2
<1>2. CompteursBornes'
  <2>2. /\ DecFull' = DecFull /\ IncFull' = IncFull
        /\ DecEmpty' = DecEmpty /\ IncEmpty' = IncEmpty
    BY NombreMain, ThreadsFinis DEF DecFull, IncFull, DecEmpty, IncEmpty, Decremente
  <2>3. \A u \in Threads : pc'[u] \in {"dec_ecrire", "inc_ecrire"} => pc'[u] = pc[u]
    <3>1. pc \in [Threads -> TousPoints] /\ i \in Threads
      BY DEF Socle
    <3>2. QED
      BY <3>1 DEF Creer, Joindre, Afficher, Aller, Boucle
  <2>4. QED
    BY <2>2, <2>3, ThreadsFinis
       DEF CompteursBornes, BornesFull, BornesEmpty, DecFull, IncFull, DecEmpty, IncEmpty
<1>3. QED
  BY <1>1, <1>2

\* What neither moves a thread nor touches a counter.
LEMMA SocleInchange ==
    ASSUME Socle, CompteursBornes, UNCHANGED <<i, pc, k, full, empty, reg>>,
           phase' = "creer" => phase = "creer"
    PROVE  Socle' /\ CompteursBornes'
<1>1. Socle'
  BY DEF Socle, QuotasCoherents, CreationCoherente
<1>2. CompteursBornes'
  BY DEF CompteursBornes, BornesFull, BornesEmpty, Nombre, Iterations
<1>3. QED
  BY <1>1, <1>2

\* A step of a thread in its loop that stores no counter.
LEMMA SocleDansBoucle ==
    ASSUME Socle, CompteursBornes, NEW t \in Threads, NEW x \in DansBoucle,
           pc[t] \in DansBoucle, pc[t] \in Decremente <=> x \in Decremente,
           pc' = [pc EXCEPT ![t] = x], UNCHANGED <<k, full, empty, varsMain>>,
           x \notin {"dec_ecrire", "inc_ecrire"},
           reg' \in [Threads -> Int], \A u \in Threads : u # t => reg'[u] = reg[u]
    PROVE  Socle' /\ CompteursBornes'
<1>1. pc' \in [Threads -> TousPoints] /\ QuotasCoherents' /\ CreationCoherente'
  BY ResteDansBoucle
<1>2. Socle'
  BY <1>1 DEF Socle, varsMain
<1>3. CompteursBornes'
  BY BornesSansEcriture
<1>4. QED
  BY <1>2, <1>3

\* The accesses to the counters, which are followed by "suite".
PasCompteurs(t, suite) ==
    \/ t \in Producteurs /\ CompteursProducteur(t, suite)
    \/ t \in Consommateurs /\ CompteursConsommateur(t, suite)

LEMMA CompteursChemin ==
    ASSUME NEW t \in Threads, NEW suite, PasCompteurs(t, suite)
    PROVE  /\ UNCHANGED <<index_ecriture, index_lecture, liste, phase, i, j, produits, consommes>>
           /\ \/ /\ UNCHANGED k
                 /\ \/ pc[t] = "attendre" /\ Aller(t, "dec_lire")
                    \/ pc[t] = "dec_lire" /\ Aller(t, "dec_ecrire")
                    \/ pc[t] = "dec_ecrire" /\ Aller(t, suite)
                    \/ pc[t] = "inc_lire" /\ Aller(t, "inc_ecrire")
              \/ pc[t] = "inc_ecrire" /\ Reboucler(t)
BY DEF PasCompteurs, CompteursProducteur, CompteursConsommateur, Attendre, Charger, Decrementer,
       Incrementer, inchangeSaufCompteurs, varsMain, varsSortie

LEMMA SocleCompteurs ==
    ASSUME Socle, CompteursBornes, NEW t \in Threads, NEW suite \in {"verrou", "index"},
           PasCompteurs(t, suite)
    PROVE  Socle' /\ CompteursBornes'
<1>1. /\ UNCHANGED <<phase, i>>
      /\ full' \in Int /\ empty' \in Int /\ reg' \in [Threads -> Int]
  BY CompteursChemin
     DEF Socle, PasCompteurs, CompteursProducteur, CompteursConsommateur, Attendre, Charger,
         Decrementer, Incrementer, Oublier, varsCompteurs
<1>2. ASSUME pc[t] = "inc_ecrire", Reboucler(t) PROVE Socle'
  <2> DEFINE x == Boucle(t, k[t] + 1)
  <2>1. /\ pc' = [pc EXCEPT ![t] = x] /\ k' = [k EXCEPT ![t] = k[t] + 1]
        /\ pc \in [Threads -> TousPoints] /\ k \in [Threads -> Nat] /\ i \in Threads
        /\ k[t] < Quota(t) /\ Quota(t) \in Nat
        /\ x \in {"attendre", "sorti"} /\ (x = "attendre" => k[t] + 1 < Quota(t))
    BY <1>2, QuotaType DEF Reboucler, Aller, Socle, QuotasCoherents, DansBoucle, Boucle
  <2> HIDE DEF x
  <2>2. /\ pc' \in [Threads -> TousPoints] /\ k' \in [Threads -> Nat]
        /\ \A u \in Threads : k'[u] <= Quota(u)
    BY <2>1, QuotaType DEF TousPoints, DansBoucle, Socle
  <2>3. QuotasCoherents'
    BY <2>1 DEF QuotasCoherents, DansBoucle, Socle
  <2>4. CreationCoherente'
    BY <1>1, <1>2, <2>1 DEF CreationCoherente, Socle
  <2>5. QED
    BY <1>1, <2>2, <2>3, <2>4 DEF Socle
<1>3. ASSUME ~(pc[t] = "inc_ecrire" /\ Reboucler(t)) PROVE Socle'
  <2>1. PICK x \in {"dec_lire", "dec_ecrire", "verrou", "index", "inc_ecrire"} :
           pc' = [pc EXCEPT ![t] = x]
    BY <1>3, CompteursChemin DEF Aller
  <2>2. pc[t] \in DansBoucle /\ x \in DansBoucle /\ UNCHANGED k
    BY <1>3, CompteursChemin DEF DansBoucle
  <2>3. pc' \in [Threads -> TousPoints] /\ QuotasCoherents' /\ CreationCoherente'
    BY <1>1, <2>1, <2>2, ResteDansBoucle DEF varsMain
  <2>4. QED
    BY <1>1, <2>2, <2>3 DEF Socle
<1>4. Socle'
  BY <1>2, <1>3
<1>5. CompteursBornes'
  <2>1. CASE Attendre(empty, t) \/ Attendre(full, t)
    <3>1. /\ pc[t] = "attendre" /\ pc' = [pc EXCEPT ![t] = "dec_lire"]
          /\ UNCHANGED <<k, full, empty, reg>>
      BY <2>1 DEF Attendre, Aller, varsCompteurs
    <3>2. pc[t] \in DansBoucle /\ "dec_lire" \in DansBoucle /\ pc[t] \notin Decremente
          /\ "dec_lire" \notin Decremente
      BY <3>1 DEF DansBoucle, Decremente
    <3>3. QED
      BY <3>1, <3>2, BornesSansEcriture
  <2>2. QED
    BY <2>1, BornesCharger, BornesDecrementer, BornesIncrementer
       DEF PasCompteurs, CompteursProducteur, CompteursConsommateur
<1>6. QED
  BY <1>4, <1>5

\* Lost updates never take a counter further than TOTALDONNEE from its start.
LEMMA CompteursDansBornes == Socle /\ CompteursBornes => TypeOKCompteurs
<1> SUFFICES ASSUME Socle, CompteursBornes PROVE TypeOKCompteurs
  OBVIOUS
<1>1. /\ DecFull \in 0 .. TOTALDONNEE /\ DecEmpty \in 0 .. TOTALDONNEE
      /\ IncFull \in 0 .. TOTALDONNEE /\ IncEmpty \in 0 .. TOTALDONNEE
  <2>1. Decremente \subseteq DansBoucle /\ {} \subseteq DansBoucle
    BY DEF Decremente, DansBoucle
  <2>2. /\ DecFull <= TOTALDONNEE /\ DecEmpty <= TOTALDONNEE
        /\ IncFull <= TOTALDONNEE /\ IncEmpty <= TOTALDONNEE
    BY <2>1, NombreBorne DEF DecFull, DecEmpty, IncFull, IncEmpty
  <2>3. QED
    BY <2>2, MisesAJourType, TotalType
<1>2. /\ -DecFull <= full /\ full <= IncFull
      /\ -DecEmpty <= empty - TAILLE_MAX /\ empty - TAILLE_MAX <= IncEmpty
  BY DEF CompteursBornes, BornesFull, BornesEmpty, DecFull, DecEmpty, IncFull, IncEmpty
<1>3. full \in Int /\ empty \in Int /\ reg \in [Threads -> Int]
  BY DEF Socle
<1>4. QED
  BY <1>1, <1>2, <1>3, TotalType DEF TypeOKCompteurs

-----------------------------------------------------------------------------
(* ProducConsoMutex: the types and the mutexes.                             *)

Critique == {"index", "acces", "deverrou"}
Points   == PointsCompteurs \cup {"verrou", "index", "acces", "deverrou"}

VerrousCoherents ==
    /\ \A t \in Producteurs : mutex_prod = t <=> pc[t] \in Critique
    /\ \A t \in Consommateurs : mutex_cons = t <=> pc[t] \in Critique

Controle ==
    /\ Socle /\ CompteursBornes
    /\ TypeOKTampon(Points, Cases)
    /\ mutex_prod \in Producteurs \cup {Libre}
    /\ mutex_cons \in Consommateurs \cup {Libre}
    /\ VerrousCoherents

LEMMA SuivantCase == \A x \in Cases : Suivant(x) \in Cases
BY DEF Suivant, Cases

LEMMA InitControle == Init => Controle
<1> SUFFICES ASSUME Init PROVE Controle
  OBVIOUS
<1>1. Socle /\ CompteursBornes
  BY SocleInitial DEF Init
<1> USE DEF Init, InitCompteurs, InitTampon
<1>2. TypeOKTampon(Points, Cases)
  <2>1. \A t \in Threads : 0 <= Quota(t)
    BY QuotaType
  <2>2. QED
    BY <2>1, ThreadsFinis DEF TypeOKTampon, Points, PointsCompteurs, Cases
<1>3. VerrousCoherents
  BY ThreadsFinis DEF VerrousCoherents, Critique, Libre
<1>4. QED
  BY <1>1, <1>2, <1>3 DEF Controle

LEMMA MainControle == ASSUME Controle, main PROVE Controle'
<1>1. Socle' /\ CompteursBornes'
  BY SocleMain DEF Controle, main
<1> USE DEF Controle, varsCompteurs, varsMutex, varsSortie
<1>2. CASE Creer
  <2> USE DEF Creer, Aller, Iteration
  <2> DEFINE x == Boucle(i, 0)
  <2>0. i \in Threads /\ pc \in [Threads -> Points] /\ phase = "creer" /\ i >= i
    BY <1>2, ThreadsFinis DEF TypeOKTampon
  <2>1. pc[i] = "absent"
    BY <2>0 DEF Socle, CreationCoherente
  <2>2. x \in {"attendre", "sorti"} /\ pc' = [pc EXCEPT ![i] = x] /\ UNCHANGED varsMutex
    BY <1>2, <2>1 DEF Boucle, main
  <2>3. TypeOKTampon(Points, Cases)'
    BY <1>2, <2>0, <2>2, ThreadsFinis DEF TypeOKTampon, Points, PointsCompteurs
  <2> HIDE DEF x
  <2>4. VerrousCoherents'
    BY <2>0, <2>1, <2>2, ThreadsFinis DEF VerrousCoherents, Critique
  <2>5. QED
    BY <1>1, <2>2, <2>3, <2>4
<1>3. CASE Joindre \/ Afficher
  <2> USE DEF Joindre, Afficher, Iteration
  <2>1. UNCHANGED <<pc, varsMutex>>
    BY <1>3 DEF main
  <2>2. TypeOKTampon(Points, Cases)'
    BY <1>3, ThreadsFinis DEF TypeOKTampon
  <2>3. VerrousCoherents'
    BY <2>1 DEF VerrousCoherents
  <2>4. QED
    BY <1>1, <2>1, <2>2, <2>3
<1>4. QED
  BY <1>2, <1>3 DEF main

\* The accesses to the counters.
LEMMA CompteursControle ==
    ASSUME Controle, NEW t \in Threads, UNCHANGED varsMutex, PasCompteurs(t, "verrou")
    PROVE  Controle'
<1>1. Socle' /\ CompteursBornes'
  BY SocleCompteurs DEF Controle
<1> USE DEF Controle
<1>2. UNCHANGED <<index_ecriture, index_lecture, liste, phase, i, j, produits, consommes,
                  mutex_prod, mutex_cons>>
  BY CompteursChemin DEF varsMutex
<1>3. \E x \in Points \ Critique : pc[t] \notin Critique /\ pc' = [pc EXCEPT ![t] = x]
  BY CompteursChemin DEF Aller, Reboucler, Boucle, Points, PointsCompteurs, Critique
<1>4. PICK x \in Points \ Critique : pc[t] \notin Critique /\ pc' = [pc EXCEPT ![t] = x]
  BY <1>3
<1>5. TypeOKTampon(Points, Cases)'
  BY <1>1, <1>2, <1>4 DEF TypeOKTampon, Socle
<1>6. VerrousCoherents'
  BY <1>2, <1>4, ThreadsFinis DEF VerrousCoherents, TypeOKTampon
<1>7. QED
  BY <1>1, <1>2, <1>5, <1>6

\* Taking and giving back a mutex.
LEMMA VerrouillerControle ==
    ASSUME Controle, NEW t \in Threads,
           \/ t \in Producteurs /\ Verrouiller(mutex_prod, t) /\ UNCHANGED mutex_cons
           \/ t \in Consommateurs /\ Verrouiller(mutex_cons, t) /\ UNCHANGED mutex_prod
    PROVE  Controle'
<1> USE DEF Controle, Verrouiller, Aller, inchangeSaufCompteurs, varsMain, varsSortie, varsCompteurs
<1>1. /\ pc[t] = "verrou" /\ pc' = [pc EXCEPT ![t] = "index"]
      /\ UNCHANGED <<k, full, empty, reg, varsMain>>
  OBVIOUS
<1>2. Socle' /\ CompteursBornes'
  BY <1>1, SocleDansBoucle DEF DansBoucle, Decremente, Socle
<1>3. VerrousCoherents'
  BY <1>1, ThreadsFinis DEF VerrousCoherents, Critique, Libre, TypeOKTampon
<1>4. TypeOKTampon(Points, Cases)'
  BY <1>1 DEF TypeOKTampon, Points
<1>5. QED
  BY <1>2, <1>3, <1>4

LEMMA DeverrouillerControle ==
    ASSUME Controle, NEW t \in Threads,
           \/ t \in Producteurs /\ Deverrouiller(mutex_prod, t) /\ UNCHANGED mutex_cons
           \/ t \in Consommateurs /\ Deverrouiller(mutex_cons, t) /\ UNCHANGED mutex_prod
    PROVE  Controle'
<1> USE DEF Controle, Deverrouiller, Aller, inchangeSaufCompteurs, varsMain, varsSortie, varsCompteurs
<1>1. /\ pc[t] = "deverrou" /\ pc' = [pc EXCEPT ![t] = "inc_lire"]
      /\ UNCHANGED <<k, full, empty, reg, varsMain>>
  OBVIOUS
<1>2. Socle' /\ CompteursBornes'
  BY <1>1, SocleDansBoucle DEF DansBoucle, Decremente, Socle
<1>3. VerrousCoherents'
  BY <1>1, ThreadsFinis DEF VerrousCoherents, Critique, Libre, TypeOKTampon
<1>4. TypeOKTampon(Points, Cases)'
  BY <1>1 DEF TypeOKTampon, Points, PointsCompteurs
<1>5. QED
  BY <1>2, <1>3, <1>4

\* Under a mutex: the index and its successor, then the slot.
LEMMA ReserverControle ==
    ASSUME Controle, NEW t \in Threads, UNCHANGED <<varsCompteurs, varsMutex>>,
           \/ t \in Producteurs /\ ReserverEcriture(t)
           \/ t \in Consommateurs /\ ReserverLecture(t)
    PROVE  Controle'
<1> USE DEF Controle, ReserverEcriture, ReserverLecture, Aller, varsMain, varsSortie,
            varsCompteurs, varsMutex
<1>1. /\ pc[t] = "index" /\ pc' = [pc EXCEPT ![t] = "acces"]
      /\ UNCHANGED <<k, full, empty, reg, varsMain>>
  OBVIOUS
<1>2. Socle' /\ CompteursBornes'
  BY <1>1, SocleDansBoucle DEF DansBoucle, Decremente, Socle
<1>3. VerrousCoherents'
  BY <1>1, ThreadsFinis DEF VerrousCoherents, Critique, TypeOKTampon
<1>4. TypeOKTampon(Points, Cases)'
  BY <1>1, SuivantCase DEF TypeOKTampon, Points
<1>5. QED
  BY <1>2, <1>3, <1>4

\* A datum into its slot, or out of it.
LEMMA AccesType ==
    ASSUME Socle, NEW t \in Threads, pc[t] = "acces", j[t] \in Cases, NEW suite,
           liste \in [Cases -> Donnees \cup {Vide}], produits \in Seq(Donnees),
           consommes \in Seq(Donnees \cup {Vide, Melange}),
           \/ t \in Producteurs /\ Ecrire(t, suite)
           \/ t \in Consommateurs /\ Lire(t, suite)
    PROVE  /\ liste' \in [Cases -> Donnees \cup {Vide}] /\ produits' \in Seq(Donnees)
           /\ consommes' \in Seq(Donnees \cup {Vide, Melange})
<1>1. k[t] \in Nat /\ k[t] < Quota(t) /\ Quota(t) \in Nat
  BY QuotaType DEF Socle, QuotasCoherents, DansBoucle
<1>2. CASE t \in Producteurs /\ Ecrire(t, suite)
  <2>1. <<t, k[t]>> \in Donnees
    BY <1>1, <1>2 DEF Quota, Donnees
  <2>2. QED
    BY <1>2, <2>1 DEF Ecrire
<1>3. CASE t \in Consommateurs /\ Lire(t, suite)
  <2>1. Lisible(j[t]) \subseteq Donnees \cup {Vide, Melange}
    BY DEF Lisible
  <2>2. QED
    BY <1>3, <2>1 DEF Lire
<1>4. QED
  BY <1>2, <1>3

LEMMA AccederControle ==
    ASSUME Controle, NEW t \in Threads, UNCHANGED <<varsCompteurs, varsMutex>>,
           \/ t \in Producteurs /\ Ecrire(t, "deverrou")
           \/ t \in Consommateurs /\ Lire(t, "deverrou")
    PROVE  Controle'
<1> USE DEF Controle, Aller, varsMain, varsSortie, varsCompteurs, varsMutex
<1>1. /\ pc[t] = "acces" /\ pc' = [pc EXCEPT ![t] = "deverrou"]
      /\ UNCHANGED <<k, j, full, empty, reg, varsMain, index_ecriture, index_lecture>>
  BY DEF Ecrire, Lire
<1>2. Socle' /\ CompteursBornes'
  BY <1>1, SocleDansBoucle DEF DansBoucle, Decremente, Socle
<1>3. VerrousCoherents'
  BY <1>1, ThreadsFinis DEF VerrousCoherents, Critique, TypeOKTampon
<1>4. /\ liste' \in [Cases -> Donnees \cup {Vide}] /\ produits' \in Seq(Donnees)
      /\ consommes' \in Seq(Donnees \cup {Vide, Melange})
  BY <1>1, AccesType DEF TypeOKTampon
<1>5. TypeOKTampon(Points, Cases)'
  BY <1>1, <1>4 DEF TypeOKTampon, Points
<1>6. QED
  BY <1>2, <1>3, <1>5

LEMMA NextControle == Controle /\ [Next]_vars => Controle'
<1> SUFFICES ASSUME Controle, [Next]_vars PROVE Controle'
  OBVIOUS
<1>1. ASSUME NEW t \in Producteurs, producteur(t) PROVE Controle'
  BY <1>1, ThreadsFinis, CompteursControle, VerrouillerControle, ReserverControle,
     AccederControle, DeverrouillerControle DEF producteur, PasCompteurs
<1>2. ASSUME NEW t \in Consommateurs, consommateur(t) PROVE Controle'
  BY <1>2, ThreadsFinis, CompteursControle, VerrouillerControle, ReserverControle,
     AccederControle, DeverrouillerControle DEF consommateur, PasCompteurs
<1>3. CASE UNCHANGED vars
  <2>1. Socle' /\ CompteursBornes'
    BY <1>3, SocleInchange DEF vars, vars0, varsTampon, varsCompteurs, Controle
  <2>2. QED
    BY <1>3, <2>1 DEF vars, vars0, varsTampon, varsCompteurs, varsMutex, Controle, TypeOKTampon,
                      VerrousCoherents
<1>4. QED
  BY <1>1, <1>2, <1>3, MainControle DEF Next, Termine

-----------------------------------------------------------------------------
(* ProducConsoMutex: the indices.                                           *)

Reserve == {"acces", "deverrou", "inc_lire", "inc_ecrire"}

\* Each index is the number of reservations, which is also the number of lines
\* printed, and one more while a thread is at its slot.
Occupe(S) == \E t \in S : pc[t] = "acces"

IndexExact(S, index, lignes) ==
    /\ index = Nombre(S, Reserve) % TAILLE_MAX
    /\ Nombre(S, Reserve) = Len(lignes) + (IF Occupe(S) THEN 1 ELSE 0)
    /\ \A t \in S : pc[t] = "acces" => j[t] = Len(lignes) % TAILLE_MAX

IndexExacts ==
    /\ IndexExact(Producteurs, index_ecriture, produits)
    /\ IndexExact(Consommateurs, index_lecture, consommes)

LEMMA InitIndex == Init => IndexExacts
<1> SUFFICES ASSUME Init PROVE IndexExacts
  OBVIOUS
<1> USE DEF Init, InitCompteurs, InitTampon
<1>1. ASSUME NEW S, S \subseteq Threads PROVE Nombre(S, Reserve) = 0 /\ ~Occupe(S)
  <2>1. \A u \in S : pc[u] = "absent" /\ k[u] + (IF pc[u] \in Reserve THEN 1 ELSE 0) = 0
    BY <1>1 DEF Reserve
  <2>2. Iterations(S, Reserve) = {}
    <3> SUFFICES ASSUME NEW d \in S \X (0 .. TOTALDONNEE),
                        d[2] < k[d[1]] + (IF pc[d[1]] \in Reserve THEN 1 ELSE 0)
                 PROVE  FALSE
      BY DEF Iterations
    <3>1. d[2] < 0 /\ d[2] \in 0 .. TOTALDONNEE
      BY <2>1
    <3>2. QED
      BY <3>1, TotalType
  <2>3. QED
    BY <2>1, <2>2, FS_EmptySet DEF Nombre, Occupe
<1>2. 0 % TAILLE_MAX = 0 /\ Len(produits) = 0 /\ Len(consommes) = 0
  OBVIOUS
<1>3. ASSUME NEW S, S \subseteq Threads, NEW lignes, Len(lignes) = 0
      PROVE  IndexExact(S, 0, lignes)
  BY <1>1, <1>2, <1>3 DEF IndexExact, Occupe
<1>4. QED
  BY <1>2, <1>3, ThreadsFinis DEF IndexExacts

\* A step that neither reserves a slot nor uses one.
LEMMA IndexInchanges ==
    ASSUME IndexExacts,
           UNCHANGED <<index_ecriture, index_lecture, produits, consommes, j>>,
           Nombre(Producteurs, Reserve)' = Nombre(Producteurs, Reserve),
           Nombre(Consommateurs, Reserve)' = Nombre(Consommateurs, Reserve),
           \A u \in Threads : pc'[u] = "acces" <=> pc[u] = "acces"
    PROVE  IndexExacts'
<1>1. Occupe(Producteurs)' = Occupe(Producteurs) /\ Occupe(Consommateurs)' = Occupe(Consommateurs)
  BY ThreadsFinis DEF Occupe
<1>2. QED
  BY <1>1, ThreadsFinis DEF IndexExacts, IndexExact

\* The same for one kind of threads, while the other kind takes a step.
LEMMA IndexAutres ==
    ASSUME Controle, NEW S, S \subseteq Threads, IsFiniteSet(S), NEW t \in Threads, t \notin S,
           NEW x, pc[t] \in DansBoucle, pc[t] \in Reserve => x \in Reserve,
           pc' = [pc EXCEPT ![t] = x], UNCHANGED k, \A u \in S : j'[u] = j[u]
    PROVE  /\ Nombre(S, Reserve)' = Nombre(S, Reserve)
           /\ Occupe(S)' = Occupe(S)
           /\ \A u \in S : pc'[u] = "acces" => pc[u] = "acces" /\ j'[u] = j[u]
<1>1. pc \in [Threads -> Points] /\ \A u \in S : pc'[u] = pc[u]
  BY DEF Controle, TypeOKTampon
<1>2. Nombre(S, Reserve)' = Nombre(S, Reserve)
  BY NombreDansBoucle DEF Controle
<1>3. QED
  BY <1>1, <1>2 DEF Occupe

\* j = index and the successor of the index: nobody else of the kind is at a slot,
\* because the thread holds the mutex.
LEMMA ReserverIndex ==
    ASSUME Controle, IndexExacts, NEW t \in Threads,
           \/ t \in Producteurs /\ ReserverEcriture(t)
           \/ t \in Consommateurs /\ ReserverLecture(t)
    PROVE  IndexExacts'
<1> USE DEF ReserverEcriture, ReserverLecture, Aller, varsSortie
<1>1. /\ pc \in [Threads -> Points] /\ j \in [Threads -> Cases]
      /\ pc[t] = "index" /\ pc' = [pc EXCEPT ![t] = "acces"] /\ UNCHANGED <<k, produits, consommes>>
      /\ Len(produits) \in Nat /\ Len(consommes) \in Nat
  BY DEF Controle, TypeOKTampon
<1>2. pc[t] \in DansBoucle /\ pc[t] \notin Reserve /\ "acces" \in Reserve
  BY <1>1 DEF DansBoucle, Reserve
<1>3. CASE t \in Producteurs /\ ReserverEcriture(t)
  <2>1. t \notin Consommateurs /\ UNCHANGED index_lecture /\ \A u \in Consommateurs : j'[u] = j[u]
    BY <1>1, <1>3, ThreadsFinis
  <2>2. IndexExact(Consommateurs, index_lecture, consommes)'
    BY <1>1, <1>2, <2>1, IndexAutres, ThreadsFinis DEF IndexExacts, IndexExact
  <2>3. Nombre(Producteurs, Reserve)' = Nombre(Producteurs, Reserve) + 1
    BY <1>1, <1>2, <1>3, NombreDansBoucle, ThreadsFinis DEF Controle
  <2>4. \A u \in Producteurs : pc[u] # "acces" /\ (pc'[u] = "acces" => u = t)
    BY <1>1, <1>3, ThreadsFinis DEF Controle, VerrousCoherents, Critique
  <2>5. /\ ~Occupe(Producteurs) /\ Occupe(Producteurs)'
        /\ Nombre(Producteurs, Reserve) = Len(produits)
        /\ index_ecriture = Len(produits) % TAILLE_MAX
    <3>1. ~Occupe(Producteurs)
      BY <2>4 DEF Occupe
    <3>2. Occupe(Producteurs)'
      BY <1>1, <1>3 DEF Occupe
    <3>3. /\ Nombre(Producteurs, Reserve) = Len(produits) + 0
          /\ index_ecriture = Nombre(Producteurs, Reserve) % TAILLE_MAX
      BY <3>1 DEF IndexExacts, IndexExact
    <3>4. QED
      BY <1>1, <3>1, <3>2, <3>3
  <2>6. index_ecriture' = (Len(produits) + 1) % TAILLE_MAX
    BY <1>1, <1>3, <2>5, SuivantModulo
  <2>7. j'[t] = index_ecriture
    BY <1>1, <1>3
  <2>8. IndexExact(Producteurs, index_ecriture, produits)'
    BY <1>1, <2>3, <2>4, <2>5, <2>6, <2>7 DEF IndexExact
  <2>9. QED
    BY <2>2, <2>8 DEF IndexExacts
<1>4. CASE t \in Consommateurs /\ ReserverLecture(t)
  <2>1. t \notin Producteurs /\ UNCHANGED index_ecriture /\ \A u \in Producteurs : j'[u] = j[u]
    BY <1>1, <1>4, ThreadsFinis
  <2>2. IndexExact(Producteurs, index_ecriture, produits)'
    BY <1>1, <1>2, <2>1, IndexAutres, ThreadsFinis DEF IndexExacts, IndexExact
  <2>3. Nombre(Consommateurs, Reserve)' = Nombre(Consommateurs, Reserve) + 1
    BY <1>1, <1>2, <1>4, NombreDansBoucle, ThreadsFinis DEF Controle
  <2>4. \A u \in Consommateurs : pc[u] # "acces" /\ (pc'[u] = "acces" => u = t)
    BY <1>1, <1>4, ThreadsFinis DEF Controle, VerrousCoherents, Critique
  <2>5. /\ ~Occupe(Consommateurs) /\ Occupe(Consommateurs)'
        /\ Nombre(Consommateurs, Reserve) = Len(consommes)
        /\ index_lecture = Len(consommes) % TAILLE_MAX
    <3>1. ~Occupe(Consommateurs)
      BY <2>4 DEF Occupe
    <3>2. Occupe(Consommateurs)'
      BY <1>1, <1>4 DEF Occupe
    <3>3. /\ Nombre(Consommateurs, Reserve) = Len(consommes) + 0
          /\ index_lecture = Nombre(Consommateurs, Reserve) % TAILLE_MAX
      BY <3>1 DEF IndexExacts, IndexExact
    <3>4. QED
      BY <1>1, <3>1, <3>2, <3>3
  <2>6. index_lecture' = (Len(consommes) + 1) % TAILLE_MAX
    BY <1>1, <1>4, <2>5, SuivantModulo
  <2>7. j'[t] = index_lecture
    BY <1>1, <1>4
  <2>8. IndexExact(Consommateurs, index_lecture, consommes)'
    BY <1>1, <2>3, <2>4, <2>5, <2>6, <2>7 DEF IndexExact
  <2>9. QED
    BY <2>2, <2>8 DEF IndexExacts
<1>5. QED
  BY <1>3, <1>4

\* The access to the slot, which prints a line.
LEMMA AccederIndex ==
    ASSUME Controle, IndexExacts, NEW t \in Threads,
           \/ t \in Producteurs /\ Ecrire(t, "deverrou")
           \/ t \in Consommateurs /\ Lire(t, "deverrou")
    PROVE  IndexExacts'
<1> USE DEF Aller
<1>1. /\ pc \in [Threads -> Points] /\ pc[t] = "acces" /\ pc' = [pc EXCEPT ![t] = "deverrou"]
      /\ UNCHANGED <<k, j, index_ecriture, index_lecture>>
      /\ produits \in Seq(Donnees) /\ consommes \in Seq(Donnees \cup {Vide, Melange})
      /\ Len(produits) \in Nat /\ Len(consommes) \in Nat
  BY DEF Controle, TypeOKTampon, Ecrire, Lire
<1>2. pc[t] \in DansBoucle /\ pc[t] \in Reserve /\ "deverrou" \in Reserve
  BY <1>1 DEF DansBoucle, Reserve
<1>3. CASE t \in Producteurs /\ Ecrire(t, "deverrou")
  <2>1. t \notin Consommateurs /\ UNCHANGED consommes /\ \A u \in Consommateurs : j'[u] = j[u]
    BY <1>1, <1>3, ThreadsFinis DEF Ecrire
  <2>2. IndexExact(Consommateurs, index_lecture, consommes)'
    BY <1>1, <1>2, <2>1, IndexAutres, ThreadsFinis DEF IndexExacts, IndexExact
  <2>3. Nombre(Producteurs, Reserve)' = Nombre(Producteurs, Reserve)
    BY <1>1, <1>2, <1>3, NombreDansBoucle, ThreadsFinis DEF Controle
  <2>4. \A u \in Producteurs : pc'[u] # "acces"
    BY <1>1, <1>3, ThreadsFinis DEF Controle, VerrousCoherents, Critique
  <2>5. /\ Occupe(Producteurs) /\ ~Occupe(Producteurs)'
        /\ Nombre(Producteurs, Reserve) = Len(produits) + 1
    BY <1>1, <1>3, <2>4 DEF Occupe, IndexExacts, IndexExact
  <2>6. Len(produits') = Len(produits) + 1
    BY <1>1, <1>3 DEF Ecrire
  <2>7. index_ecriture' = Nombre(Producteurs, Reserve) % TAILLE_MAX
    BY <1>1 DEF IndexExacts, IndexExact
  <2>8. IndexExact(Producteurs, index_ecriture, produits)'
    BY <1>1, <2>3, <2>4, <2>5, <2>6, <2>7 DEF IndexExact
  <2>9. QED
    BY <2>2, <2>8 DEF IndexExacts
<1>4. CASE t \in Consommateurs /\ Lire(t, "deverrou")
  <2>1. t \notin Producteurs /\ UNCHANGED produits /\ \A u \in Producteurs : j'[u] = j[u]
    BY <1>1, <1>4, ThreadsFinis DEF Lire
  <2>2. IndexExact(Producteurs, index_ecriture, produits)'
    BY <1>1, <1>2, <2>1, IndexAutres, ThreadsFinis DEF IndexExacts, IndexExact
  <2>3. Nombre(Consommateurs, Reserve)' = Nombre(Consommateurs, Reserve)
    BY <1>1, <1>2, <1>4, NombreDansBoucle, ThreadsFinis DEF Controle
  <2>4. \A u \in Consommateurs : pc'[u] # "acces"
    BY <1>1, <1>4, ThreadsFinis DEF Controle, VerrousCoherents, Critique
  <2>5. /\ Occupe(Consommateurs) /\ ~Occupe(Consommateurs)'
        /\ Nombre(Consommateurs, Reserve) = Len(consommes) + 1
    BY <1>1, <1>4, <2>4 DEF Occupe, IndexExacts, IndexExact
  <2>6. Len(consommes') = Len(consommes) + 1
    BY <1>1, <1>4 DEF Lire
  <2>7. index_lecture' = Nombre(Consommateurs, Reserve) % TAILLE_MAX
    BY <1>1 DEF IndexExacts, IndexExact
  <2>8. IndexExact(Consommateurs, index_lecture, consommes)'
    BY <1>1, <2>3, <2>4, <2>5, <2>6, <2>7 DEF IndexExact
  <2>9. QED
    BY <2>2, <2>8 DEF IndexExacts
<1>5. QED
  BY <1>3, <1>4

\* The steps that touch neither the indices nor the slots.
LEMMA IndexSansAcces ==
    ASSUME Controle, IndexExacts, NEW t \in Threads,
           \/ PasCompteurs(t, "verrou")
           \/ Verrouiller(mutex_prod, t) \/ Verrouiller(mutex_cons, t)
           \/ Deverrouiller(mutex_prod, t) \/ Deverrouiller(mutex_cons, t)
    PROVE  IndexExacts'
<1> USE CompteursChemin DEF Verrouiller, Deverrouiller
<1>1. UNCHANGED <<index_ecriture, index_lecture, produits, consommes, j>>
  BY DEF inchangeSaufCompteurs, varsSortie
<1>2. \/ /\ UNCHANGED k
         /\ \/ pc[t] = "attendre" /\ Aller(t, "dec_lire")
            \/ pc[t] = "dec_lire" /\ Aller(t, "dec_ecrire")
            \/ pc[t] = "dec_ecrire" /\ Aller(t, "verrou")
            \/ pc[t] = "verrou" /\ Aller(t, "index")
            \/ pc[t] = "deverrou" /\ Aller(t, "inc_lire")
            \/ pc[t] = "inc_lire" /\ Aller(t, "inc_ecrire")
      \/ pc[t] = "inc_ecrire" /\ Reboucler(t)
  OBVIOUS
<1> USE DEF Aller
<1>3. pc \in [Threads -> Points]
  BY DEF Controle, TypeOKTampon
<1>4. CASE pc[t] = "inc_ecrire" /\ Reboucler(t)
  <2>1. /\ Nombre(Producteurs, Reserve)' = Nombre(Producteurs, Reserve)
        /\ Nombre(Consommateurs, Reserve)' = Nombre(Consommateurs, Reserve)
    BY <1>4, NombreReboucle, ThreadsFinis DEF Reserve, Controle
  <2>2. \A u \in Threads : pc'[u] = "acces" <=> pc[u] = "acces"
    BY <1>3, <1>4 DEF Reboucler, Boucle
  <2>3. QED
    BY <1>1, <2>1, <2>2, IndexInchanges
<1>5. CASE pc[t] # "inc_ecrire"
  <2>1. PICK x \in {"dec_lire", "dec_ecrire", "verrou", "index", "inc_lire", "inc_ecrire"} :
           pc' = [pc EXCEPT ![t] = x] /\ (pc[t] \in Reserve <=> x \in Reserve)
    BY <1>2, <1>5 DEF Reserve
  <2>2. pc[t] \in DansBoucle /\ UNCHANGED k /\ pc[t] # "acces" /\ x # "acces"
    BY <1>2, <1>5 DEF DansBoucle
  <2>3. /\ Nombre(Producteurs, Reserve)' = Nombre(Producteurs, Reserve)
        /\ Nombre(Consommateurs, Reserve)' = Nombre(Consommateurs, Reserve)
    BY <2>1, <2>2, NombreDansBoucle, ThreadsFinis DEF Controle
  <2>4. \A u \in Threads : pc'[u] = "acces" <=> pc[u] = "acces"
    BY <1>3, <2>1, <2>2
  <2>5. QED
    BY <1>1, <2>3, <2>4, IndexInchanges
<1>6. QED
  BY <1>2, <1>4, <1>5

LEMMA NextIndex == Controle /\ IndexExacts /\ [Next]_vars => IndexExacts'
<1> SUFFICES ASSUME Controle, IndexExacts, [Next]_vars PROVE IndexExacts'
  OBVIOUS
<1>1. ASSUME NEW t \in Producteurs, producteur(t) PROVE IndexExacts'
  BY <1>1, ThreadsFinis, IndexSansAcces, ReserverIndex, AccederIndex DEF producteur, PasCompteurs
<1>2. ASSUME NEW t \in Consommateurs, consommateur(t) PROVE IndexExacts'
  BY <1>2, ThreadsFinis, IndexSansAcces, ReserverIndex, AccederIndex DEF consommateur, PasCompteurs
<1>3. CASE main
  <2>1. UNCHANGED <<index_ecriture, index_lecture, produits, consommes, j>>
    BY <1>3 DEF main, Creer, Joindre, Afficher, varsSortie
  <2>2. /\ Nombre(Producteurs, Reserve)' = Nombre(Producteurs, Reserve)
        /\ Nombre(Consommateurs, Reserve)' = Nombre(Consommateurs, Reserve)
    BY <1>3, NombreMain, ThreadsFinis DEF Reserve, main, Controle
  <2>3. \A u \in Threads : pc'[u] = "acces" <=> pc[u] = "acces"
    <3>1. pc \in [Threads -> Points] /\ (Creer => pc[i] = "absent")
      BY ThreadsFinis DEF Controle, Socle, TypeOKTampon, CreationCoherente, Creer, Iteration
    <3>2. QED
      BY <1>3, <3>1 DEF main, Creer, Joindre, Afficher, Aller, Boucle
  <2>4. QED
    BY <2>1, <2>2, <2>3, IndexInchanges
<1>4. CASE UNCHANGED vars
  BY <1>4, IndexInchanges DEF vars, vars0, varsTampon, Nombre, Iterations
<1>5. QED
  BY <1>1, <1>2, <1>3, <1>4 DEF Next, Termine

LEMMA CoherentsExacts == Controle /\ IndexExacts => IndexCoherents
<1> SUFFICES ASSUME Controle, IndexExacts PROVE IndexCoherents
  OBVIOUS
<1>1. TypeOK
  BY CompteursDansBornes DEF Controle, TypeOK, Points
<1>2. QED
  BY <1>1 DEF IndexExacts, IndexExact, IndexCoherents, Reservations, Nombre, Reserve

\* produc_conso_mutex.c, for any numbers of threads, data and slots: whatever the
\* races on empty and full, the mutexes keep the indices exact, no slot is skipped
\* or taken twice in a turn of the array, the lines are printed in the order of
\* the slots, and lost updates never take a counter further than TOTALDONNEE
\* from its initial value.
THEOREM IndexCoherentsExacts == Spec => []IndexCoherents
<1>1. Spec => []Controle
  BY InitControle, NextControle, PTL DEF Spec
<1>2. Spec => []IndexExacts
  BY <1>1, InitIndex, NextIndex, PTL DEF Spec
<1>3. QED
  BY <1>1, <1>2, CoherentsExacts, PTL

-----------------------------------------------------------------------------
(* ProducConsoInt: the threads of one kind, S, and their index.             *)

Genres    == {Producteurs, Consommateurs}
PointsInt == PointsCompteurs \cup MiseAJour \cup {"index", "acces"}

IndexDe(S) == IF S = Producteurs THEN index_ecriture ELSE index_lecture
NomDe(S)   == IF S = Producteurs THEN "ecriture" ELSE "lecture"

\* The points after the store of index++, and after the whole update.
Ranges    == {"idx_tester", "idx_zero", "acces", "inc_lire", "inc_ecrire"}
Reservees == {"acces", "inc_lire", "inc_ecrire"}

\* However the updates race, an index and the copies of it are at most the
\* number of increments that have been stored.
BornesIndex(S) ==
    /\ IndexDe(S) \in 0 .. Nombre(S, Ranges)
    /\ \A t \in S : /\ j[t] \in 0 .. Nombre(S, Ranges)
                    /\ pc[t] = "idx_ecrire" => reg[t] \in 0 .. Nombre(S, Ranges)

\* An index whose updates have never overlapped: at most one thread updates it,
\* and the point of that thread tells how far it is from the reservations.
ExactIndex(S) ==
    LET juste == Nombre(S, Reservees) % TAILLE_MAX
    IN  /\ (\A t \in S : pc[t] \notin MiseAJour) => IndexDe(S) = juste
        /\ \A t \in S :
              /\ pc[t] \in MiseAJour => /\ j[t] = juste
                                        /\ \A u \in S : pc[u] \in MiseAJour => u = t
              /\ pc[t] \in {"idx_lire", "idx_ecrire"} => IndexDe(S) = juste
              /\ pc[t] = "idx_ecrire" => reg[t] = juste
              /\ pc[t] = "idx_tester" => IndexDe(S) = juste + 1
              /\ pc[t] = "idx_zero" => juste + 1 = TAILLE_MAX
              /\ pc[t] = "acces" => j[t] \in Cases

ControleInt ==
    /\ Socle /\ CompteursBornes
    /\ phase \in {"creer", "joindre", "afficher", "fini", "indefini"}
    /\ pc \in [Threads -> PointsInt]
    /\ liste \in [Cases -> Donnees \cup {Vide}]
    /\ j \in [Threads -> Int]
    /\ produits \in Seq(Donnees)
    /\ consommes \in Seq(Donnees \cup {Vide, Melange})
    /\ \A S \in Genres : BornesIndex(S)

ExactInt == \A S \in Genres : NomDe(S) \notin chevauche => ExactIndex(S)

LEMMA GenresDistincts ==
    /\ Producteurs # Consommateurs
    /\ \A S \in Genres : S \subseteq Threads /\ IsFiniteSet(S)
    /\ \A S \in Genres : \A A \in Genres : S # A => S \cap A = {} /\ NomDe(S) # NomDe(A)
    /\ \A t \in Threads : \E S \in Genres : t \in S
<1>1. 0 \in Producteurs /\ 0 \notin Consommateurs
  BY DEF Producteurs, Consommateurs
<1>2. QED
  BY <1>1, ThreadsFinis DEF Genres, NomDe, Threads

\* The points of the update, in order, with what each step does to the index.
PasIndex(S, t) ==
    \/ /\ pc[t] = "index" /\ Aller(t, "idx_lire")
       /\ j' = [j EXCEPT ![t] = IndexDe(S)]
       /\ chevauche' = chevauche \cup {n \in {NomDe(S)} : \E u \in S : pc[u] \in MiseAJour}
       /\ IndexDe(S)' = IndexDe(S) /\ UNCHANGED reg
    \/ /\ pc[t] = "idx_lire" /\ Aller(t, "idx_ecrire")
       /\ reg' = [reg EXCEPT ![t] = IndexDe(S)]
       /\ IndexDe(S)' = IndexDe(S) /\ UNCHANGED <<j, chevauche>>
    \/ /\ pc[t] = "idx_ecrire" /\ Aller(t, "idx_tester")
       /\ Oublier(t)
       /\ IndexDe(S)' = reg[t] + 1 /\ UNCHANGED <<j, chevauche>>
    \/ /\ pc[t] = "idx_tester" /\ Aller(t, "idx_zero") /\ IndexDe(S) = TAILLE_MAX
       /\ IndexDe(S)' = IndexDe(S) /\ UNCHANGED <<j, reg, chevauche>>
    \/ /\ pc[t] = "idx_tester" /\ Aller(t, "acces") /\ IndexDe(S) # TAILLE_MAX
       /\ IndexDe(S)' = IndexDe(S) /\ UNCHANGED <<j, reg, chevauche>>
    \/ /\ pc[t] = "idx_zero" /\ Aller(t, "acces")
       /\ IndexDe(S)' = 0 /\ UNCHANGED <<j, reg, chevauche>>

PasAcces(t) ==
    /\ pc[t] = "acces" /\ j[t] \in Cases
    /\ \/ t \in Producteurs /\ Ecrire(t, "inc_lire")
       \/ t \in Consommateurs /\ Lire(t, "inc_lire")
    /\ UNCHANGED <<varsCompteurs, chevauche>>

LEMMA PasThread ==
    ASSUME NEW S \in Genres, NEW t \in S,
           \/ S = Producteurs /\ producteurInt(t)
           \/ S = Consommateurs /\ consommateurInt(t)
    PROVE  \/ PasCompteurs(t, "index") /\ UNCHANGED chevauche
           \/ /\ PasIndex(S, t)
              /\ UNCHANGED <<liste, k, varsMain, varsSortie, full, empty>>
              /\ \A A \in Genres : A # S => IndexDe(A)' = IndexDe(A)
           \/ PasAcces(t)
           \/ Deborder(t)
<1> DEFINE pas == /\ PasIndex(S, t)
                  /\ UNCHANGED <<liste, k, varsMain, varsSortie, full, empty>>
                  /\ \A A \in Genres : A # S => IndexDe(A)' = IndexDe(A)
<1> USE DEF Index, CopierIndex, ChargerIndex, RangerIndex, TesterIndex, RamenerIndex,
            inchangeSaufIndex, varsCompteurs
<1>1. CASE S = Producteurs /\ producteurInt(t)
  <2>1. ASSUME Index(index_ecriture, "ecriture", Producteurs, t) PROVE pas
    BY <1>1, <2>1, GenresDistincts DEF PasIndex, IndexDe, NomDe, Genres, Aller
  <2>2. ASSUME RangerIndex(index_ecriture, t) \/ RamenerIndex(index_ecriture, t),
               UNCHANGED index_lecture
        PROVE  pas
    BY <1>1, <2>2, GenresDistincts DEF PasIndex, IndexDe, NomDe, Genres
  <2>3. QED
    BY <1>1, <2>1, <2>2 DEF producteurInt, PasCompteurs, PasAcces, Ecrire
<1>2. CASE S = Consommateurs /\ consommateurInt(t)
  <2>1. ASSUME Index(index_lecture, "lecture", Consommateurs, t) PROVE pas
    BY <1>2, <2>1, GenresDistincts DEF PasIndex, IndexDe, NomDe, Genres, Aller
  <2>2. ASSUME RangerIndex(index_lecture, t) \/ RamenerIndex(index_lecture, t),
               UNCHANGED index_ecriture
        PROVE  pas
    BY <1>2, <2>2, GenresDistincts DEF PasIndex, IndexDe, NomDe, Genres
  <2>3. QED
    BY <1>2, <2>1, <2>2 DEF consommateurInt, PasCompteurs, PasAcces, Lire
<1>3. QED
  BY <1>1, <1>2

LEMMA InitControleInt == InitInt => ControleInt /\ ExactInt
<1> SUFFICES ASSUME InitInt PROVE ControleInt /\ ExactInt
  OBVIOUS
<1>1. Socle /\ CompteursBornes
  BY SocleInitial DEF InitInt
<1> USE DEF InitInt, InitCompteurs, InitTampon
<1>2. ASSUME NEW S \in Genres, NEW Pts, "absent" \notin Pts PROVE Nombre(S, Pts) = 0
  <2>1. Iterations(S, Pts) = {}
    <3> SUFFICES ASSUME NEW d \in S \X (0 .. TOTALDONNEE),
                        d[2] < k[d[1]] + (IF pc[d[1]] \in Pts THEN 1 ELSE 0)
                 PROVE  FALSE
      BY DEF Iterations
    <3>1. d[1] \in Threads
      BY GenresDistincts
    <3>2. pc[d[1]] = "absent" /\ k[d[1]] = 0
      BY <3>1
    <3>3. d[2] < 0 /\ d[2] \in 0 .. TOTALDONNEE
      BY <1>2, <3>2
    <3>4. QED
      BY <3>3, TotalType
  <2>2. QED
    BY <2>1, FS_EmptySet DEF Nombre
<1>3. ASSUME NEW S \in Genres PROVE BornesIndex(S)
  BY <1>2, GenresDistincts DEF BornesIndex, Ranges, IndexDe
<1>4. ASSUME NEW S \in Genres PROVE ExactIndex(S)
  <2>1. \A t \in S : pc[t] = "absent"
    BY GenresDistincts
  <2>2. Nombre(S, Reservees) % TAILLE_MAX = 0 /\ IndexDe(S) = 0
    BY <1>2 DEF Reservees, IndexDe
  <2>3. QED
    BY <2>1, <2>2 DEF ExactIndex, MiseAJour
<1>5. pc \in [Threads -> PointsInt] /\ j \in [Threads -> Int]
  BY DEF PointsInt, PointsCompteurs
<1>6. QED
  BY <1>1, <1>3, <1>4, <1>5 DEF ControleInt, ExactInt

-----------------------------------------------------------------------------
(* ProducConsoInt: the ranges.                                              *)

LEMMA NombreIntType ==
    \A S \in Genres : Nombre(S, Ranges) \in Nat /\ Nombre(S, Reservees) \in Nat
BY NombreType, GenresDistincts

\* The bounds follow when the index, the copies and the loads only take values
\* that they allow already.
LEMMA BornesIndexPas ==
    ASSUME NEW S \in Genres, BornesIndex(S),
           Nombre(S, Ranges)' \in {Nombre(S, Ranges), Nombre(S, Ranges) + 1},
           IndexDe(S)' \in {IndexDe(S), 0},
           \A t \in S : /\ j'[t] \in {j[t], IndexDe(S)}
                        /\ pc'[t] = "idx_ecrire" => \/ reg'[t] = IndexDe(S)
                                                    \/ pc[t] = "idx_ecrire" /\ reg'[t] = reg[t]
    PROVE  BornesIndex(S)'
<1> DEFINE n == Nombre(S, Ranges)
<1>1. n \in Nat /\ n' \in Nat /\ n' >= n
  BY NombreIntType
<1>2. 0 .. n \subseteq 0 .. n' /\ 0 \in 0 .. n'
  BY <1>1
<1>3. IndexDe(S) \in 0 .. n /\ \A t \in S : /\ j[t] \in 0 .. n
                                            /\ pc[t] = "idx_ecrire" => reg[t] \in 0 .. n
  BY DEF BornesIndex
<1> HIDE DEF n
<1>4. IndexDe(S)' \in 0 .. n' /\ \A t \in S : /\ j'[t] \in 0 .. n'
                                              /\ pc'[t] = "idx_ecrire" => reg'[t] \in 0 .. n'
  BY <1>2, <1>3
<1>5. QED
  BY <1>4 DEF BornesIndex, n

\* A step of a thread of one kind leaves the bounds of the other kind alone.
LEMMA BornesIndexAutres ==
    ASSUME ControleInt, NEW S \in Genres, NEW t \in Threads, t \notin S, NEW x \in DansBoucle,
           pc[t] \in DansBoucle, pc' = [pc EXCEPT ![t] = x], UNCHANGED k,
           IndexDe(S)' = IndexDe(S), \A u \in S : j'[u] = j[u] /\ reg'[u] = reg[u]
    PROVE  /\ BornesIndex(S)'
           /\ Nombre(S, Reservees)' = Nombre(S, Reservees)
           /\ \A u \in S : pc'[u] = pc[u]
<1>0. pc \in [Threads -> PointsInt] /\ Socle /\ BornesIndex(S)
  BY DEF ControleInt
<1>1. \A u \in S : pc'[u] = pc[u]
  BY <1>0, GenresDistincts
<1>2. \A u \in S : Fait(u, Ranges)' = Fait(u, Ranges) /\ Fait(u, Reservees)' = Fait(u, Reservees)
  BY <1>1 DEF Fait
<1>3. Nombre(S, Ranges)' = Nombre(S, Ranges) /\ Nombre(S, Reservees)' = Nombre(S, Reservees)
  BY <1>2, NombreInchange
<1>4. QED
  BY <1>0, <1>1, <1>3, BornesIndexPas

LEMMA ExactIndexInchange ==
    ASSUME NEW S \in Genres, ExactIndex(S),
           Nombre(S, Reservees)' = Nombre(S, Reservees), IndexDe(S)' = IndexDe(S),
           \A u \in S : /\ j'[u] = j[u]
                        /\ pc'[u] = pc[u] \/ pc'[u] \notin MiseAJour \cup {"acces"}
                        /\ pc'[u] \in MiseAJour <=> pc[u] \in MiseAJour
                        /\ pc'[u] = "idx_ecrire" => reg'[u] = reg[u]
    PROVE  ExactIndex(S)'
BY DEF ExactIndex, MiseAJour

-----------------------------------------------------------------------------
(* ProducConsoInt: the steps that touch no index.                           *)

LEMMA SansIndex ==
    ASSUME ControleInt, Socle', CompteursBornes',
           UNCHANGED <<index_ecriture, index_lecture, j, chevauche>>,
           liste' \in [Cases -> Donnees \cup {Vide}], produits' \in Seq(Donnees),
           consommes' \in Seq(Donnees \cup {Vide, Melange}),
           phase' \in {"creer", "joindre", "afficher", "fini", "indefini"},
           pc' \in [Threads -> PointsInt],
           \A u \in Threads :
               /\ \/ pc'[u] = pc[u]
                  \/ pc[u] \notin MiseAJour /\ pc'[u] \notin MiseAJour \cup {"acces"}
               /\ pc'[u] = "idx_ecrire" => reg'[u] = reg[u],
           \A S \in Genres : /\ Nombre(S, Ranges)' = Nombre(S, Ranges)
                             /\ Nombre(S, Reservees)' = Nombre(S, Reservees)
    PROVE  ControleInt' /\ (ExactInt => ExactInt')
<1>1. ASSUME NEW S \in Genres PROVE BornesIndex(S)'
  <2>1. BornesIndex(S) /\ IndexDe(S)' = IndexDe(S) /\ S \subseteq Threads
    BY GenresDistincts DEF ControleInt, IndexDe
  <2>2. \A u \in S : j'[u] = j[u] /\ (pc'[u] = "idx_ecrire" => pc[u] = "idx_ecrire" /\ reg'[u] = reg[u])
    BY <2>1 DEF MiseAJour
  <2>3. QED
    BY <2>1, <2>2, BornesIndexPas
<1>2. ASSUME NEW S \in Genres, ExactIndex(S) PROVE ExactIndex(S)'
  <2>1. IndexDe(S)' = IndexDe(S) /\ S \subseteq Threads
    BY GenresDistincts DEF IndexDe
  <2>2. QED
    BY <1>2, <2>1, ExactIndexInchange
<1>3. ControleInt'
  BY <1>1 DEF ControleInt
<1>4. QED
  BY <1>2, <1>3 DEF ExactInt, NomDe

\* The accesses to the counters.
LEMMA CompteursInt ==
    ASSUME ControleInt, NEW t \in Threads, PasCompteurs(t, "index"), UNCHANGED chevauche
    PROVE  ControleInt' /\ (ExactInt => ExactInt')
<1>0. Socle /\ CompteursBornes /\ pc \in [Threads -> PointsInt]
  BY DEF ControleInt
<1>1. Socle' /\ CompteursBornes'
  BY <1>0, SocleCompteurs
<1>2. /\ UNCHANGED <<index_ecriture, index_lecture, liste, phase, j, produits, consommes>>
      /\ \/ /\ UNCHANGED k
            /\ \/ pc[t] = "attendre" /\ Aller(t, "dec_lire")
               \/ pc[t] = "dec_lire" /\ Aller(t, "dec_ecrire")
               \/ pc[t] = "dec_ecrire" /\ Aller(t, "index")
               \/ pc[t] = "inc_lire" /\ Aller(t, "inc_ecrire")
         \/ pc[t] = "inc_ecrire" /\ Reboucler(t)
  BY CompteursChemin
<1>3. PICK x \in PointsInt : /\ pc' = [pc EXCEPT ![t] = x]
                             /\ pc[t] \notin MiseAJour /\ x \notin MiseAJour \cup {"acces"}
  BY <1>2 DEF Aller, Reboucler, Boucle, PointsInt, PointsCompteurs, MiseAJour
<1>4. /\ pc' \in [Threads -> PointsInt]
      /\ \A u \in Threads : /\ u # t => pc'[u] = pc[u]
                            /\ u = t => pc'[u] = x
  BY <1>0, <1>3
<1>5. \A u \in Threads : u # t => reg'[u] = reg[u]
  BY <1>0 DEF PasCompteurs, CompteursProducteur, CompteursConsommateur, Attendre, Charger,
              Decrementer, Incrementer, Oublier, varsCompteurs, Socle
<1>6. ASSUME NEW S \in Genres
      PROVE  /\ Nombre(S, Ranges)' = Nombre(S, Ranges)
             /\ Nombre(S, Reservees)' = Nombre(S, Reservees)
  <2>1. CASE pc[t] = "inc_ecrire" /\ Reboucler(t)
    BY <1>0, <2>1, NombreReboucle, GenresDistincts DEF Ranges, Reservees
  <2>2. CASE pc[t] # "inc_ecrire"
    <3>1. /\ UNCHANGED k /\ pc[t] \in DansBoucle
          /\ pc[t] \in Ranges <=> x \in Ranges
          /\ pc[t] \in Reservees <=> x \in Reservees
      <4>1. pc'[t] = x
        BY <1>4
      <4>2. \/ pc[t] = "attendre" /\ pc'[t] = "dec_lire"
            \/ pc[t] = "dec_lire" /\ pc'[t] = "dec_ecrire"
            \/ pc[t] = "dec_ecrire" /\ pc'[t] = "index"
            \/ pc[t] = "inc_lire" /\ pc'[t] = "inc_ecrire"
        BY <1>0, <1>2, <2>2 DEF Aller
      <4>3. QED
        BY <1>2, <2>2, <4>1, <4>2 DEF DansBoucle, Ranges, Reservees
    <3>2. QED
      BY <1>0, <1>3, <3>1, NombreDansBoucle, GenresDistincts
  <2>3. QED
    BY <1>2, <2>1, <2>2
<1>7. UNCHANGED <<index_ecriture, index_lecture, liste, phase, j, produits, consommes>>
  BY <1>2
<1>8. \A u \in Threads : /\ pc'[u] = pc[u] \/ (pc[u] \notin MiseAJour /\ pc'[u] \notin MiseAJour \cup {"acces"})
                         /\ pc'[u] = "idx_ecrire" => reg'[u] = reg[u]
  BY <1>3, <1>4, <1>5 DEF MiseAJour
<1>9. /\ liste' \in [Cases -> Donnees \cup {Vide}] /\ produits' \in Seq(Donnees)
      /\ consommes' \in Seq(Donnees \cup {Vide, Melange})
      /\ phase' \in {"creer", "joindre", "afficher", "fini", "indefini"}
  BY <1>7 DEF ControleInt
<1>10. QED
  BY <1>1, <1>4, <1>6, <1>7, <1>8, <1>9, SansIndex

\* A datum into its slot, or out of it.
LEMMA AccesInt ==
    ASSUME ControleInt, NEW t \in Threads, PasAcces(t)
    PROVE  ControleInt' /\ (ExactInt => ExactInt')
<1>0. /\ Socle /\ CompteursBornes /\ pc \in [Threads -> PointsInt]
      /\ phase \in {"creer", "joindre", "afficher", "fini", "indefini"}
  BY DEF ControleInt
<1>1. /\ pc[t] = "acces" /\ pc' = [pc EXCEPT ![t] = "inc_lire"] /\ j[t] \in Cases
      /\ UNCHANGED <<k, j, full, empty, reg, varsMain, index_ecriture, index_lecture, chevauche>>
  BY DEF PasAcces, Ecrire, Lire, Aller, varsCompteurs
<1>2. Socle' /\ CompteursBornes'
  BY <1>0, <1>1, SocleDansBoucle DEF DansBoucle, Decremente, Socle
<1>3. /\ liste' \in [Cases -> Donnees \cup {Vide}] /\ produits' \in Seq(Donnees)
      /\ consommes' \in Seq(Donnees \cup {Vide, Melange})
  BY <1>0, <1>1, AccesType DEF ControleInt, PasAcces
<1>4. /\ pc' \in [Threads -> PointsInt]
      /\ \A u \in Threads : \/ pc'[u] = pc[u]
                            \/ pc[u] \notin MiseAJour /\ pc'[u] \notin MiseAJour \cup {"acces"}
  BY <1>0, <1>1 DEF PointsInt, PointsCompteurs, MiseAJour
<1>5. ASSUME NEW S \in Genres
      PROVE  /\ Nombre(S, Ranges)' = Nombre(S, Ranges)
             /\ Nombre(S, Reservees)' = Nombre(S, Reservees)
  <2>1. pc[t] \in DansBoucle /\ "inc_lire" \in Ranges /\ "inc_lire" \in Reservees
        /\ pc[t] \in Ranges /\ pc[t] \in Reservees
    BY <1>1 DEF DansBoucle, Ranges, Reservees
  <2>2. QED
    BY <1>0, <1>1, <2>1, NombreDansBoucle, GenresDistincts
<1>6. QED
  BY <1>0, <1>1, <1>2, <1>3, <1>4, <1>5, SansIndex DEF varsMain

\* The access that leaves the array stops everything.
LEMMA DeborderInt ==
    ASSUME ControleInt, NEW t \in Threads, Deborder(t)
    PROVE  ControleInt' /\ (ExactInt => ExactInt')
<1>1. /\ UNCHANGED <<index_ecriture, index_lecture, liste, i, pc, k, j, produits, consommes,
                     full, empty, reg, chevauche>>
      /\ phase' = "indefini"
  BY DEF Deborder, varsSortie, varsCompteurs
<1>2. Socle' /\ CompteursBornes'
  BY <1>1, SocleInchange DEF ControleInt
<1>3. \A S \in Genres : /\ Nombre(S, Ranges)' = Nombre(S, Ranges)
                        /\ Nombre(S, Reservees)' = Nombre(S, Reservees)
  BY <1>1 DEF Nombre, Iterations
<1>4. QED
  BY <1>1, <1>2, <1>3, SansIndex DEF ControleInt

LEMMA MainInt ==
    ASSUME ControleInt, mainInt
    PROVE  ControleInt' /\ (ExactInt => ExactInt')
<1>0. Socle /\ CompteursBornes /\ pc \in [Threads -> PointsInt]
  BY DEF ControleInt
<1>1. Socle' /\ CompteursBornes'
  BY <1>0, SocleMain DEF mainInt
<1>2. /\ UNCHANGED <<index_ecriture, index_lecture, j, reg, chevauche, liste, produits, consommes>>
      /\ phase' \in {"creer", "joindre", "afficher", "fini", "indefini"}
  BY DEF mainInt, Creer, Joindre, Afficher, Iteration, varsSortie, varsCompteurs, ControleInt
<1>3. \A S \in Genres : /\ Nombre(S, Ranges)' = Nombre(S, Ranges)
                        /\ Nombre(S, Reservees)' = Nombre(S, Reservees)
  BY <1>0, NombreMain, GenresDistincts DEF mainInt, Ranges, Reservees
<1>4. /\ pc' \in [Threads -> PointsInt]
      /\ \A u \in Threads : \/ pc'[u] = pc[u]
                            \/ pc[u] \notin MiseAJour /\ pc'[u] \notin MiseAJour \cup {"acces"}
  <2>1. CASE Creer
    <3>1. pc[i] = "absent" /\ i \in Threads
      BY <1>0, <2>1, ThreadsFinis DEF Socle, CreationCoherente, Creer, Iteration
    <3>2. QED
      BY <1>0, <2>1, <3>1 DEF Creer, Aller, Boucle, PointsInt, PointsCompteurs, MiseAJour
  <2>2. CASE Joindre \/ Afficher
    BY <1>0, <2>2 DEF Joindre, Afficher
  <2>3. QED
    BY <2>1, <2>2 DEF mainInt
<1>5. QED
  BY <1>1, <1>2, <1>3, <1>4, SansIndex DEF ControleInt

-----------------------------------------------------------------------------
(* ProducConsoInt: the steps of an update of an index.                      *)

PointsIndex == MiseAJour \cup {"index"}

LEMMA IndexChemin ==
    ASSUME ControleInt, NEW S \in Genres, NEW t \in S, PasIndex(S, t)
    PROVE  /\ pc[t] \in PointsIndex /\ pc'[t] \in MiseAJour \cup {"acces"}
           /\ pc' = [pc EXCEPT ![t] = pc'[t]]
           /\ j' \in [Threads -> Int] /\ \A u \in Threads : u # t => j'[u] = j[u]
           /\ reg' \in [Threads -> Int] /\ \A u \in Threads : u # t => reg'[u] = reg[u]
           /\ \A u \in Threads : u # t => pc'[u] = pc[u]
           /\ IndexDe(S) \in Int /\ t \in Threads
<1>1. /\ pc \in [Threads -> PointsInt] /\ j \in [Threads -> Int] /\ reg \in [Threads -> Int]
      /\ IndexDe(S) \in Int /\ t \in Threads
  BY NombreIntType, GenresDistincts DEF ControleInt, Socle, BornesIndex
<1>2. \E x \in MiseAJour \cup {"acces"} : pc[t] \in PointsIndex /\ pc' = [pc EXCEPT ![t] = x]
  BY DEF PasIndex, Aller, PointsIndex, MiseAJour
<1>3. j' \in [Threads -> Int] /\ \A u \in Threads : u # t => j'[u] = j[u]
  BY <1>1 DEF PasIndex
<1>4. reg' \in [Threads -> Int] /\ \A u \in Threads : u # t => reg'[u] = reg[u]
  BY <1>1 DEF PasIndex, Oublier
<1>5. QED
  BY <1>1, <1>2, <1>3, <1>4

LEMMA IndexSocle ==
    ASSUME ControleInt, NEW S \in Genres, NEW t \in S, PasIndex(S, t),
           UNCHANGED <<liste, k, varsMain, varsSortie, full, empty>>
    PROVE  Socle' /\ CompteursBornes' /\ pc' \in [Threads -> PointsInt]
<1>0. Socle /\ CompteursBornes /\ pc \in [Threads -> PointsInt]
  BY DEF ControleInt
<1> DEFINE x == pc'[t]
<1>1. /\ pc[t] \in PointsIndex /\ x \in MiseAJour \cup {"acces"} /\ pc' = [pc EXCEPT ![t] = x]
      /\ reg' \in [Threads -> Int] /\ \A u \in Threads : u # t => reg'[u] = reg[u]
      /\ t \in Threads
  BY IndexChemin
<1> HIDE DEF x
<1>2. /\ x \in DansBoucle /\ pc[t] \in DansBoucle /\ x \in Decremente /\ pc[t] \in Decremente
      /\ x \notin {"dec_ecrire", "inc_ecrire"} /\ x \in PointsInt
  BY <1>1 DEF PointsIndex, MiseAJour, DansBoucle, Decremente, PointsInt
<1>3. Socle' /\ CompteursBornes'
  BY <1>0, <1>1, <1>2, SocleDansBoucle
<1>4. QED
  BY <1>0, <1>1, <1>2, <1>3

\* The thread's own kind: one more increment when the store of index++ is done,
\* one more reservation when the update is.
LEMMA IndexNombres ==
    ASSUME ControleInt, NEW S \in Genres, NEW t \in S, PasIndex(S, t), UNCHANGED k
    PROVE  /\ Nombre(S, Ranges)' = Nombre(S, Ranges) + (IF pc[t] = "idx_ecrire" THEN 1 ELSE 0)
           /\ Nombre(S, Reservees)' = Nombre(S, Reservees) + (IF pc'[t] = "acces" THEN 1 ELSE 0)
<1> DEFINE x == pc'[t]
<1>1. pc[t] \in PointsIndex /\ pc' = [pc EXCEPT ![t] = x] /\ t \in Threads
  BY IndexChemin
<1>2. pc[t] = "idx_ecrire" <=> x = "idx_tester"
  BY <1>1 DEF PasIndex, Aller, ControleInt
<1>3. x \in MiseAJour \cup {"acces"} /\ (pc[t] \in Ranges \/ pc[t] = "idx_ecrire" <=> x \in Ranges)
  BY <1>1 DEF PasIndex, Aller, ControleInt, Ranges, MiseAJour
<1> HIDE DEF x
<1>4. /\ pc[t] \in DansBoucle /\ pc[t] \notin Reservees
      /\ x = "acces" <=> x \in Reservees
      /\ "idx_ecrire" \notin Ranges
  BY <1>1, <1>3 DEF PointsIndex, MiseAJour, DansBoucle, Ranges, Reservees
<1>5. Nombre(S, Ranges) \in Nat /\ Nombre(S, Reservees) \in Nat
  BY NombreIntType
<1>6. Socle /\ S \subseteq Threads /\ IsFiniteSet(S)
  BY GenresDistincts DEF ControleInt
<1>7. Nombre(S, Ranges)' = Nombre(S, Ranges) + (IF pc[t] = "idx_ecrire" THEN 1 ELSE 0)
  <2>1. pc[t] \in Ranges => x \in Ranges
    BY <1>3
  <2>2. CASE pc[t] = "idx_ecrire"
    <3>1. pc[t] \notin Ranges /\ x \in Ranges
      BY <1>3, <1>4, <2>2
    <3>2. QED
      BY <1>1, <1>4, <1>6, <2>1, <2>2, <3>1, NombreDansBoucle
  <2>3. CASE pc[t] # "idx_ecrire"
    <3>1. pc[t] \in Ranges \/ x \notin Ranges
      BY <1>3, <2>3
    <3>2. Nombre(S, Ranges)' = Nombre(S, Ranges)
      BY <1>1, <1>4, <1>6, <2>1, <3>1, NombreDansBoucle
    <3>3. QED
      BY <1>5, <2>3, <3>2
  <2>4. QED
    BY <2>2, <2>3
<1>8. Nombre(S, Reservees)' = Nombre(S, Reservees) + (IF x = "acces" THEN 1 ELSE 0)
  <2>1. CASE x = "acces"
    <3>1. pc[t] \notin Reservees /\ x \in Reservees
      BY <1>4, <2>1
    <3>2. Nombre(S, Reservees)' = Nombre(S, Reservees) + 1
      BY <1>1, <1>4, <1>6, <3>1, NombreDansBoucle
    <3>3. QED
      BY <2>1, <3>2
  <2>2. CASE x # "acces"
    <3>1. pc[t] \notin Reservees /\ x \notin Reservees
      BY <1>4, <2>2
    <3>2. Nombre(S, Reservees)' = Nombre(S, Reservees)
      BY <1>1, <1>4, <1>6, <3>1, NombreDansBoucle
    <3>3. QED
      BY <1>5, <2>2, <3>2
  <2>3. QED
    BY <2>1, <2>2
<1>9. QED
  BY <1>7, <1>8 DEF x

LEMMA IndexBornes ==
    ASSUME ControleInt, NEW S \in Genres, NEW t \in S, PasIndex(S, t), UNCHANGED k
    PROVE  BornesIndex(S)'
<1>0. BornesIndex(S) /\ pc \in [Threads -> PointsInt] /\ j \in [Threads -> Int]
      /\ reg \in [Threads -> Int] /\ S \subseteq Threads
  BY GenresDistincts DEF ControleInt, Socle
<1> DEFINE n == Nombre(S, Ranges)
<1>1. n \in Nat /\ n' = n + (IF pc[t] = "idx_ecrire" THEN 1 ELSE 0)
  BY IndexNombres, NombreIntType
<1>2. /\ t \in Threads
      /\ \A u \in S : u # t => pc'[u] = pc[u] /\ j'[u] = j[u] /\ reg'[u] = reg[u]
  BY <1>0, IndexChemin
<1>3. CASE pc[t] = "idx_ecrire"
  <2>1. /\ IndexDe(S)' = reg[t] + 1 /\ j' = j /\ pc'[t] = "idx_tester" /\ n' = n + 1
        /\ reg[t] \in 0 .. n
    BY <1>0, <1>1, <1>2, <1>3 DEF PasIndex, Aller, BornesIndex
  <2> HIDE DEF n
  <2>2. \A u \in S : j[u] \in 0 .. n /\ (pc[u] = "idx_ecrire" => reg[u] \in 0 .. n)
    BY <1>0 DEF BornesIndex, n
  <2>3. 0 .. n \subseteq 0 .. n' /\ reg[t] + 1 \in 0 .. n'
    BY <1>1, <2>1
  <2>4. IndexDe(S)' \in 0 .. n' /\ \A u \in S : /\ j'[u] \in 0 .. n'
                                                /\ pc'[u] = "idx_ecrire" => reg'[u] \in 0 .. n'
    BY <1>2, <2>1, <2>2, <2>3
  <2>5. QED
    BY <2>4 DEF BornesIndex, n
<1>4. CASE pc[t] # "idx_ecrire"
  <2>1. IndexDe(S)' \in {IndexDe(S), 0} /\ j'[t] \in {j[t], IndexDe(S)}
        /\ (pc'[t] = "idx_ecrire" => reg'[t] = IndexDe(S))
    BY <1>0, <1>2, <1>4 DEF PasIndex, Aller
  <2>2. n' = n
    BY <1>1, <1>4
  <2>3. QED
    BY <1>0, <1>2, <2>1, <2>2, BornesIndexPas
<1>5. QED
  BY <1>3, <1>4

\* The other kind does not notice.
LEMMA IndexAutreGenre ==
    ASSUME ControleInt, NEW S \in Genres, NEW t \in S, PasIndex(S, t), UNCHANGED k,
           NEW A \in Genres, A # S, IndexDe(A)' = IndexDe(A)
    PROVE  BornesIndex(A)' /\ (ExactIndex(A) => ExactIndex(A)')
<1> DEFINE x == pc'[t]
<1>1. /\ pc[t] \in PointsIndex /\ x \in MiseAJour \cup {"acces"} /\ pc' = [pc EXCEPT ![t] = x]
      /\ t \in Threads /\ \A u \in Threads : u # t => j'[u] = j[u] /\ reg'[u] = reg[u]
  BY IndexChemin
<1> HIDE DEF x
<1>2. t \notin A /\ A \subseteq Threads
  BY GenresDistincts
<1>3. x \in DansBoucle /\ pc[t] \in DansBoucle
  BY <1>1 DEF PointsIndex, MiseAJour, DansBoucle
<1>4. /\ BornesIndex(A)' /\ Nombre(A, Reservees)' = Nombre(A, Reservees)
      /\ \A u \in A : pc'[u] = pc[u] /\ j'[u] = j[u] /\ reg'[u] = reg[u]
  BY <1>1, <1>2, <1>3, BornesIndexAutres
<1>5. QED
  BY <1>4, ExactIndexInchange

\* The update of an index that no other thread of the kind is updating.
LEMMA IndexSeul ==
    ASSUME ControleInt, NEW S \in Genres, NEW t \in S, PasIndex(S, t), UNCHANGED k,
           ExactIndex(S), NomDe(S) \notin chevauche'
    PROVE  ExactIndex(S)'
<1> DEFINE R == Nombre(S, Reservees)
           juste == R % TAILLE_MAX
           n == IndexDe(S)
<1>0. /\ pc \in [Threads -> PointsInt] /\ j \in [Threads -> Int] /\ reg \in [Threads -> Int]
      /\ S \subseteq Threads
  BY GenresDistincts DEF ControleInt, Socle
<1>1. /\ R \in Nat /\ R' = R + (IF pc'[t] = "acces" THEN 1 ELSE 0)
      /\ juste \in Cases /\ n \in Int
  <2>1. R \in Nat /\ R' = R + (IF pc'[t] = "acces" THEN 1 ELSE 0) /\ n \in Int
    BY IndexNombres, NombreIntType, IndexChemin
  <2>2. juste \in 0 .. TAILLE_MAX - 1
    BY <2>1, DivisionEuclidienne
  <2>3. QED
    BY <2>1, <2>2 DEF Cases
<1>2. /\ pc[t] \in PointsIndex /\ t \in Threads
      /\ \A u \in S : u # t => pc'[u] = pc[u] /\ j'[u] = j[u] /\ reg'[u] = reg[u]
  BY <1>0, IndexChemin
<1>3. /\ (\A u \in S : pc[u] \notin MiseAJour) => n = juste
      /\ \A u \in S :
            /\ pc[u] \in MiseAJour => /\ j[u] = juste
                                      /\ \A v \in S : pc[v] \in MiseAJour => v = u
            /\ pc[u] \in {"idx_lire", "idx_ecrire"} => n = juste
            /\ pc[u] = "idx_ecrire" => reg[u] = juste
            /\ pc[u] = "idx_tester" => n = juste + 1
            /\ pc[u] = "idx_zero" => juste + 1 = TAILLE_MAX
            /\ pc[u] = "acces" => j[u] \in Cases
  BY DEF ExactIndex
<1>4. \A u \in S : u # t => pc[u] \notin MiseAJour
  <2>1. CASE pc[t] = "index"
    BY <2>1 DEF PasIndex
  <2>2. CASE pc[t] \in MiseAJour
    BY <1>3, <2>2
  <2>3. QED
    BY <1>2, <2>1, <2>2 DEF PointsIndex
<1>5. \A u \in S : u # t => pc'[u] \notin MiseAJour /\ (pc'[u] = "acces" => j'[u] \in Cases)
  BY <1>2, <1>3, <1>4
\* What is left is the point the thread arrives at.
<1> DEFINE m == IndexDe(S)'
           jus == R' % TAILLE_MAX
           But == /\ pc'[t] \in MiseAJour => j'[t] = jus
                  /\ pc'[t] \notin MiseAJour => m = jus
                  /\ pc'[t] \in {"idx_lire", "idx_ecrire"} => m = jus
                  /\ pc'[t] = "idx_ecrire" => reg'[t] = jus
                  /\ pc'[t] = "idx_tester" => m = jus + 1
                  /\ pc'[t] = "idx_zero" => jus + 1 = TAILLE_MAX
                  /\ pc'[t] = "acces" => j'[t] \in Cases
<1>6. But
  <2> USE DEF Aller
  <2>1. CASE pc[t] = "index"
    <3>1. pc'[t] = "idx_lire" /\ j'[t] = n /\ m = n
      BY <1>0, <1>2, <2>1 DEF PasIndex
    <3>2. n = juste
      BY <1>2, <1>3, <1>4, <2>1 DEF MiseAJour
    <3>3. jus = juste
      BY <1>1, <3>1
    <3> HIDE DEF m, n, jus, juste
    <3>4. QED
      BY <3>1, <3>2, <3>3 DEF MiseAJour
  <2>2. CASE pc[t] = "idx_lire"
    <3>1. pc'[t] = "idx_ecrire" /\ reg'[t] = n /\ j' = j /\ m = n
      BY <1>0, <1>2, <2>2 DEF PasIndex
    <3>2. n = juste /\ j[t] = juste
      BY <1>3, <2>2 DEF MiseAJour
    <3>3. jus = juste
      BY <1>1, <3>1
    <3> HIDE DEF m, n, jus, juste
    <3>4. QED
      BY <3>1, <3>2, <3>3 DEF MiseAJour
  <2>3. CASE pc[t] = "idx_ecrire"
    <3>1. pc'[t] = "idx_tester" /\ j' = j /\ m = reg[t] + 1
      BY <1>0, <1>2, <2>3 DEF PasIndex
    <3>2. reg[t] = juste /\ j[t] = juste
      BY <1>3, <2>3 DEF MiseAJour
    <3>3. jus = juste
      BY <1>1, <3>1
    <3> HIDE DEF m, n, jus, juste
    <3>4. QED
      BY <3>1, <3>2, <3>3 DEF MiseAJour
  <2>4. CASE pc[t] = "idx_tester" /\ n = TAILLE_MAX
    <3>1. pc'[t] = "idx_zero" /\ j' = j /\ m = n
      BY <1>0, <1>2, <2>4 DEF PasIndex
    <3>2. n = juste + 1 /\ j[t] = juste
      BY <1>3, <2>4 DEF MiseAJour
    <3>3. jus = juste
      BY <1>1, <3>1
    <3> HIDE DEF m, n, jus, juste
    <3>4. QED
      BY <2>4, <3>1, <3>2, <3>3 DEF MiseAJour
  <2>5. CASE pc[t] = "idx_tester" /\ n # TAILLE_MAX
    <3>1. pc'[t] = "acces" /\ j' = j /\ m = n
      BY <1>0, <1>2, <2>5 DEF PasIndex
    <3>2. n = juste + 1 /\ j[t] = juste
      BY <1>3, <2>5 DEF MiseAJour
    <3>3. R' = R + 1
      BY <1>1, <3>1
    <3>4. jus = Suivant(juste)
      BY <1>1, <3>3, SuivantModulo
    <3> HIDE DEF m, n, jus, juste
    <3>5. QED
      BY <1>1, <2>5, <3>1, <3>2, <3>4 DEF MiseAJour, Suivant
  <2>6. CASE pc[t] = "idx_zero"
    <3>1. pc'[t] = "acces" /\ j' = j /\ m = 0
      BY <1>0, <1>2, <2>6 DEF PasIndex
    <3>2. juste + 1 = TAILLE_MAX /\ j[t] = juste
      BY <1>3, <2>6 DEF MiseAJour
    <3>3. R' = R + 1
      BY <1>1, <3>1
    <3>4. jus = Suivant(juste)
      BY <1>1, <3>3, SuivantModulo
    <3> HIDE DEF m, n, jus, juste
    <3>5. QED
      BY <1>1, <3>1, <3>2, <3>4 DEF MiseAJour, Suivant
  <2>7. QED
    BY <1>2, <2>1, <2>2, <2>3, <2>4, <2>5, <2>6 DEF PointsIndex, MiseAJour
<1>7. (\A u \in S : pc'[u] \notin MiseAJour) => m = jus
  BY <1>6
<1>8. ASSUME NEW u \in S
      PROVE  /\ pc'[u] \in MiseAJour => /\ j'[u] = jus
                                        /\ \A v \in S : pc'[v] \in MiseAJour => v = u
             /\ pc'[u] \in {"idx_lire", "idx_ecrire"} => m = jus
             /\ pc'[u] = "idx_ecrire" => reg'[u] = jus
             /\ pc'[u] = "idx_tester" => m = jus + 1
             /\ pc'[u] = "idx_zero" => jus + 1 = TAILLE_MAX
             /\ pc'[u] = "acces" => j'[u] \in Cases
  <2> HIDE DEF m, jus
  <2>1. CASE u = t
    BY <1>5, <1>6, <2>1
  <2>2. CASE u # t
    BY <1>5, <2>2 DEF MiseAJour
  <2>3. QED
    BY <2>1, <2>2
<1>9. QED
  BY <1>7, <1>8 DEF ExactIndex

LEMMA IndexInt ==
    ASSUME ControleInt, NEW S \in Genres, NEW t \in S, PasIndex(S, t),
           UNCHANGED <<liste, k, varsMain, varsSortie, full, empty>>,
           \A A \in Genres : A # S => IndexDe(A)' = IndexDe(A)
    PROVE  ControleInt' /\ (ExactInt => ExactInt')
<1>1. \A A \in Genres : BornesIndex(A)'
  BY IndexBornes, IndexAutreGenre
<1>2. Socle' /\ CompteursBornes' /\ pc' \in [Threads -> PointsInt] /\ j' \in [Threads -> Int]
  BY IndexSocle, IndexChemin
<1>3. ControleInt'
  BY <1>1, <1>2 DEF ControleInt, varsMain, varsSortie
<1>4. chevauche \subseteq chevauche'
  BY DEF PasIndex
<1>5. ASSUME ExactInt PROVE ExactInt'
  <2>1. ASSUME NEW A \in Genres, NomDe(A) \notin chevauche' PROVE ExactIndex(A)'
    <3>1. ExactIndex(A)
      BY <1>4, <1>5, <2>1 DEF ExactInt
    <3>2. CASE A = S
      BY <2>1, <3>1, <3>2, IndexSeul
    <3>3. CASE A # S
      BY <2>1, <3>1, <3>3, IndexAutreGenre
    <3>4. QED
      BY <3>2, <3>3
  <2>2. QED
    BY <2>1 DEF ExactInt, NomDe
<1>6. QED
  BY <1>3, <1>5

LEMMA NextControleInt == ControleInt /\ [NextInt]_varsInt => ControleInt' /\ (ExactInt => ExactInt')
<1> SUFFICES ASSUME ControleInt, [NextInt]_varsInt
             PROVE  ControleInt' /\ (ExactInt => ExactInt')
  OBVIOUS
<1>1. ASSUME NEW S \in Genres, NEW t \in S,
             \/ S = Producteurs /\ producteurInt(t)
             \/ S = Consommateurs /\ consommateurInt(t)
      PROVE  ControleInt' /\ (ExactInt => ExactInt')
  <2>1. t \in Threads
    BY GenresDistincts
  <2>2. QED
    BY <1>1, <2>1, PasThread, CompteursInt, IndexInt, AccesInt, DeborderInt
<1>2. CASE UNCHANGED varsInt
  <2>0. UNCHANGED <<index_ecriture, index_lecture, liste, phase, i, pc, k, j, produits, consommes,
                    full, empty, reg, chevauche>>
    BY <1>2 DEF varsInt, vars0, varsTampon, varsCompteurs
  <2>1. Socle' /\ CompteursBornes'
    BY <2>0, SocleInchange DEF ControleInt
  <2>2. \A S \in Genres : /\ Nombre(S, Ranges)' = Nombre(S, Ranges)
                          /\ Nombre(S, Reservees)' = Nombre(S, Reservees)
    BY <2>0 DEF Nombre, Iterations
  <2>3. QED
    BY <2>0, <2>1, <2>2, SansIndex DEF ControleInt
<1>3. QED
  BY <1>1, <1>2, MainInt DEF NextInt, TermineInt, Genres

LEMMA JusteInt == ControleInt /\ ExactInt => IndexJusteSansChevauchement
<1>1. ASSUME ControleInt PROVE TypeOKInt
  <2>1. ASSUME NEW S \in Genres PROVE 0 .. Nombre(S, Ranges) \subseteq 0 .. TOTALDONNEE
    <3>1. Nombre(S, Ranges) \in Nat /\ Nombre(S, Ranges) <= TOTALDONNEE
      BY <1>1, NombreBorne, NombreIntType DEF ControleInt, Ranges, DansBoucle, Genres
    <3>2. QED
      BY <3>1, TotalType
  <2>2. \A S \in Genres : IndexDe(S) \in 0 .. TOTALDONNEE /\ \A t \in S : j[t] \in 0 .. TOTALDONNEE
    BY <1>1, <2>1 DEF ControleInt, BornesIndex
  <2>3. index_ecriture \in 0 .. TOTALDONNEE /\ index_lecture \in 0 .. TOTALDONNEE
    BY <2>2, GenresDistincts DEF Genres, IndexDe
  <2>4. j \in [Threads -> 0 .. TOTALDONNEE]
    BY <1>1, <2>2, GenresDistincts DEF ControleInt
  <2>5. \A t \in Threads : k[t] \in 0 .. Quota(t)
    BY <1>1, QuotaType DEF ControleInt, Socle
  <2>6. QED
    BY <1>1, <2>3, <2>4, <2>5, CompteursDansBornes DEF ControleInt, TypeOKInt, PointsInt
<1>2. ASSUME ControleInt, ExactInt PROVE IndexJusteSansChevauchement
  <2>1. ASSUME NEW S \in Genres, NomDe(S) \notin chevauche PROVE IndexJuste(IndexDe(S), S)
    BY <1>2, <2>1 DEF ExactInt, ExactIndex, IndexJuste, ReservationsInt, Nombre, Reservees
  <2>2. /\ "ecriture" \notin chevauche => IndexJuste(index_ecriture, Producteurs)
        /\ "lecture" \notin chevauche => IndexJuste(index_lecture, Consommateurs)
    BY <2>1, GenresDistincts DEF Genres, IndexDe, NomDe
  <2>3. QED
    BY <1>1, <1>2, <2>2 DEF IndexJusteSansChevauchement
<1>3. QED
  BY <1>2

\* produc_conso_int.c, for any numbers of threads, data and slots: as long as no
\* two threads of a kind update their index at the same time, the index counts the
\* slots taken and none of them leaves the array; and however the updates race, the
\* indices and the counters stay in ranges that TOTALDONNEE bounds.
THEOREM IndexJusteInt == SpecInt => []IndexJusteSansChevauchement
<1>1. SpecInt => [](ControleInt /\ ExactInt)
  BY InitControleInt, NextControleInt, PTL DEF SpecInt
<1>2. QED
  BY <1>1, JusteInt, PTL

-----------------------------------------------------------------------------
(* ProducConsoCompteurs: whichever of the two programs is executed.         *)

InvProgrammes ==
    /\ programme = AvecMutex => Controle /\ IndexExacts
    /\ programme = SansMutex => ControleInt /\ ExactInt

LEMMA ProgrammesDistincts == AvecMutex # SansMutex
BY DEF AvecMutex, SansMutex

LEMMA ProgrammesInvariant == SpecProgrammes => []InvProgrammes
<1>1. InitProgrammes => InvProgrammes
  BY ProgrammesDistincts, InitControle, InitIndex, InitControleInt
  DEF InitProgrammes, InvProgrammes
<1>2. InvProgrammes /\ [NextProgrammes]_varsProgrammes => InvProgrammes'
  <2> SUFFICES ASSUME InvProgrammes, [NextProgrammes]_varsProgrammes PROVE InvProgrammes'
    OBVIOUS
  <2>1. programme' = programme
    BY DEF NextProgrammes, varsProgrammes
  <2>2. programme = AvecMutex => [Next]_vars
    BY ProgrammesDistincts DEF NextProgrammes, varsProgrammes, vars
  <2>3. programme = SansMutex => [NextInt]_varsInt
    BY ProgrammesDistincts DEF NextProgrammes, varsProgrammes, varsInt
  <2>4. programme = AvecMutex => Controle' /\ IndexExacts'
    BY <2>2, NextControle, NextIndex DEF InvProgrammes
  <2>5. programme = SansMutex => ControleInt' /\ ExactInt'
    BY <2>3, NextControleInt DEF InvProgrammes
  <2>6. QED
    BY <2>1, <2>4, <2>5 DEF InvProgrammes, AvecMutex, SansMutex
<1>3. QED
  BY <1>1, <1>2, PTL DEF SpecProgrammes

\* When produc_conso_mutex.c is executed the mutexes keep the indices exact,
\* for any numbers of threads, data and slots and whatever the races on the counters.
THEOREM IndexAvecMutexToujours == SpecProgrammes => []IndexAvecMutex
<1>1. InvProgrammes => IndexAvecMutex
  BY CoherentsExacts DEF InvProgrammes, IndexAvecMutex
<1>2. QED
  BY <1>1, ProgrammesInvariant, PTL

\* When produc_conso_int.c is executed no thread leaves the array, and its index
\* is exact, before two threads of its kind have updated the index at the same time.
THEOREM IndexSansMutexToujours == SpecProgrammes => []IndexSansMutex
<1>1. InvProgrammes => IndexSansMutex
  BY JusteInt DEF InvProgrammes, IndexSansMutex
<1>2. QED
  BY <1>1, ProgrammesInvariant, PTL
=============================================================================
