-------------------------- MODULE Laboratoires_proofs --------------------------
(***************************************************************************)
(* Proofs about the small programs of the laboratories, for any values of   *)
(* the bounds.  Each program has an invariant of its own, which says that   *)
(* its variables rest when another program is executed.                     *)
(***************************************************************************)
EXTENDS Laboratoires, FiniteSetTheorems, SequenceTheorems, NaturalsInduction,
        WellFoundedInduction, TLAPS

-----------------------------------------------------------------------------
\* The step that a program takes, and what it leaves alone.

LEMMA PasTubes ==
    ASSUME [Next]_vars
    PROVE  \/ programme \in ProgrammesTubes /\ NextTubes /\ UNCHANGED programme
           \/ UNCHANGED <<programme, varsTubes>>
BY DEF Next, VersLaFin, Exterieur, Hors, Labos1, Labos2, Labos3, vars

LEMMA PasTail ==
    ASSUME [Next]_vars
    PROVE  \/ programme \in ProgrammesTail /\ (tail \/ ecrivain) /\ UNCHANGED programme
           \/ UNCHANGED <<programme, varsTail>>
BY DEF Next, VersLaFin, Exterieur, Hors, Labos1, Labos2, Labos3, vars

LEMMA PasPremiers ==
    ASSUME [Next]_vars
    PROVE  \/ programme \in ProgrammesPremiers /\ NextPremiers /\ UNCHANGED programme
           \/ UNCHANGED <<programme, varsPremiers>>
BY DEF Next, VersLaFin, Exterieur, Hors, Labos1, Labos2, Labos3, vars

LEMMA PasSignaux ==
    ASSUME [Next]_vars
    PROVE  \/ /\ programme \in ProgrammesSignaux /\ (processusSignaux \/ utilisateurSignaux)
              /\ UNCHANGED programme
           \/ UNCHANGED <<programme, varsSignaux>>
BY DEF Next, VersLaFin, Exterieur, Hors, Labos1, Labos2, Labos3, vars

LEMMA PasRecouvrement ==
    ASSUME [Next]_vars
    PROVE  \/ /\ programme \in ProgrammesRecouvrement /\ (processusRecouvrement \/ Commande)
              /\ UNCHANGED programme
           \/ UNCHANGED <<programme, varsRecouvrement>>
BY DEF Next, VersLaFin, Exterieur, Hors, Labos1, Labos2, Labos3, vars

-----------------------------------------------------------------------------
\* Numbers and their divisors.

LEMMA PlusPetit ==
    ASSUME NEW T \in SUBSET Nat, T # {}
    PROVE  \E m \in T : \A n \in T : m <= n
<1> DEFINE R == {ss \in Nat \X Nat : ss[1] < ss[2]}
<1>1. IsWellFoundedOn(R, Nat)
  BY NatLessThanWellFounded DEF OpToRel
<1>2. \A x, y \in Nat : x < y => <<x, y>> \in R
  OBVIOUS
<1>3. PICK m \in T : \A n \in T : ~(<<n, m>> \in R)
  <2> HIDE DEF R
  <2>1. QED
    BY <1>1, WFMin
<1> HIDE DEF R
<1>4. ASSUME NEW n \in T PROVE m <= n
  <2>1. m \in Nat /\ n \in Nat /\ (n < m => <<n, m>> \in R)
    BY <1>2
  <2>2. ~(n < m)
    BY <2>1, <1>3
  <2>3. QED
    BY <2>1, <2>2
<1>5. QED
  BY <1>4

LEMMA PlusGrand ==
    ASSUME NEW b \in Nat, NEW T \in SUBSET (0 .. b), T # {}
    PROVE  Max(T) \in T /\ \A x \in T : x <= Max(T)
<1> DEFINE R == {b - x : x \in T}
<1>1. R \in SUBSET Nat /\ R # {}
  <2>1. PICK x \in T : TRUE
    OBVIOUS
  <2>2. b - x \in R
    BY <2>1
  <2>3. \A y \in T : b - y \in Nat
    OBVIOUS
  <2>4. QED
    BY <2>2, <2>3
<1>2. PICK m \in R : \A r \in R : m <= r
  BY <1>1, PlusPetit
<1>3. PICK g \in T : m = b - g
  OBVIOUS
<1>4. ASSUME NEW x \in T PROVE x <= g
  BY <1>2, <1>3
<1>5. \A x \in T : g >= x
  BY <1>4
<1>6. QED
  BY <1>5 DEF Max

LEMMA Fois ==
    ASSUME NEW a \in Nat, NEW b \in Nat, NEW c \in Nat, a <= b
    PROVE  a * c <= b * c /\ c * a <= c * b
<1>1. (b - a) * c \in Nat
  OBVIOUS
<1>2. (b - a) * c = b * c - a * c /\ a * c = c * a /\ b * c = c * b
  OBVIOUS
<1>3. a * c \in Nat /\ b * c \in Nat
  OBVIOUS
<1>4. QED
  BY <1>1, <1>2, <1>3

LEMMA DivisionEuclidienne ==
    ASSUME NEW n \in Nat, NEW d \in Nat \ {0}
    PROVE  n \div d \in Nat /\ n % d \in 0 .. d - 1 /\ n = (d * (n \div d)) + (n % d)
OBVIOUS

LEMMA DivisionUnique ==
    ASSUME NEW q \in Nat, NEW p \in Nat, NEW d \in Nat \ {0},
           NEW r \in 0 .. d - 1, NEW s \in 0 .. d - 1, d * q + r = d * p + s
    PROVE  q = p /\ r = s
<1>0. d * q \in Nat /\ d * p \in Nat
  OBVIOUS
<1>1. ~(q < p)
  <2>1. SUFFICES ASSUME q + 1 <= p PROVE FALSE
    OBVIOUS
  <2>2. d * (q + 1) <= d * p /\ d * (q + 1) = d * q + d
    BY <2>1, Fois
  <2>3. QED
    BY <1>0, <2>2
<1>2. ~(p < q)
  <2>1. SUFFICES ASSUME p + 1 <= q PROVE FALSE
    OBVIOUS
  <2>2. d * (p + 1) <= d * q /\ d * (p + 1) = d * p + d
    BY <2>1, Fois
  <2>3. QED
    BY <1>0, <2>2
<1>3. QED
  BY <1>0, <1>1, <1>2

LEMMA Multiple ==
    ASSUME NEW n \in Nat, NEW d \in Nat \ {0}
    PROVE  n % d = 0 <=> \E q \in Nat : n = d * q
<1>1. n \div d \in Nat /\ n % d \in 0 .. d - 1 /\ n = (d * (n \div d)) + (n % d)
  BY DivisionEuclidienne
<1>2. d * (n \div d) \in Nat
  BY <1>1
<1>3. ASSUME NEW q \in Nat, n = d * q PROVE n % d = 0
  <2>1. (d * (n \div d)) + (n % d) = d * q + 0
    BY <1>1, <1>3
  <2>2. \A r, s \in 0 .. d - 1 :
           d * (n \div d) + r = d * q + s => n \div d = q /\ r = s
    BY <1>1, DivisionUnique
  <2>3. n % d \in 0 .. d - 1 /\ 0 \in 0 .. d - 1
    BY <1>1
  <2>4. QED
    BY <2>1, <2>2, <2>3
<1>4. ASSUME n % d = 0 PROVE n = d * (n \div d)
  BY <1>1, <1>2, <1>4
<1>5. QED
  BY <1>1, <1>3, <1>4

LEMMA RacineExacte ==
    ASSUME NEW n \in Nat
    PROVE  /\ Racine(n) \in 0 .. n /\ Racine(n) * Racine(n) <= n
           /\ \A r \in Nat : r * r <= n => r <= Racine(n)
<1> DEFINE T == {r \in 0 .. n : r * r <= n}
<1>1. T \in SUBSET (0 .. n) /\ 0 \in T
  OBVIOUS
<1>2. Max(T) \in T /\ \A x \in T : x <= Max(T)
  BY <1>1, PlusGrand
<1>3. ASSUME NEW r \in Nat, r * r <= n PROVE r \in T
  <2>1. r <= r * r
    <3>1. CASE r = 0
      BY <3>1
    <3>2. CASE r # 0
      <4>1. 1 * r <= r * r
        BY <3>2, Fois
      <4>2. QED
        BY <4>1
    <3>3. QED
      BY <3>1, <3>2
  <2>2. QED
    BY <1>3, <2>1
<1>4. Racine(n) = Max(T)
  BY DEF Racine
<1>5. QED
  BY <1>2, <1>3, <1>4

\* A number that has a divisor has a divisor up to its root.
LEMMA DiviseurSousRacine ==
    ASSUME NEW n \in Nat, NEW d \in 2 .. n - 1, n % d = 0
    PROVE  \E e \in 2 .. Racine(n) : n % e = 0 /\ e <= d
<1>1. PICK q \in Nat : n = d * q
  BY Multiple
<1>2. q >= 2
  <2>1. d * 0 = 0 /\ d * 1 = d
    OBVIOUS
  <2>2. QED
    BY <1>1, <2>1
<1>3. CASE d <= q
  <2>1. d * d <= d * q
    BY <1>3, Fois
  <2>2. d <= Racine(n)
    BY <1>1, <2>1, RacineExacte
  <2>3. Racine(n) \in Nat
    BY RacineExacte
  <2>4. QED
    BY <2>2, <2>3
<1>4. CASE q < d
  <2>1. q * q <= d * q
    BY <1>4, Fois
  <2>2. q \in Nat /\ q <= Racine(n) /\ Racine(n) \in Nat
    <3>1. q * q <= n
      BY <1>1, <2>1
    <3>2. QED
      BY <3>1, RacineExacte
  <2>3. n = q * d
    BY <1>1
  <2>4. n % q = 0
    BY <1>2, <2>3, Multiple
  <2>5. QED
    BY <1>2, <1>4, <2>2, <2>4
<1>5. QED
  BY <1>3, <1>4

Premier(n) == \A d \in 2 .. n - 1 : n % d # 0

LEMMA EstPremierExact ==
    ASSUME NEW n \in Nat, n >= 2
    PROVE  EstPremier(n) <=> Premier(n)
<1>1. Racine(n) \in 0 .. n /\ Racine(n) * Racine(n) <= n
  BY RacineExacte
<1>2. Racine(n) <= n - 1
  <2>1. SUFFICES ASSUME Racine(n) = n PROVE FALSE
    BY <1>1
  <2>2. 2 * n <= n * n
    BY Fois
  <2>3. QED
    BY <1>1, <2>1, <2>2
<1>3. \A d \in 2 .. n - 1 : n % d = 0 => \E e \in 2 .. Racine(n) : n % e = 0
  BY DiviseurSousRacine
<1>4. \A d \in 2 .. Racine(n) : d \in 2 .. n - 1
  BY <1>1, <1>2
<1>5. QED
  BY <1>3, <1>4 DEF EstPremier, Premier

\* It is enough to try the prime numbers.
LEMMA DiviseurPremier ==
    ASSUME NEW n \in Nat, ~Premier(n)
    PROVE  \E p \in 2 .. n - 1 : n % p = 0 /\ Premier(p) /\ p <= Racine(n)
<1> DEFINE T == {d \in 2 .. n - 1 : n % d = 0}
<1>1. T \in SUBSET Nat /\ T # {}
  <2>1. PICK d \in 2 .. n - 1 : n % d = 0
    BY DEF Premier
  <2>2. d \in T
    BY <2>1
  <2>3. 2 .. n - 1 \subseteq Nat
    OBVIOUS
  <2>4. T \subseteq 2 .. n - 1
    OBVIOUS
  <2>5. QED
    BY <2>2, <2>3, <2>4
<1>2. PICK d \in T : \A e \in T : d <= e
  BY <1>1, PlusPetit
<1>3. PICK q \in Nat : n = d * q
  BY <1>2, Multiple
<1>4. d <= Racine(n)
  <2>1. PICK e \in 2 .. Racine(n) : n % e = 0 /\ e <= d
    BY <1>2, DiviseurSousRacine
  <2>2. Racine(n) \in Nat
    BY RacineExacte
  <2>3. e \in T
    BY <1>2, <2>1, <2>2
  <2>4. QED
    BY <1>2, <2>1, <2>2, <2>3
<1>5. ASSUME NEW e \in 2 .. d - 1, d % e = 0 PROVE FALSE
  <2>1. PICK p \in Nat : d = e * p
    BY <1>2, <1>5, Multiple
  <2>2. p * q \in Nat /\ (e * p) * q = e * (p * q)
    OBVIOUS
  <2>3. n = e * (p * q)
    BY <1>3, <2>1, <2>2
  <2>4. n % e = 0
    BY <2>2, <2>3, Multiple
  <2>5. e \in T
    BY <1>2, <2>4
  <2>6. d <= e
    BY <1>2, <2>5
  <2>7. QED
    BY <2>6
<1>6. QED
  BY <1>2, <1>4, <1>5 DEF Premier

\* The primes among the first numbers, and how many they are.
PremiersJusqua(n) == {k \in 2 .. n : Premier(k)}

LEMMA PremiersFinis ==
    ASSUME NEW n \in Nat \ {0}
    PROVE  /\ IsFiniteSet(PremiersJusqua(n))
           /\ Cardinality(PremiersJusqua(n)) \in 0 .. n
<1>1. IsFiniteSet(2 .. n) /\ Cardinality(2 .. n) <= n /\ Cardinality(2 .. n) \in Nat
  BY FS_Interval
<1>2. PremiersJusqua(n) \subseteq 2 .. n
  BY DEF PremiersJusqua
<1>3. IsFiniteSet(PremiersJusqua(n)) /\ Cardinality(PremiersJusqua(n)) <= Cardinality(2 .. n)
  BY <1>1, <1>2, FS_Subset
<1>4. QED
  BY <1>1, <1>3, FS_CardinalityType

LEMMA PremierSuivant ==
    ASSUME NEW n \in Nat, n >= 2
    PROVE  IF Premier(n)
           THEN /\ PremiersJusqua(n) = PremiersJusqua(n - 1) \cup {n}
                /\ Cardinality(PremiersJusqua(n)) = Cardinality(PremiersJusqua(n - 1)) + 1
           ELSE PremiersJusqua(n) = PremiersJusqua(n - 1)
<1>1. n \notin PremiersJusqua(n - 1) /\ IsFiniteSet(PremiersJusqua(n - 1))
  BY PremiersFinis DEF PremiersJusqua
<1>2. PremiersJusqua(n) = IF Premier(n) THEN PremiersJusqua(n - 1) \cup {n}
                          ELSE PremiersJusqua(n - 1)
  BY DEF PremiersJusqua
<1>3. QED
  BY <1>1, <1>2, FS_AddElement

-----------------------------------------------------------------------------
\* The prime numbers.  prime.c has found those below its index; in p_prime.c
\* the thread t has treated those of its progression that lie below its index.

InvPrime ==
    /\ phase \in {"chercher", "fini", "indefini"}
    /\ nb_thread = 1 /\ indice = [t \in Threads |-> 0]
    /\ work_list = [n \in 0 .. maximum |-> FALSE]
    /\ compteur \in 2 .. maximum + 1
    /\ primes \in Seq(Nat) /\ cap \in Nat \ {0} /\ Len(primes) <= cap + 1
    /\ phase = "chercher" => Len(primes) <= cap /\ nb = 0
    /\ phase = "indefini" => nb = 0
    /\ {primes[k] : k \in DOMAIN primes} = PremiersJusqua(compteur - 1)
    /\ Len(primes) = Cardinality(PremiersJusqua(compteur - 1))
    /\ phase = "fini" => compteur = maximum + 1 /\ nb = Len(primes)

Rang(t, n) == \E q \in Nat : n = nb_thread * q + (t + 2)
Fait(t, n) == n < indice[t] /\ Rang(t, n)
Cree(t)    == phase # "creer" \/ t < compteur

InvPPrime ==
    /\ phase \in {"creer", "joindre", "compter", "fini"} /\ compteur \in Threads
    /\ nb_thread \in Nat \ {0} /\ primes = <<>> /\ cap = 8
    /\ work_list \in [0 .. maximum -> BOOLEAN]
    /\ indice \in [Threads -> 0 .. maximum + nb_thread + 1]
    /\ \A t \in Threads : IF Cree(t) THEN indice[t] >= 2 /\ Rang(t, indice[t])
                          ELSE indice[t] = 0
    /\ \A n \in 2 .. maximum :
           work_list[n] <=> EstPremier(n) /\ \E t \in Threads : Fait(t, n)
    /\ \A t \in Threads :
           phase \in {"compter", "fini"} \/ (phase = "joindre" /\ t < compteur)
               => indice[t] > maximum
    /\ nb = IF phase = "fini" THEN Cardinality(PremiersJusqua(maximum)) ELSE 0

InvPremiers ==
    IF programme \in ProgrammesPremiers
    THEN /\ maximum \in Nat \ {0}
         /\ IF programme = "prime" THEN InvPrime ELSE InvPPrime
    ELSE ReposPremiers

LEMMA PremiersInitial ==
    ASSUME Init
    PROVE  InvPremiers
<1> USE PremiersAssumption
<1>1. CASE programme \notin ProgrammesPremiers
  BY <1>1 DEF Init, InvPremiers
<1>2. CASE programme = "prime"
  <2>1. InitPremiers /\ programme \in ProgrammesPremiers
    BY <1>2 DEF Init, ProgrammesPremiers
  <2>2. maximum \in Nat \ {0} /\ compteur = 2 /\ primes = <<>> /\ cap = 8 /\ nb = 0
        /\ phase = "chercher" /\ nb_thread = 1
    BY <1>2, <2>1 DEF InitPremiers, InitTableaux
  <2>3. PremiersJusqua(1) = {}
    BY DEF PremiersJusqua
  <2>4. /\ Cardinality(PremiersJusqua(1)) = 0 /\ Len(primes) = 0 /\ primes \in Seq(Nat)
        /\ {primes[k] : k \in DOMAIN primes} = {}
    BY <2>2, <2>3, FS_EmptySet
  <2>5. compteur \in 2 .. maximum + 1 /\ compteur - 1 = 1
    BY <2>2
  <2>6. QED
    BY <1>2, <2>1, <2>2, <2>3, <2>4, <2>5 DEF InvPremiers, InvPrime, InitPremiers, InitTableaux
<1>3. CASE programme = "p_prime"
  <2>1. InitPremiers /\ programme \in ProgrammesPremiers
    BY <1>3 DEF Init, ProgrammesPremiers
  <2>2. /\ maximum \in Nat \ {0} /\ nb_thread \in Nat \ {0} /\ compteur = 0
        /\ phase = "creer" /\ primes = <<>> /\ cap = 8 /\ nb = 0
        /\ work_list = [n \in 0 .. maximum |-> FALSE]
        /\ indice = [t \in Threads |-> 0]
    BY <1>3, <2>1 DEF InitPremiers, InitTableaux
  <2>3. /\ indice \in [Threads -> 0 .. maximum + nb_thread + 1]
        /\ work_list \in [0 .. maximum -> BOOLEAN] /\ compteur \in Threads
    BY <2>2 DEF Threads
  <2>4. \A t \in Threads : ~Cree(t) /\ indice[t] = 0
    BY <2>2 DEF Cree, Threads
  <2>5. \A n \in 2 .. maximum : ~work_list[n] /\ \A t \in Threads : ~Fait(t, n)
    BY <2>2, <2>4 DEF Fait
  <2>6. QED
    BY <1>3, <2>1, <2>2, <2>3, <2>4, <2>5 DEF InvPremiers, InvPPrime
<1>4. QED
  BY <1>1, <1>2, <1>3 DEF ProgrammesPremiers

LEMMA Ajoute ==
    ASSUME NEW s \in Seq(Nat), NEW n \in Nat
    PROVE  {Append(s, n)[k] : k \in DOMAIN Append(s, n)} = {s[k] : k \in DOMAIN s} \cup {n}
<1> DEFINE a == Append(s, n)
<1>1. /\ DOMAIN s = 1 .. Len(s) /\ DOMAIN a = 1 .. Len(s) + 1 /\ Len(s) \in Nat
      /\ \A k \in 1 .. Len(s) : a[k] = s[k]
      /\ a[Len(s) + 1] = n
  BY AppendProperties
<1> HIDE DEF a
<1>2. \A k \in DOMAIN a : a[k] \in {s[j] : j \in DOMAIN s} \cup {n}
  BY <1>1
<1>3. \A k \in DOMAIN s : k \in DOMAIN a /\ s[k] = a[k]
  BY <1>1
<1>4. Len(s) + 1 \in DOMAIN a
  BY <1>1
<1>5. QED
  BY <1>1, <1>2, <1>3, <1>4 DEF a

\* prime.c: an iteration of the loop.
LEMMA PasPrime ==
    ASSUME maximum \in Nat \ {0}, InvPrime, NextPremiers
    PROVE  InvPrime'
<1>1. Chercher
  <2>1. \A t \in Threads : indice[t] = 0
    BY DEF InvPrime
  <2>2. ~(\E t \in Threads : do_work(t))
    BY <2>1 DEF do_work
  <2>3. ~CreerThread /\ ~JoindreThread /\ ~Compter
    BY DEF InvPrime, CreerThread, JoindreThread, Compter, ParThread
  <2>4. QED
    BY <2>2, <2>3 DEF NextPremiers
<1> DEFINE n == compteur
<1>2. n \in Nat /\ n >= 2 /\ n - 1 \in Nat \ {0} /\ n <= maximum + 1 /\ phase = "chercher"
      /\ primes \in Seq(Nat) /\ Len(primes) \in Nat /\ DOMAIN primes = 1 .. Len(primes)
  BY <1>1 DEF InvPrime, Chercher
<1>3. UNCHANGED <<maximum, nb_thread, work_list, indice, Threads>>
  BY <1>1 DEF Chercher, Threads
<1>4. CASE n > maximum
  <2>1. compteur' = n /\ primes' = primes /\ cap' = cap /\ phase' = "fini" /\ nb' = Len(primes)
    BY <1>1, <1>4 DEF Chercher
  <2>2. n = maximum + 1
    BY <1>2, <1>4
  <2>3. QED
    BY <1>2, <1>3, <2>1, <2>2 DEF InvPrime, Threads
<1>5. CASE n <= maximum
  <2>1. compteur' = n + 1 /\ nb' = nb /\ compteur' \in 2 .. maximum + 1 /\ compteur' - 1 = n
    BY <1>1, <1>2, <1>5 DEF Chercher
  <2>2. DiviseParUnTrouve(n) <=> ~Premier(n)
    <3>1. \A p \in 2 .. n - 1 : Premier(p) <=> \E k \in DOMAIN primes : primes[k] = p
      BY <1>2 DEF InvPrime, PremiersJusqua
    <3>2. \A k \in DOMAIN primes : primes[k] \in 2 .. n - 1 /\ Premier(primes[k])
      BY <1>2 DEF InvPrime, PremiersJusqua
    <3>3. ~Premier(n) => \E p \in 2 .. n - 1 : n % p = 0 /\ Premier(p) /\ p <= Racine(n)
      BY <1>2, DiviseurPremier
    <3>4. Premier(n) => \A d \in 2 .. n - 1 : n % d # 0
      BY DEF Premier
    <3>5. QED
      BY <3>1, <3>2, <3>3, <3>4 DEF DiviseParUnTrouve
  <2>3. CASE ~Premier(n)
    <3>1. PremiersJusqua(n) = PremiersJusqua(n - 1)
      BY <1>2, <2>3, PremierSuivant
    <3>2. UNCHANGED <<primes, cap, phase>>
      BY <1>1, <1>2, <1>5, <2>2, <2>3 DEF Chercher
    <3>3. QED
      BY <1>2, <1>3, <2>1, <3>1, <3>2 DEF InvPrime, Threads, PremiersJusqua
  <2>4. CASE Premier(n)
    <3>1. /\ PremiersJusqua(n) = PremiersJusqua(n - 1) \cup {n}
          /\ Cardinality(PremiersJusqua(n)) = Cardinality(PremiersJusqua(n - 1)) + 1
      BY <1>2, <2>4, PremierSuivant
    <3>2. /\ primes' = Append(primes, n)
          /\ phase' = IF Len(primes) >= cap THEN "indefini" ELSE phase
          /\ cap' = IF Len(primes) + 1 > cap THEN 2 * cap ELSE cap
      BY <1>1, <1>2, <1>5, <2>2, <2>4 DEF Chercher
    <3>3. /\ primes' \in Seq(Nat) /\ Len(primes') = Len(primes) + 1
          /\ DOMAIN primes' = 1 .. Len(primes) + 1
          /\ \A k \in 1 .. Len(primes) : primes'[k] = primes[k]
          /\ primes'[Len(primes) + 1] = n
      BY <1>2, <3>2, AppendProperties
    <3>4. {primes'[k] : k \in DOMAIN primes'} = {primes[k] : k \in DOMAIN primes} \cup {n}
      <4>1. primes' = Append(primes, n) /\ primes \in Seq(Nat) /\ n \in Nat
        BY <1>2, <3>2
      <4>2. {Append(primes, n)[k] : k \in DOMAIN Append(primes, n)}
                = {primes[k] : k \in DOMAIN primes} \cup {n}
        BY <4>1, Ajoute
      <4>3. QED
        BY <4>1, <4>2
    <3>5. cap \in Nat \ {0} /\ Len(primes) <= cap
      BY <1>2 DEF InvPrime
    <3>6. /\ cap' \in Nat \ {0} /\ Len(primes') <= cap' + 1 /\ phase' \in {"chercher", "indefini"}
          /\ phase' = "chercher" => Len(primes') <= cap'
      BY <1>2, <3>2, <3>3, <3>5
    <3>7. QED
      BY <1>2, <1>3, <2>1, <3>1, <3>3, <3>4, <3>6 DEF InvPrime, Threads, PremiersJusqua
  <2>5. QED
    BY <2>3, <2>4
<1>6. QED
  BY <1>2, <1>4, <1>5

\* An iteration of do_work moves the index of its thread to the next number of
\* its progression, and the numbers that are done are those it has passed.
LEMMA TravailFait ==
    ASSUME maximum \in Nat, InvPPrime, NEW t \in Threads, do_work(t)
    PROVE  /\ Cree(t) /\ Rang(t, indice[t] + nb_thread)
           /\ \A n \in 2 .. maximum :
                  n < indice[t] + nb_thread /\ Rang(t, n) <=> Fait(t, n) \/ n = indice[t]
<1>1. /\ indice[t] \in 2 .. maximum /\ nb_thread \in Nat \ {0} /\ Cree(t) /\ Rang(t, indice[t])
      /\ t \in Nat
  BY DEF do_work, InvPPrime, Threads
<1>2. PICK q \in Nat : indice[t] = nb_thread * q + (t + 2)
  BY <1>1 DEF Rang
<1>3. indice[t] + nb_thread = nb_thread * (q + 1) + (t + 2)
  BY <1>1, <1>2
<1>4. ASSUME NEW n \in 2 .. maximum, n < indice[t] + nb_thread, Rang(t, n), n # indice[t]
      PROVE  n < indice[t]
  <2>1. PICK p \in Nat : n = nb_thread * p + (t + 2)
    BY <1>4 DEF Rang
  <2>2. nb_thread * p \in Nat /\ nb_thread * (q + 1) \in Nat /\ nb_thread * q \in Nat
    BY <1>1
  <2>3. nb_thread * p < nb_thread * (q + 1)
    BY <1>1, <1>3, <1>4, <2>1, <2>2
  <2>4. ~(q + 1 <= p)
    <3>1. SUFFICES ASSUME q + 1 <= p PROVE FALSE
      OBVIOUS
    <3>2. nb_thread * (q + 1) <= nb_thread * p
      BY <1>1, <3>1, Fois
    <3>3. QED
      BY <2>2, <2>3, <3>2
  <2>5. nb_thread * p <= nb_thread * q
    BY <1>1, <2>4, Fois
  <2>6. QED
    BY <1>1, <1>2, <1>4, <2>1, <2>2, <2>5
<1>5. Rang(t, indice[t] + nb_thread)
  <2>1. q + 1 \in Nat
    OBVIOUS
  <2>2. QED
    BY <1>3, <2>1 DEF Rang
<1>6. \A n \in 2 .. maximum : Fait(t, n) => n < indice[t] + nb_thread /\ Rang(t, n)
  BY <1>1 DEF Fait
<1>7. \A n \in 2 .. maximum :
          n < indice[t] + nb_thread /\ Rang(t, n) => Fait(t, n) \/ n = indice[t]
  BY <1>4 DEF Fait
<1>8. indice[t] < indice[t] + nb_thread
  BY <1>1
<1>9. QED
  BY <1>1, <1>5, <1>6, <1>7, <1>8

LEMMA PasPPrime ==
    ASSUME maximum \in Nat \ {0}, InvPPrime, NextPremiers
    PROVE  InvPPrime'
<1> USE DEF InvPPrime
<1>0. /\ Threads = 0 .. nb_thread - 1 /\ 0 \in Threads /\ Threads \subseteq Nat
      /\ nb_thread \in Nat \ {0} /\ compteur \in Nat
  BY DEF Threads
<1>1. ASSUME NEW t \in Threads, do_work(t) PROVE InvPPrime'
  <2> DEFINE m == indice[t] + nb_thread
  <2>1. /\ indice' = [indice EXCEPT ![t] = m]
        /\ work_list' = [work_list EXCEPT ![indice[t]] = @ \/ EstPremier(indice[t])]
        /\ UNCHANGED <<maximum, nb_thread, primes, cap, phase, compteur, nb>>
        /\ indice[t] \in 2 .. maximum
    BY <1>1 DEF do_work, Saut
  <2>2. /\ Cree(t) /\ Rang(t, m)
        /\ \A n \in 2 .. maximum :
               n < m /\ Rang(t, n) <=> Fait(t, n) \/ n = indice[t]
    BY <1>1, TravailFait
  <2>3. /\ Threads' = Threads /\ m \in 2 .. maximum + nb_thread + 1
        /\ indice' \in [Threads -> 0 .. maximum + nb_thread + 1]
        /\ \A u \in Threads : indice'[u] = IF u = t THEN m ELSE indice[u]
    BY <1>0, <2>1 DEF Threads
  <2>4. /\ \A u \in Threads : Cree(u)' = Cree(u) /\ \A n : Rang(u, n)' = Rang(u, n)
        /\ \A u \in Threads : Rang(u, indice[u])' = Rang(u, indice'[u])
    BY <2>1 DEF Cree, Rang
  <2>a. \A u \in Threads, n \in 2 .. maximum :
            Fait(u, n)' <=> Fait(u, n) \/ (u = t /\ n = indice[t])
    BY <2>2, <2>3, <2>4 DEF Fait
  <2>5. \A u \in Threads : IF Cree(u)' THEN indice'[u] >= 2 /\ Rang(u, indice[u])'
                           ELSE indice'[u] = 0
    BY <2>2, <2>3, <2>4
  <2>6. \A n \in 2 .. maximum :
            work_list'[n] <=> EstPremier(n) /\ \E u \in Threads : Fait(u, n)'
    <3>1. ASSUME NEW n \in 2 .. maximum
          PROVE  work_list'[n] <=> EstPremier(n) /\ \E u \in Threads : Fait(u, n)'
      <4>1. CASE n = indice[t]
        <5>0. n \in 0 .. maximum
          OBVIOUS
        <5>1. work_list'[n] = (work_list[n] \/ EstPremier(n))
          BY <2>1, <4>1, <5>0, Zenon
        <5>2. work_list[n] => EstPremier(n)
          OBVIOUS
        <5>3. Fait(t, n)'
          BY <2>a, <4>1
        <5>4. QED
          BY <5>1, <5>2, <5>3
      <4>2. CASE n # indice[t]
        <5>1. work_list'[n] = work_list[n]
          BY <2>1, <4>2
        <5>2. \A u \in Threads : Fait(u, n)' <=> Fait(u, n)
          BY <2>a, <4>2
        <5>3. QED
          BY <5>1, <5>2
      <4>3. QED
        BY <4>1, <4>2
    <3>2. QED
      BY <3>1
  <2>7. work_list' \in [0 .. maximum -> BOOLEAN]
    BY <2>1 DEF EstPremier
  <2>8. \A u \in Threads :
            phase \in {"compter", "fini"} \/ (phase = "joindre" /\ u < compteur)
                => indice'[u] > maximum
    BY <1>0, <2>1, <2>3
  <2>9. QED
    BY <2>1, <2>3, <2>4, <2>5, <2>6, <2>7, <2>8
<1>2. CASE CreerThread
  <2>1. /\ indice' = [indice EXCEPT ![compteur] = compteur + 2] /\ phase = "creer"
        /\ IF compteur = nb_thread - 1 THEN phase' = "joindre" /\ compteur' = 0
           ELSE phase' = "creer" /\ compteur' = compteur + 1
        /\ UNCHANGED <<maximum, nb_thread, work_list, primes, cap, nb>>
    BY <1>2 DEF CreerThread, ParThread
  <2>2. /\ Threads' = Threads /\ compteur' \in Threads
        /\ \A u \in Threads : Cree(u)' <=> Cree(u) \/ u = compteur
        /\ \A u \in Threads : \A n : Rang(u, n)' = Rang(u, n)
        /\ \A u \in Threads : Rang(u, indice[u])' = Rang(u, indice'[u])
        /\ indice' \in [Threads -> 0 .. maximum + nb_thread + 1]
        /\ \A u \in Threads : indice'[u] = IF u = compteur THEN compteur + 2 ELSE indice[u]
        /\ ~Cree(compteur)
    BY <1>0, <2>1 DEF Threads, Cree, Rang
  <2>3. Rang(compteur, compteur + 2)
    <3>1. compteur + 2 = nb_thread * 0 + (compteur + 2)
      BY <1>0
    <3>2. QED
      BY <3>1 DEF Rang
  <2>4. \A u \in Threads : IF Cree(u)' THEN indice'[u] >= 2 /\ Rang(u, indice[u])'
                           ELSE indice'[u] = 0
    BY <1>0, <2>2, <2>3
  <2>5. \A n \in 2 .. maximum : ~(n < compteur + 2 /\ Rang(compteur, n))
    <3>1. SUFFICES ASSUME NEW n \in 2 .. maximum, n < compteur + 2, Rang(compteur, n) PROVE FALSE
      OBVIOUS
    <3>2. PICK q \in Nat : n = nb_thread * q + (compteur + 2)
      BY <3>1 DEF Rang
    <3>3. nb_thread * q \in Nat
      BY <1>0
    <3>4. QED
      BY <1>0, <3>1, <3>2, <3>3
  <2>6. \A n \in 2 .. maximum, u \in Threads : Fait(u, n)' <=> Fait(u, n)
    BY <2>2, <2>5 DEF Fait
  <2>7. QED
    BY <1>0, <2>1, <2>2, <2>4, <2>6
<1>3. CASE JoindreThread
  <2>1. /\ indice[compteur] > maximum /\ phase = "joindre"
        /\ IF compteur = nb_thread - 1 THEN phase' = "compter" /\ compteur' = 0
           ELSE phase' = "joindre" /\ compteur' = compteur + 1
        /\ UNCHANGED <<maximum, nb_thread, work_list, primes, cap, nb, indice>>
    BY <1>3 DEF JoindreThread, ParThread
  <2>2. /\ Threads' = Threads /\ compteur' \in Threads
        /\ \A u \in Threads : Cree(u) /\ Cree(u)' /\ \A n : Rang(u, n)' = Rang(u, n)
        /\ \A u \in Threads : \A n : Fait(u, n)' = Fait(u, n)
    BY <1>0, <2>1 DEF Threads, Cree, Rang, Fait
  <2>3. \A u \in Threads : phase' = "compter" \/ u < compteur' => indice[u] > maximum
    BY <1>0, <2>1
  <2>4. QED
    BY <2>1, <2>2, <2>3
<1>4. CASE Compter
  <2>1. /\ nb' = Cardinality({n \in 2 .. maximum : work_list[n]})
        /\ phase = "compter" /\ phase' = "fini"
        /\ UNCHANGED <<maximum, nb_thread, work_list, indice, primes, cap, compteur>>
    BY <1>4 DEF Compter
  <2>2. /\ Threads' = Threads
        /\ \A u \in Threads : Cree(u) /\ Cree(u)' /\ \A n : Rang(u, n)' = Rang(u, n)
        /\ \A u \in Threads : \A n : Fait(u, n)' = Fait(u, n)
        /\ \A u \in Threads : indice[u] > maximum
    BY <2>1 DEF Threads, Cree, Rang, Fait
  <2>3. ASSUME NEW n \in 2 .. maximum PROVE \E t \in Threads : Fait(t, n)
    <3> DEFINE t == (n - 2) % nb_thread
               q == (n - 2) \div nb_thread
    <3>0. n - 2 \in Nat
      OBVIOUS
    <3>1. t \in 0 .. nb_thread - 1 /\ q \in Nat /\ n - 2 = (nb_thread * q) + t
      BY <1>0, <3>0, DivisionEuclidienne
    <3>2. t \in Threads /\ n = nb_thread * q + (t + 2)
      BY <1>0, <3>1
    <3>3. indice[t] > maximum
      BY <2>2, <3>2
    <3>4. indice[t] \in Nat
      BY <3>2
    <3>5. n < indice[t]
      BY <3>3, <3>4
    <3>6. QED
      BY <3>1, <3>2, <3>5 DEF Fait, Rang
  <2>4. \A n \in 2 .. maximum : work_list[n] <=> Premier(n)
    BY <2>3, EstPremierExact
  <2>5. {n \in 2 .. maximum : work_list[n]} = PremiersJusqua(maximum)
    BY <2>4 DEF PremiersJusqua
  <2>6. nb' = Cardinality(PremiersJusqua(maximum'))
    BY <2>1, <2>5
  <2>7. QED
    BY <2>1, <2>2, <2>6
<1>5. ~Chercher
  BY DEF Chercher
<1>6. QED
  BY <1>1, <1>2, <1>3, <1>4, <1>5 DEF NextPremiers

LEMMA PremiersInductif ==
    ASSUME InvPremiers, [Next]_vars
    PROVE  InvPremiers'
<1>1. CASE UNCHANGED <<programme, varsPremiers>>
  BY <1>1 DEF InvPremiers, varsPremiers, ReposPremiers, InitTableaux, InvPrime, InvPPrime,
              Threads, Cree, Fait, Rang
<1>2. CASE programme \in ProgrammesPremiers /\ NextPremiers /\ UNCHANGED programme
  <2>1. UNCHANGED maximum
    BY <1>2 DEF NextPremiers, Chercher, do_work, CreerThread, JoindreThread, ParThread, Compter
  <2>2. QED
    BY <1>2, <2>1, PasPrime, PasPPrime DEF InvPremiers
<1>3. QED
  BY <1>1, <1>2, PasPremiers

LEMMA PremiersInvariant == Spec => []InvPremiers
BY PremiersInitial, PremiersInductif, PTL DEF Spec

\* Two threads never work on the same element of the array, for any number of
\* threads: their progressions are disjoint.
THEOREM SansCoursePPrime == Spec => []SansCourse
<1>1. InvPremiers => SansCourse
  <2>1. SUFFICES ASSUME InvPremiers, NEW t \in Threads, NEW u \in Threads, t # u,
                        indice[t] \in 2 .. maximum, indice[t] = indice[u]
                 PROVE  FALSE
    BY DEF SansCourse
  <2>2. nb_thread \in Nat \ {0} /\ Rang(t, indice[t]) /\ Rang(u, indice[t])
    <3>1. CASE programme \notin ProgrammesPremiers
      BY <2>1, <3>1 DEF InvPremiers, ReposPremiers, Threads
    <3>2. CASE programme = "prime"
      BY <2>1, <3>2 DEF InvPremiers, InvPrime, Threads, ProgrammesPremiers
    <3>3. CASE programme = "p_prime"
      BY <2>1, <3>3 DEF InvPremiers, InvPPrime, ProgrammesPremiers
    <3>4. QED
      BY <3>1, <3>2, <3>3 DEF ProgrammesPremiers
  <2>3. PICK q \in Nat : indice[t] = nb_thread * q + (t + 2)
    BY <2>2 DEF Rang
  <2>4. PICK p \in Nat : indice[t] = nb_thread * p + (u + 2)
    BY <2>2 DEF Rang
  <2>5. /\ t \in 0 .. nb_thread - 1 /\ u \in 0 .. nb_thread - 1
        /\ nb_thread * q \in Nat /\ nb_thread * p \in Nat
    BY <2>2 DEF Threads
  <2>6. nb_thread * q + t = nb_thread * p + u
    BY <2>3, <2>4, <2>5
  <2>7. t = u
    BY <2>2, <2>5, <2>6, DivisionUnique
  <2>8. QED
    BY <2>1, <2>7
<1>2. QED
  BY <1>1, PremiersInvariant, PTL

\* Both programs count exactly the prime numbers up to the maximum, for any
\* maximum and number of threads, and no index leaves the arrays of p_prime.c.
THEOREM CompteJustePremiers == Spec => []CompteJuste
<1>1. InvPremiers => CompteJuste
  <2>1. CASE programme \notin ProgrammesPremiers /\ InvPremiers
    <3>1. /\ ReposPremiers /\ Threads = {0} /\ maximum = 1 /\ nb_thread = 1 /\ nb = 0
          /\ phase = "arrete" /\ cap = 8 /\ primes = <<>>
      BY <2>1 DEF InvPremiers, ReposPremiers, InitTableaux, Threads
    <3>2. QED
      BY <3>1 DEF CompteJuste, TypeOKPremiers, ReposPremiers, InitTableaux
  <2>2. CASE programme \in ProgrammesPremiers /\ InvPremiers
    <3>1. /\ maximum \in Nat \ {0}
          /\ Cardinality(PremiersJusqua(maximum)) \in 0 .. maximum
      BY <2>2, PremiersFinis DEF InvPremiers
    <3>2. /\ nb_thread \in Nat \ {0} /\ Len(primes) <= cap + 1
          /\ nb = IF phase = "fini" THEN Cardinality(PremiersJusqua(maximum)) ELSE 0
          /\ phase \in {"chercher", "creer", "joindre", "compter", "fini", "indefini"}
      <4>1. CASE programme = "prime"
        <5>1. InvPrime
          BY <2>2, <4>1 DEF InvPremiers
        <5>2. phase = "fini" => compteur - 1 = maximum
          BY <3>1, <5>1 DEF InvPrime
        <5>3. QED
          BY <5>1, <5>2 DEF InvPrime
      <4>2. CASE programme = "p_prime"
        BY <2>2, <4>2 DEF InvPremiers, InvPPrime
      <4>3. QED
        BY <2>2, <4>1, <4>2 DEF ProgrammesPremiers
    <3>3. /\ work_list \in [0 .. maximum -> BOOLEAN]
          /\ indice \in [Threads -> 0 .. maximum + nb_thread + 1]
      <4>1. CASE programme = "prime"
        <5>1. /\ work_list = [n \in 0 .. maximum |-> FALSE]
              /\ indice = [t \in Threads |-> 0] /\ nb_thread = 1
          BY <2>2, <4>1 DEF InvPremiers, InvPrime
        <5>2. 0 \in 0 .. maximum + nb_thread + 1
          BY <3>1, <5>1
        <5>3. QED
          BY <5>1, <5>2
      <4>2. CASE programme = "p_prime"
        BY <2>2, <4>2 DEF InvPremiers, InvPPrime
      <4>3. QED
        BY <2>2, <4>1, <4>2 DEF ProgrammesPremiers
    <3>4. PremiersJusqua(maximum) = {n \in 2 .. maximum : \A d \in 2 .. n - 1 : n % d # 0}
      BY DEF PremiersJusqua, Premier
    <3>5. QED
      BY <3>1, <3>2, <3>3, <3>4 DEF CompteJuste, TypeOKPremiers
  <2>3. QED
    BY <2>1, <2>2
<1>2. QED
  BY <1>1, PremiersInvariant, PTL

-----------------------------------------------------------------------------
\* The signals.  The disposition of the signal of the program is what its last
\* sigaction has installed; a handler runs only when that is the handler, and
\* each handler that has run has used up a signal that was sent.

Attendue ==
    IF etape = 1 THEN "defaut"
    ELSE IF programme = "ignoreSignal" THEN "ignorer"
    ELSE IF (programme = "traiterUneFois" /\ etape > 3)
            \/ (programme = "traiterDeuxFois" /\ etape > 4) THEN "defaut"
    ELSE "gere"

\* The handlers that must have returned for main to be where it is.
Depassees ==
    IF programme \in {"traiterUneFois", "traiterDeuxFois"}
    THEN IF etape <= 2 THEN 0
         ELSE IF programme = "traiterDeuxFois" /\ etape > 3 THEN 2 ELSE 1
    ELSE 0

Un(P, s) == IF s \in P THEN 1 ELSE 0
Consommes ==
    traites + Un(pendants, "SIGINT") + Un(pendants, "SIGUSR1")
    + (IF gestion = Aucun THEN 0 ELSE 1)

TypeSignaux ==
    /\ envois \in 0 .. MAXSIGNAUX /\ traites \in Nat /\ tours \in 0 .. 5
    /\ pendants \subseteq Signaux /\ endormi \in BOOLEAN
    /\ etape \in 1 .. Len(Programme.main)
    /\ issue \in Signaux \cup {"actif", "exit"}

DispositionExacte ==
    /\ dispo = [s \in Signaux |-> IF s = Programme.signal THEN Attendue ELSE "defaut"]
    /\ Attendue = "ignorer" => Programme.signal \notin pendants

GestionExacte ==
    /\ gestion \in {Aucun, Programme.signal}
    /\ IF gestion = Aucun THEN masque = {}
       ELSE masque = {gestion} \cup Programme.bloque /\ Attendue = "gere"
    /\ endormi => Programme.main[etape] = "pause"

TraitesExacts == Consommes <= envois /\ traites >= Depassees

IssueExacte ==
    issue \in Signaux =>
        /\ issue = Programme.signal => Attendue = "defaut"
        /\ programme = "eviterSigInt" => gestion = Aucun

InvSignaux ==
    IF programme \in ProgrammesSignaux
    THEN TypeSignaux /\ DispositionExacte /\ GestionExacte /\ TraitesExacts /\ IssueExacte
    ELSE ReposSignaux

\* The table of the programs: what their proofs need of it.
LEMMA Table ==
    ASSUME programme \in ProgrammesSignaux
    PROVE  /\ Programme.signal \in Signaux /\ Programme.bloque \subseteq Signaux
           /\ Programme.tours \in 0 .. 5
           /\ Programme.sort <=> programme \in {"gestionDirecte", "eviterSigInt", "verifierReception"}
           /\ Len(Programme.main) =
                  CASE programme = "traiterDeuxFois" -> 5 [] programme = "traiterUneFois" -> 4
                    [] OTHER -> 2
           /\ \A e \in 1 .. Len(Programme.main) :
                  Programme.main[e] =
                      CASE e = 1 -> (IF programme = "ignoreSignal" THEN "ignorer" ELSE "gere")
                        [] programme = "traiterUneFois" /\ e = 3 -> "defaut"
                        [] programme = "traiterDeuxFois" /\ e = 4 -> "defaut"
                        [] OTHER -> "pause"
           /\ programme = "eviterSigInt" =>
                  Programme.signal = "SIGUSR1" /\ Programme.bloque = {"SIGINT"}
<1>1. CASE programme = "gestionDirecte"
  BY <1>1 DEF Programme, gestionDirecte, Signaux
<1>2. CASE programme = "ignoreSignal"
  BY <1>2 DEF Programme, ignoreSignal, Signaux
<1>3. CASE programme = "eviterSigInt"
  BY <1>3 DEF Programme, eviterSigInt, Signaux
<1>4. CASE programme = "verifierReception"
  BY <1>4 DEF Programme, verifierReception, Signaux
<1>5. CASE programme = "traiterDeuxFois"
  BY <1>5 DEF Programme, traiterDeuxFois, Signaux
<1>6. CASE programme = "traiterUneFois"
  BY <1>6 DEF Programme, traiterUneFois, Signaux
<1>7. QED
  BY <1>1, <1>2, <1>3, <1>4, <1>5, <1>6 DEF ProgrammesSignaux

LEMMA SignauxInitial ==
    ASSUME Init
    PROVE  InvSignaux
<1>1. CASE programme \notin ProgrammesSignaux
  BY <1>1 DEF Init, InvSignaux
<1>2. CASE programme \in ProgrammesSignaux
  <2>1. InitNoyau /\ issue = "actif"
    BY <1>2 DEF Init, InitSignaux
  <2>2. Attendue = "defaut" /\ Depassees = 0 /\ Consommes = 0
    BY <2>1 DEF InitNoyau, Attendue, Depassees, Consommes, Un
  <2>3. Len(Programme.main) \in {2, 4, 5}
    BY <1>2, Table DEF ProgrammesSignaux
  <2>4. TypeSignaux
    <3>1. PICK l \in {2, 4, 5} : Len(Programme.main) = l
      BY <2>3
    <3>2. 1 \in 1 .. l
      OBVIOUS
    <3>3. /\ envois = 0 /\ pendants = {} /\ etape = 1 /\ endormi = FALSE
          /\ tours = 0 /\ traites = 0
      BY <2>1 DEF InitNoyau
    <3>4. etape \in 1 .. Len(Programme.main)
      BY <3>1, <3>2, <3>3
    <3>5. envois \in 0 .. MAXSIGNAUX /\ traites \in Nat /\ tours \in 0 .. 5
      BY <3>3, SignauxAssumption
    <3>6. pendants \subseteq Signaux /\ endormi \in BOOLEAN
      BY <3>3
    <3>7. QED
      BY <2>1, <3>4, <3>5, <3>6 DEF TypeSignaux
  <2>5. DispositionExacte /\ GestionExacte /\ TraitesExacts /\ IssueExacte
    BY <2>1, <2>2
       DEF InitNoyau, DispositionExacte, GestionExacte, TraitesExacts, IssueExacte, Signaux, Aucun
  <2>6. QED
    BY <1>2, <2>4, <2>5 DEF InvSignaux
<1>3. QED
  BY <1>1, <1>2

LEMMA PasSignauxInductif ==
    ASSUME programme \in ProgrammesSignaux, InvSignaux, UNCHANGED programme,
           processusSignaux \/ utilisateurSignaux
    PROVE  InvSignaux'
<1>0. TypeSignaux /\ DispositionExacte /\ GestionExacte /\ TraitesExacts /\ IssueExacte
  BY DEF InvSignaux
<1> DEFINE m == Programme.main
           s == Programme.signal
<1>t. Programme' = Programme /\ s \in Signaux /\ Aucun \notin Signaux
  BY Table DEF Programme, gestionDirecte, ignoreSignal, eviterSigInt, verifierReception,
               traiterDeuxFois, traiterUneFois, Signaux, Aucun
<1>1. ASSUME NEW x \in Signaux, Envoyer(x) PROVE InvSignaux'
  <2>1. /\ envois' = envois + 1 /\ envois < MAXSIGNAUX /\ issue = "actif"
        /\ pendants' = IF dispo[x] = "ignorer" THEN pendants ELSE pendants \cup {x}
        /\ UNCHANGED <<masque, dispo, etape, endormi, gestion, tours, traites, issue>>
    BY <1>1 DEF Envoyer, EnCoursSignaux
  <2>2. Attendue' = Attendue /\ Depassees' = Depassees
    BY <2>1 DEF Attendue, Depassees
  <2>3. TypeSignaux'
    BY <1>0, <1>t, <2>1, SignauxAssumption DEF TypeSignaux
  <2>4. DispositionExacte'
    BY <1>0, <1>t, <2>1, <2>2 DEF DispositionExacte
  <2>5. Consommes' <= Consommes + 1 /\ Consommes \in Nat /\ Consommes' \in Nat
    BY <1>0, <2>1 DEF Consommes, Un, TypeSignaux, Signaux
  <2>6. TraitesExacts'
    BY <1>0, <2>1, <2>2, <2>5, SignauxAssumption DEF TraitesExacts, TypeSignaux
  <2>7. GestionExacte' /\ IssueExacte'
    BY <1>0, <1>t, <2>1, <2>2 DEF GestionExacte, IssueExacte
  <2>8. QED
    BY <2>3, <2>4, <2>6, <2>7 DEF InvSignaux
<1>2. ASSUME NEW x \in Signaux, Delivrer(x) PROVE InvSignaux'
  <2>1. /\ issue = "actif" /\ x \in pendants \ masque /\ pendants' = pendants \ {x}
        /\ UNCHANGED <<envois, dispo, etape, endormi, traites>>
        /\ IF dispo[x] = "defaut" THEN issue' = x /\ UNCHANGED <<gestion, masque, tours>>
           ELSE gestion' = x /\ tours' = 0 /\ masque' = {x} \cup Programme.bloque /\ UNCHANGED issue
    BY <1>2 DEF Delivrer, EnCoursSignaux
  <2>2. Attendue' = Attendue /\ Depassees' = Depassees
    BY <2>1 DEF Attendue, Depassees
  <2>3. dispo[x] = IF x = s THEN Attendue ELSE "defaut"
    BY <1>0, <1>2 DEF DispositionExacte
  <2>4. Attendue \in {"defaut", "ignorer", "gere"}
    BY DEF Attendue
  <2>5. dispo[x] # "defaut" => x = s /\ Attendue = "gere" /\ gestion = Aucun
    BY <1>0, <2>1, <2>3, <2>4 DEF DispositionExacte, GestionExacte
  <2>6. TypeSignaux'
    BY <1>0, <1>t, <1>2, <2>1 DEF TypeSignaux
  <2>7. DispositionExacte'
    BY <1>0, <1>t, <2>1, <2>2 DEF DispositionExacte
  <2>8. GestionExacte'
    BY <1>0, <1>t, <2>1, <2>2, <2>5 DEF GestionExacte
  <2>9. Consommes' <= Consommes /\ Consommes \in Nat /\ Consommes' \in Nat
    BY <1>0, <1>2, <2>1, <2>5 DEF Consommes, Un, TypeSignaux, Signaux
  <2>10. TraitesExacts'
    BY <1>0, <2>1, <2>2, <2>9 DEF TraitesExacts, TypeSignaux
  <2>11. IssueExacte'
    BY <1>0, <1>t, <2>1, <2>2, <2>3, Table DEF IssueExacte, GestionExacte, Signaux
  <2>12. QED
    BY <2>6, <2>7, <2>8, <2>10, <2>11 DEF InvSignaux
<1>3. CASE Installer
  <2>1. /\ gestion = Aucun /\ issue = "actif" /\ etape <= Len(m) /\ m[etape] # "pause"
        /\ dispo' = [dispo EXCEPT ![s] = m[etape]]
        /\ pendants' = IF m[etape] = "ignorer" THEN pendants \ {s} ELSE pendants
        /\ etape' = etape + 1
        /\ UNCHANGED <<envois, masque, endormi, gestion, tours, traites, issue>>
    BY <1>3 DEF Installer, DansMain, EnCoursSignaux
  <2>2. etape' \in 1 .. Len(m) /\ Attendue' = m[etape] /\ ~endormi
    BY <1>0, <2>1, Table DEF Attendue, TypeSignaux, GestionExacte, ProgrammesSignaux
  <2>3. Depassees' = Depassees
    BY <1>0, <2>1, <2>2, Table DEF Depassees, TypeSignaux
  <2>4. TypeSignaux'
    BY <1>0, <1>t, <2>1, <2>2 DEF TypeSignaux
  <2>5. DispositionExacte'
    BY <1>0, <1>t, <2>1, <2>2 DEF DispositionExacte
  <2>6. GestionExacte' /\ IssueExacte'
    BY <1>0, <1>t, <2>1, <2>2 DEF GestionExacte, IssueExacte, Signaux
  <2>7. Consommes' <= Consommes /\ Consommes \in Nat /\ Consommes' \in Nat
    BY <1>0, <2>1 DEF Consommes, Un, TypeSignaux
  <2>8. TraitesExacts'
    BY <1>0, <2>1, <2>3, <2>7 DEF TraitesExacts, TypeSignaux
  <2>9. QED
    BY <2>4, <2>5, <2>6, <2>8 DEF InvSignaux
<1>4. CASE Dormir
  <2>1. /\ m[etape] = "pause" /\ endormi' = TRUE /\ issue = "actif"
        /\ UNCHANGED <<envois, pendants, masque, dispo, etape, gestion, tours, traites, issue>>
    BY <1>4 DEF Dormir, DansMain, EnCoursSignaux
  <2>2. Attendue' = Attendue /\ Depassees' = Depassees /\ Consommes' = Consommes
    BY <2>1 DEF Attendue, Depassees, Consommes
  <2>3. QED
    BY <1>0, <1>t, <2>1, <2>2
       DEF InvSignaux, TypeSignaux, DispositionExacte, GestionExacte, TraitesExacts, IssueExacte
<1>5. ~Retourner
  BY <1>0, Table DEF Retourner, TypeSignaux
<1>6. CASE gere
  <2>1. /\ issue = "actif" /\ gestion = s /\ Attendue = "gere"
        /\ UNCHANGED <<envois, pendants, dispo>>
    BY <1>0, <1>6 DEF gere, EnCoursSignaux, GestionExacte
  <2>2. CASE tours < Programme.tours
    <3>1. tours' = tours + 1 /\ UNCHANGED <<masque, etape, endormi, gestion, traites, issue>>
      BY <1>6, <2>2 DEF gere
    <3>2. Attendue' = Attendue /\ Depassees' = Depassees /\ Consommes' = Consommes
      BY <2>1, <3>1 DEF Attendue, Depassees, Consommes
    <3>3. tours' \in 0 .. 5
      BY <1>0, <2>2, <3>1, Table DEF TypeSignaux
    <3>4. QED
      BY <1>0, <1>t, <2>1, <3>1, <3>2, <3>3
         DEF InvSignaux, TypeSignaux, DispositionExacte, GestionExacte, TraitesExacts, IssueExacte
  <2>3. CASE ~(tours < Programme.tours) /\ Programme.sort
    <3>1. issue' = "exit" /\ UNCHANGED <<masque, etape, endormi, gestion, tours, traites>>
      BY <1>6, <2>3 DEF gere
    <3>2. Attendue' = Attendue /\ Depassees' = Depassees /\ Consommes' = Consommes
      BY <2>1, <3>1 DEF Attendue, Depassees, Consommes
    <3>3. QED
      BY <1>0, <1>t, <2>1, <3>1, <3>2
         DEF InvSignaux, TypeSignaux, DispositionExacte, GestionExacte, TraitesExacts, IssueExacte,
             Signaux
  <2>4. CASE ~(tours < Programme.tours) /\ ~Programme.sort
    <3>1. /\ gestion' = Aucun /\ masque' = {} /\ traites' = traites + 1 /\ endormi' = FALSE
          /\ etape' = IF endormi THEN etape + 1 ELSE etape
          /\ UNCHANGED <<tours, issue>>
      BY <1>6, <2>4 DEF gere
    <3>2. etape' \in 1 .. Len(m) /\ Attendue' = Attendue /\ Depassees' <= Depassees + 1
          /\ Depassees \in Nat /\ Depassees' \in Nat
      <4>1. programme \in {"traiterUneFois", "traiterDeuxFois"}
        BY <2>1, <2>4, Table DEF ProgrammesSignaux, Attendue
      <4>2. etape \in 1 .. Len(m) /\ (endormi => m[etape] = "pause")
        BY <1>0 DEF TypeSignaux, GestionExacte
      <4>3. QED
        BY <2>1, <3>1, <4>1, <4>2, Table DEF Attendue, Depassees
    <3>3. Consommes' = Consommes
      BY <1>0, <1>t, <2>1, <3>1 DEF Consommes, Un, TypeSignaux
    <3>4. TypeSignaux' /\ TraitesExacts'
      <4>1. TypeSignaux'
        <5>1. etape' \in 1 .. Len(Programme'.main) /\ traites' \in Nat
          BY <1>0, <1>t, <3>1, <3>2 DEF TypeSignaux
        <5>2. QED
          BY <1>0, <2>1, <3>1, <5>1 DEF TypeSignaux
      <4>2. traites' >= Depassees'
        BY <1>0, <3>1, <3>2 DEF TypeSignaux, TraitesExacts
      <4>3. QED
        BY <1>0, <2>1, <3>3, <4>1, <4>2 DEF TraitesExacts
    <3>5. DispositionExacte' /\ GestionExacte' /\ IssueExacte'
      BY <1>0, <1>t, <2>1, <3>1, <3>2 DEF DispositionExacte, GestionExacte, IssueExacte, Signaux
    <3>6. QED
      BY <3>4, <3>5 DEF InvSignaux
  <2>5. QED
    BY <2>2, <2>3, <2>4
<1>7. QED
  BY <1>1, <1>2, <1>3, <1>4, <1>5, <1>6 DEF processusSignaux, utilisateurSignaux

LEMMA SignauxInductif ==
    ASSUME InvSignaux, [Next]_vars
    PROVE  InvSignaux'
<1>1. CASE UNCHANGED <<programme, varsSignaux>>
  <2>1. Programme' = Programme
    BY <1>1 DEF Programme, gestionDirecte, ignoreSignal, eviterSigInt, verifierReception,
                traiterDeuxFois, traiterUneFois
  <2>2. Attendue' = Attendue /\ Depassees' = Depassees /\ Consommes' = Consommes
    BY <1>1 DEF varsSignaux, Attendue, Depassees, Consommes
  <2>3. QED
    BY <1>1, <2>1, <2>2
       DEF varsSignaux, InvSignaux, TypeSignaux, DispositionExacte, GestionExacte, TraitesExacts,
           IssueExacte, ReposSignaux, InitNoyau
<1>2. CASE /\ programme \in ProgrammesSignaux /\ (processusSignaux \/ utilisateurSignaux)
           /\ UNCHANGED programme
  BY <1>2, PasSignauxInductif
<1>3. QED
  BY <1>1, <1>2, PasSignaux

LEMMA SignauxInvariant == Spec => []InvSignaux
BY SignauxInitial, SignauxInductif, PTL DEF Spec

\* Whenever the signals come: main never returns from its last pause, a handler
\* that is installed has run as often as the program promises before its signal
\* kills, and SIGINT does not cut the handler of eviterSigInt.c.
THEOREM SignauxTraitesToujours == Spec => []SignauxTraites
<1>1. InvSignaux => SignauxTraites
  <2>1. CASE programme \notin ProgrammesSignaux /\ InvSignaux
    <3>1. issue = "autre" /\ InitNoyau
      BY <2>1 DEF InvSignaux, ReposSignaux
    <3>2. QED
      BY <3>1 DEF SignauxTraites, TypeOKSignaux, InitNoyau, Signaux
  <2>2. CASE programme \in ProgrammesSignaux /\ InvSignaux
    <3>1. TypeSignaux /\ DispositionExacte /\ GestionExacte /\ TraitesExacts /\ IssueExacte
      BY <2>2 DEF InvSignaux
    <3>2. Attendue \in {"defaut", "ignorer", "gere"}
      BY DEF Attendue
    <3>3. traites \in 0 .. envois /\ envois <= MAXSIGNAUX
      BY <3>1, SignauxAssumption DEF TypeSignaux, TraitesExacts, Consommes, Un
    <3>4. masque \subseteq Signaux /\ dispo \in [Signaux -> {"defaut", "ignorer", "gere"}]
      BY <2>2, <3>1, <3>2, Table DEF GestionExacte, DispositionExacte
    <3>5. TypeOKSignaux /\ issue # "retour"
      BY <3>1, <3>3, <3>4 DEF TypeOKSignaux, TypeSignaux, Signaux
    <3>6. ASSUME issue \in Signaux, issue = Programme.signal, etape > 1
          PROVE  traites >= Promis
      <4>1. Attendue = "defaut" /\ traites >= Depassees /\ etape # 1
        BY <3>1, <3>6 DEF IssueExacte, TraitesExacts, TypeSignaux
      <4>2. Depassees = Promis
        BY <2>2, <3>1, <4>1 DEF Attendue, Depassees, Promis, TypeSignaux, ProgrammesSignaux
      <4>3. QED
        BY <4>1, <4>2
    <3>7. QED
      BY <3>1, <3>5, <3>6 DEF SignauxTraites, IssueExacte
  <2>3. QED
    BY <2>1, <2>2
<1>2. QED
  BY <1>1, SignauxInvariant, PTL

-----------------------------------------------------------------------------
\* The pipes.  What each process has open follows from its point; the second
\* command has opened the named pipe before the first goes on, and the other
\* way round.

Tuyau == IF programme = "shellFifo" THEN {} ELSE {"p0", "p1"}

TypeTubes ==
    /\ programme \in ProgrammesTubes /\ nature \in {"tout", "debut", "rien"}
    /\ DOMAIN pc = Processus
    /\ pc["pere"] \in {"creer", "fork1", "fork2", "fermer", "attendre1", "attendre2", "supprimer",
                       "fini"}
    /\ \A p \in Enfants : pc[p] \in {"absent", "preparer", "ouvrir", "exec", "actif"} \cup Termines
    /\ desc \in [Processus -> SUBSET {"p0", "p1", "0", "1"}]

Comptes ==
    /\ reste \in 0 .. MAXECRIT \cup {Infini}
    /\ tube \in 0 .. CAPACITE

DescPere ==
    desc["pere"] = IF pc["pere"] \in {"fork1", "fork2", "fermer"} THEN Tuyau ELSE {}

DescCommande1 ==
    /\ pc["commande1"] \in Termines \cup {"absent"} => desc["commande1"] = {}
    /\ pc["commande1"] = "preparer" => desc["commande1"] = Tuyau
    /\ pc["commande1"] = "ouvrir" => programme = "shellFifo"
    /\ pc["commande1"] \in {"ouvrir", "exec", "actif"} =>
           desc["commande1"] = {"1"} \cup (IF programme = "shellFifo2" THEN {"p0"} ELSE {})

DescCommande2 ==
    /\ pc["commande2"] \in Termines \cup {"absent"} => desc["commande2"] = {}
    /\ pc["commande2"] = "preparer" => desc["commande2"] = Tuyau
    /\ pc["commande2"] = "ouvrir" => programme = "shellFifo" /\ desc["commande2"] = {"0"}
    /\ pc["commande2"] \in {"exec", "actif"} =>
           CASE programme = "shellPipe"  -> desc["commande2"] = {"0"}
             [] programme = "shellFifo2" -> desc["commande2"] = {"p0"}
             [] programme = "shellFifo"  -> \/ desc["commande2"] = {}
                                            \/ pc["commande2"] = "actif" /\ desc["commande2"] = {"0"}

\* The father creates the commands in order, and waits for both.
Naissances ==
    /\ pc["pere"] \in {"creer", "fork1"} => pc["commande1"] = "absent"
    /\ pc["pere"] \in {"creer", "fork1", "fork2"} => pc["commande2"] = "absent"
    /\ pc["commande1"] = "absent" => pc["pere"] \in {"creer", "fork1", "fini"}
    /\ pc["commande2"] = "absent" => pc["pere"] \in {"creer", "fork1", "fork2", "fini"}
    /\ pc["pere"] = "fini" =>
           \/ pc["commande1"] = "absent" /\ pc["commande2"] = "absent"
           \/ pc["commande1"] \in Termines /\ pc["commande2"] \in Termines
    /\ pc["pere"] \in {"attendre2", "supprimer"} => pc["commande1"] \in Termines
    /\ pc["pere"] = "supprimer" => pc["commande2"] \in Termines

\* The two ends of the named pipe wait for each other.
Rendezvous ==
    programme = "shellFifo" =>
        /\ pc["commande1"] \in {"exec", "actif"} => Ouvert2
        /\ "0" \in desc["commande2"] => nature # "rien"
        /\ pc["commande2"] = "actif" /\ "0" \in desc["commande2"] =>
               pc["commande1"] \notin {"absent", "preparer"}

Fins ==
    /\ pc["commande1"] = "sigpipe" => pc["commande2"] \in Termines
    /\ nature = "tout" /\ pc["commande2"] \in Termines =>
           pc["commande1"] \in Termines /\ tube = 0

InvTubes ==
    IF programme \in ProgrammesTubes
    THEN /\ TypeTubes /\ Comptes /\ DescPere /\ DescCommande1 /\ DescCommande2
         /\ Naissances /\ Rendezvous /\ Fins
    ELSE ReposTubes

LEMMA TubesInitial ==
    ASSUME Init
    PROVE  InvTubes
<1>1. CASE programme \notin ProgrammesTubes
  BY <1>1 DEF Init, InvTubes
<1>2. CASE programme \in ProgrammesTubes
  <2>1. InitTubes
    BY <1>2 DEF Init
  <2>2. \A p \in Processus : pc[p] = (IF p = "pere" THEN "creer" ELSE "absent") /\ desc[p] = {}
    BY <2>1 DEF InitTubes
  <2>3. pc["pere"] = "creer" /\ \A p \in Enfants : pc[p] = "absent" /\ desc[p] = {}
    BY <2>2 DEF Processus, Enfants
  <2>4. TypeTubes /\ DescPere /\ DescCommande1 /\ DescCommande2 /\ Naissances /\ Rendezvous /\ Fins
    BY <1>2, <2>1, <2>2, <2>3
       DEF InitTubes, TypeTubes, DescPere, DescCommande1, DescCommande2, Naissances, Rendezvous,
           Fins, Processus, Enfants, Termines
  <2>5. Comptes
    BY <2>1, TubesAssumption DEF InitTubes, Comptes
  <2>6. QED
    BY <1>2, <2>4, <2>5 DEF InvTubes
<1>3. QED
  BY <1>1, <1>2

\* Where the processes are, without what is written.
PointsTubes ==
    TypeTubes /\ DescPere /\ DescCommande1 /\ DescCommande2 /\ Naissances /\ Rendezvous

\* The father.
LEMMA PointsPere ==
    ASSUME PointsTubes, UNCHANGED programme, pere
    PROVE  PointsTubes'
<1>0. TypeTubes /\ DescPere /\ DescCommande1 /\ DescCommande2 /\ Naissances /\ Rendezvous
  BY DEF PointsTubes
<1>1. CASE Creer /\ UNCHANGED nature
  <2>1. /\ pc["pere"] = "creer"
        /\ DOMAIN pc' = Processus /\ desc' \in [Processus -> SUBSET {"p0", "p1", "0", "1"}]
        /\ UNCHANGED <<programme, nature, pc["commande1"], pc["commande2"], desc["commande1"], desc["commande2"]>>
        /\ IF programme = "shellFifo" THEN pc'["pere"] \in {"fini", "fork1"} /\ UNCHANGED desc["pere"]
           ELSE pc'["pere"] = "fork1" /\ desc'["pere"] = {"p0", "p1"}
    BY <1>0, <1>1 DEF Creer, Aller, TypeTubes, Processus, Enfants
  <2>2. TypeTubes' /\ DescPere'
    BY <1>0, <2>1 DEF TypeTubes, DescPere, Enfants, Termines, Tuyau
  <2>3. DescCommande1' /\ DescCommande2'
    BY <1>0, <2>1 DEF TypeTubes, DescPere, DescCommande1, DescCommande2, Termines, Tuyau,
                      ProgrammesTubes
  <2>4. Naissances'
    BY <1>0, <2>1 DEF TypeTubes, Naissances, Enfants, Termines
  <2>5. Rendezvous'
    BY <1>0, <2>1 DEF TypeTubes, DescPere, DescCommande1, DescCommande2, Naissances, Rendezvous,
                      Ouvert2, Enfants, Termines, Tuyau
  <2>6. QED
    BY <2>2, <2>3, <2>4, <2>5 DEF PointsTubes
<1>2. CASE Fork1 /\ UNCHANGED nature
  <2>1. /\ pc["pere"] = "fork1"
        /\ DOMAIN pc' = Processus /\ desc' \in [Processus -> SUBSET {"p0", "p1", "0", "1"}]
        /\ UNCHANGED <<programme, nature, pc["commande2"], desc["pere"], desc["commande2"]>>
        /\ pc'["pere"] = "fork2" /\ pc'["commande1"] = "preparer" /\ desc'["commande1"] = desc["pere"]
    BY <1>0, <1>2 DEF Fork1, Fork, TypeTubes, Processus, Enfants
  <2>2. TypeTubes' /\ DescPere'
    BY <1>0, <2>1 DEF TypeTubes, DescPere, Enfants, Termines, Tuyau
  <2>3. DescCommande1' /\ DescCommande2'
    BY <1>0, <2>1 DEF TypeTubes, DescPere, DescCommande1, DescCommande2, Termines, Tuyau,
                      ProgrammesTubes
  <2>4. Naissances'
    BY <1>0, <2>1 DEF TypeTubes, Naissances, Enfants, Termines
  <2>5. Rendezvous'
    BY <1>0, <2>1 DEF TypeTubes, DescPere, DescCommande1, DescCommande2, Naissances, Rendezvous,
                      Ouvert2, Enfants, Termines, Tuyau
  <2>6. QED
    BY <2>2, <2>3, <2>4, <2>5 DEF PointsTubes
<1>3. CASE Fork2 /\ UNCHANGED nature
  <2>1. /\ pc["pere"] = "fork2"
        /\ DOMAIN pc' = Processus /\ desc' \in [Processus -> SUBSET {"p0", "p1", "0", "1"}]
        /\ UNCHANGED <<programme, nature, pc["commande1"], desc["pere"], desc["commande1"]>>
        /\ pc'["pere"] = "fermer" /\ pc'["commande2"] = "preparer" /\ desc'["commande2"] = desc["pere"]
    BY <1>0, <1>3 DEF Fork2, Fork, TypeTubes, Processus, Enfants
  <2>2. TypeTubes' /\ DescPere'
    BY <1>0, <2>1 DEF TypeTubes, DescPere, Enfants, Termines, Tuyau
  <2>3. DescCommande1' /\ DescCommande2'
    BY <1>0, <2>1 DEF TypeTubes, DescPere, DescCommande1, DescCommande2, Termines, Tuyau,
                      ProgrammesTubes
  <2>4. Naissances'
    BY <1>0, <2>1 DEF TypeTubes, Naissances, Enfants, Termines
  <2>5. Rendezvous'
    BY <1>0, <2>1 DEF TypeTubes, DescPere, DescCommande1, DescCommande2, Naissances, Rendezvous,
                      Ouvert2, Enfants, Termines, Tuyau
  <2>6. QED
    BY <2>2, <2>3, <2>4, <2>5 DEF PointsTubes
<1>4. CASE Fermer /\ UNCHANGED nature
  <2>1. /\ pc["pere"] = "fermer"
        /\ DOMAIN pc' = Processus /\ desc' \in [Processus -> SUBSET {"p0", "p1", "0", "1"}]
        /\ UNCHANGED <<programme, nature, pc["commande1"], pc["commande2"], desc["commande1"], desc["commande2"]>>
        /\ pc'["pere"] = "attendre1" /\ desc'["pere"] = {}
    BY <1>0, <1>4 DEF Fermer, Aller, TypeTubes, Processus, Enfants
  <2>2. TypeTubes' /\ DescPere'
    BY <1>0, <2>1 DEF TypeTubes, DescPere, Enfants, Termines, Tuyau
  <2>3. DescCommande1' /\ DescCommande2'
    BY <1>0, <2>1 DEF TypeTubes, DescPere, DescCommande1, DescCommande2, Termines, Tuyau,
                      ProgrammesTubes
  <2>4. Naissances'
    BY <1>0, <2>1 DEF TypeTubes, Naissances, Enfants, Termines
  <2>5. Rendezvous'
    BY <1>0, <2>1 DEF TypeTubes, DescPere, DescCommande1, DescCommande2, Naissances, Rendezvous,
                      Ouvert2, Enfants, Termines, Tuyau
  <2>6. QED
    BY <2>2, <2>3, <2>4, <2>5 DEF PointsTubes
<1>5. CASE Attendre("commande1", "attendre1", "attendre2") /\ UNCHANGED nature
  <2>1. /\ pc["pere"] = "attendre1"
        /\ DOMAIN pc' = Processus /\ desc' \in [Processus -> SUBSET {"p0", "p1", "0", "1"}]
        /\ UNCHANGED <<programme, nature, pc["commande1"], pc["commande2"], desc>>
        /\ pc'["pere"] = "attendre2" /\ pc["commande1"] \in Termines
    BY <1>0, <1>5 DEF Attendre, Aller, TypeTubes, Processus, Enfants
  <2>2. TypeTubes' /\ DescPere'
    BY <1>0, <2>1 DEF TypeTubes, DescPere, Enfants, Termines, Tuyau
  <2>3. DescCommande1' /\ DescCommande2'
    BY <1>0, <2>1 DEF TypeTubes, DescPere, DescCommande1, DescCommande2, Termines, Tuyau,
                      ProgrammesTubes
  <2>4. Naissances'
    BY <1>0, <2>1 DEF TypeTubes, Naissances, Enfants, Termines
  <2>5. Rendezvous'
    BY <1>0, <2>1 DEF TypeTubes, DescPere, DescCommande1, DescCommande2, Naissances, Rendezvous,
                      Ouvert2, Enfants, Termines, Tuyau
  <2>6. QED
    BY <2>2, <2>3, <2>4, <2>5 DEF PointsTubes
<1>6. CASE Attendre("commande2", "attendre2", "supprimer") /\ UNCHANGED nature
  <2>1. /\ pc["pere"] = "attendre2"
        /\ DOMAIN pc' = Processus /\ desc' \in [Processus -> SUBSET {"p0", "p1", "0", "1"}]
        /\ UNCHANGED <<programme, nature, pc["commande1"], pc["commande2"], desc>>
        /\ pc'["pere"] = "supprimer" /\ pc["commande2"] \in Termines
    BY <1>0, <1>6 DEF Attendre, Aller, TypeTubes, Processus, Enfants
  <2>2. TypeTubes' /\ DescPere'
    BY <1>0, <2>1 DEF TypeTubes, DescPere, Enfants, Termines, Tuyau
  <2>3. DescCommande1' /\ DescCommande2'
    BY <1>0, <2>1 DEF TypeTubes, DescPere, DescCommande1, DescCommande2, Termines, Tuyau,
                      ProgrammesTubes
  <2>4. Naissances'
    BY <1>0, <2>1 DEF TypeTubes, Naissances, Enfants, Termines
  <2>5. Rendezvous'
    BY <1>0, <2>1 DEF TypeTubes, DescPere, DescCommande1, DescCommande2, Naissances, Rendezvous,
                      Ouvert2, Enfants, Termines, Tuyau
  <2>6. QED
    BY <2>2, <2>3, <2>4, <2>5 DEF PointsTubes
<1>7. CASE Supprimer /\ UNCHANGED nature
  <2>1. /\ pc["pere"] = "supprimer"
        /\ DOMAIN pc' = Processus /\ desc' \in [Processus -> SUBSET {"p0", "p1", "0", "1"}]
        /\ UNCHANGED <<programme, nature, pc["commande1"], pc["commande2"], desc>>
        /\ pc'["pere"] = "fini"
    BY <1>0, <1>7 DEF Supprimer, Aller, TypeTubes, Processus, Enfants
  <2>2. TypeTubes' /\ DescPere'
    BY <1>0, <2>1 DEF TypeTubes, DescPere, Enfants, Termines, Tuyau
  <2>3. DescCommande1' /\ DescCommande2'
    BY <1>0, <2>1 DEF TypeTubes, DescPere, DescCommande1, DescCommande2, Termines, Tuyau,
                      ProgrammesTubes
  <2>4. Naissances'
    BY <1>0, <2>1 DEF TypeTubes, Naissances, Enfants, Termines
  <2>5. Rendezvous'
    BY <1>0, <2>1 DEF TypeTubes, DescPere, DescCommande1, DescCommande2, Naissances, Rendezvous,
                      Ouvert2, Enfants, Termines, Tuyau
  <2>6. QED
    BY <2>2, <2>3, <2>4, <2>5 DEF PointsTubes
<1>8. QED
  BY <1>1, <1>2, <1>3, <1>4, <1>5, <1>6, <1>7 DEF pere

\* The first command.
LEMMA PointsCommande1 ==
    ASSUME PointsTubes, UNCHANGED programme, commande1
    PROVE  PointsTubes'
<1>0. TypeTubes /\ DescPere /\ DescCommande1 /\ DescCommande2 /\ Naissances /\ Rendezvous
  BY DEF PointsTubes
<1>1. CASE Rediriger1 /\ UNCHANGED nature
  <2>1. /\ pc["commande1"] = "preparer"
        /\ DOMAIN pc' = Processus /\ desc' \in [Processus -> SUBSET {"p0", "p1", "0", "1"}]
        /\ UNCHANGED <<programme, nature, pc["pere"], pc["commande2"], desc["pere"], desc["commande2"]>>
        /\ pc'["commande1"] = "exec" /\ programme # "shellFifo"
        /\ desc'["commande1"] = {"1"} \cup (IF programme = "shellFifo2" THEN {"p0"} ELSE {})
    BY <1>0, <1>1 DEF Rediriger1, Aller, TypeTubes, Processus, Enfants
  <2>2. TypeTubes' /\ DescPere'
    BY <1>0, <2>1 DEF TypeTubes, DescPere, Enfants, Termines, Tuyau
  <2>3. DescCommande1' /\ DescCommande2'
    BY <1>0, <2>1 DEF TypeTubes, DescPere, DescCommande1, DescCommande2, Termines, Tuyau,
                      ProgrammesTubes
  <2>4. Naissances'
    BY <1>0, <2>1 DEF TypeTubes, Naissances, Enfants, Termines
  <2>5. Rendezvous'
    BY <1>0, <2>1 DEF TypeTubes, DescPere, DescCommande1, DescCommande2, Naissances, Rendezvous,
                      Ouvert2, Enfants, Termines, Tuyau
  <2>6. QED
    BY <2>2, <2>3, <2>4, <2>5 DEF PointsTubes
<1>2. CASE OuvrirFifo1 /\ UNCHANGED nature
  <2>1. /\ DOMAIN pc' = Processus /\ desc' \in [Processus -> SUBSET {"p0", "p1", "0", "1"}]
        /\ UNCHANGED <<programme, nature, pc["pere"], pc["commande2"], desc["pere"], desc["commande2"]>>
        /\ \/ pc["commande1"] = "preparer" /\ programme = "shellFifo" /\ pc'["commande1"] = "ouvrir"
              /\ desc'["commande1"] = {"1"}
           \/ pc["commande1"] = "ouvrir" /\ Ouvert2 /\ pc'["commande1"] = "exec" /\ UNCHANGED <<desc["commande1"]>>
    BY <1>0, <1>2 DEF OuvrirFifo1, Aller, TypeTubes, Processus, Enfants
  <2>2. TypeTubes' /\ DescPere'
    BY <1>0, <2>1 DEF TypeTubes, DescPere, Enfants, Termines, Tuyau
  <2>3. DescCommande1' /\ DescCommande2'
    BY <1>0, <2>1 DEF TypeTubes, DescPere, DescCommande1, DescCommande2, Termines, Tuyau,
                      ProgrammesTubes
  <2>4. Naissances'
    BY <1>0, <2>1 DEF TypeTubes, Naissances, Enfants, Termines
  <2>5. Rendezvous'
    BY <1>0, <2>1 DEF TypeTubes, DescPere, DescCommande1, DescCommande2, Naissances, Rendezvous,
                      Ouvert2, Enfants, Termines, Tuyau
  <2>6. QED
    BY <2>2, <2>3, <2>4, <2>5 DEF PointsTubes
<1>3. CASE Finir1 /\ UNCHANGED nature
  <2>1. /\ pc["commande1"] = "actif"
        /\ DOMAIN pc' = Processus /\ desc' \in [Processus -> SUBSET {"p0", "p1", "0", "1"}]
        /\ UNCHANGED <<programme, nature, pc["pere"], pc["commande2"], desc["pere"], desc["commande2"]>>
        /\ pc'["commande1"] \in Termines /\ desc'["commande1"] = {}
    BY <1>0, <1>3 DEF Finir1, Sortir, Aller, Termines, TypeTubes, Processus, Enfants
  <2>2. TypeTubes' /\ DescPere'
    BY <1>0, <2>1 DEF TypeTubes, DescPere, Enfants, Termines, Tuyau
  <2>3. DescCommande1' /\ DescCommande2'
    BY <1>0, <2>1 DEF TypeTubes, DescPere, DescCommande1, DescCommande2, Termines, Tuyau,
                      ProgrammesTubes
  <2>4. Naissances'
    BY <1>0, <2>1 DEF TypeTubes, Naissances, Enfants, Termines
  <2>5. Rendezvous'
    BY <1>0, <2>1 DEF TypeTubes, DescPere, DescCommande1, DescCommande2, Naissances, Rendezvous,
                      Ouvert2, Enfants, Termines, Tuyau
  <2>6. QED
    BY <2>2, <2>3, <2>4, <2>5 DEF PointsTubes
<1>4. CASE Exec("commande1")
  <2>1. /\ pc["commande1"] = "exec"
        /\ DOMAIN pc' = Processus /\ desc' \in [Processus -> SUBSET {"p0", "p1", "0", "1"}]
        /\ UNCHANGED <<programme, nature, pc["pere"], pc["commande2"], desc["pere"], desc["commande2"]>>
        /\ \/ pc'["commande1"] = "actif" /\ UNCHANGED <<desc["commande1"]>>
           \/ pc'["commande1"] \in Termines /\ desc'["commande1"] = {}
    BY <1>0, <1>4 DEF Exec, Sortir, Aller, Termines, TypeTubes, Processus, Enfants
  <2>2. TypeTubes' /\ DescPere'
    BY <1>0, <2>1 DEF TypeTubes, DescPere, Enfants, Termines, Tuyau
  <2>3. DescCommande1' /\ DescCommande2'
    BY <1>0, <2>1 DEF TypeTubes, DescPere, DescCommande1, DescCommande2, Termines, Tuyau,
                      ProgrammesTubes
  <2>4. Naissances'
    BY <1>0, <2>1 DEF TypeTubes, Naissances, Enfants, Termines
  <2>5. Rendezvous'
    BY <1>0, <2>1 DEF TypeTubes, DescPere, DescCommande1, DescCommande2, Naissances, Rendezvous,
                      Ouvert2, Enfants, Termines, Tuyau
  <2>6. QED
    BY <2>2, <2>3, <2>4, <2>5 DEF PointsTubes
<1>5. CASE Ecrire /\ UNCHANGED nature
  <2>1. /\ pc["commande1"] = "actif"
        /\ DOMAIN pc' = Processus /\ desc' \in [Processus -> SUBSET {"p0", "p1", "0", "1"}]
        /\ UNCHANGED <<programme, nature, pc["pere"], pc["commande2"], desc["pere"], desc["commande2"]>>
        /\ \/ UNCHANGED <<pc["commande1"], desc["commande1"]>>
           \/ pc'["commande1"] \in Termines /\ desc'["commande1"] = {}
    BY <1>0, <1>5 DEF Ecrire, Sortir, Aller, Termines, TypeTubes, Processus, Enfants
  <2>2. TypeTubes' /\ DescPere'
    BY <1>0, <2>1 DEF TypeTubes, DescPere, Enfants, Termines, Tuyau
  <2>3. DescCommande1' /\ DescCommande2'
    BY <1>0, <2>1 DEF TypeTubes, DescPere, DescCommande1, DescCommande2, Termines, Tuyau,
                      ProgrammesTubes
  <2>4. Naissances'
    BY <1>0, <2>1 DEF TypeTubes, Naissances, Enfants, Termines
  <2>5. Rendezvous'
    BY <1>0, <2>1 DEF TypeTubes, DescPere, DescCommande1, DescCommande2, Naissances, Rendezvous,
                      Ouvert2, Enfants, Termines, Tuyau
  <2>6. QED
    BY <2>2, <2>3, <2>4, <2>5 DEF PointsTubes
<1>6. QED
  BY <1>1, <1>2, <1>3, <1>4, <1>5 DEF commande1

\* The second command.
LEMMA PointsCommande2 ==
    ASSUME PointsTubes, UNCHANGED programme, commande2
    PROVE  PointsTubes'
<1>0. TypeTubes /\ DescPere /\ DescCommande1 /\ DescCommande2 /\ Naissances /\ Rendezvous
  BY DEF PointsTubes
<1>1. CASE Rediriger2 /\ UNCHANGED nature
  <2>1. /\ pc["commande2"] = "preparer"
        /\ DOMAIN pc' = Processus /\ desc' \in [Processus -> SUBSET {"p0", "p1", "0", "1"}]
        /\ UNCHANGED <<programme, nature, pc["pere"], pc["commande1"], desc["pere"], desc["commande1"]>>
        /\ pc'["commande2"] = "exec"
        /\ desc'["commande2"] = CASE programme = "shellPipe" -> {"0"}
                                 [] programme = "shellFifo" -> {}
                                 [] programme = "shellFifo2" -> {"p0"}
    BY <1>0, <1>1 DEF Rediriger2, Aller, TypeTubes, Processus, Enfants, ProgrammesTubes
  <2>2. TypeTubes' /\ DescPere'
    BY <1>0, <2>1 DEF TypeTubes, DescPere, Enfants, Termines, Tuyau
  <2>3. DescCommande1' /\ DescCommande2'
    BY <1>0, <2>1 DEF TypeTubes, DescPere, DescCommande1, DescCommande2, Termines, Tuyau,
                      ProgrammesTubes
  <2>4. Naissances'
    BY <1>0, <2>1 DEF TypeTubes, Naissances, Enfants, Termines
  <2>5. Rendezvous'
    BY <1>0, <2>1 DEF TypeTubes, DescPere, DescCommande1, DescCommande2, Naissances, Rendezvous,
                      Ouvert2, Enfants, Termines, Tuyau
  <2>6. QED
    BY <2>2, <2>3, <2>4, <2>5 DEF PointsTubes
<1>2. CASE OuvrirFifo2 /\ UNCHANGED nature
  <2>1. /\ DOMAIN pc' = Processus /\ desc' \in [Processus -> SUBSET {"p0", "p1", "0", "1"}]
        /\ UNCHANGED <<programme, nature, pc["pere"], pc["commande1"], desc["pere"], desc["commande1"]>>
        /\ \/ pc["commande2"] = "actif" /\ programme = "shellFifo" /\ nature # "rien"
              /\ pc'["commande2"] = "ouvrir" /\ desc'["commande2"] = {"0"}
           \/ /\ pc["commande2"] = "ouvrir" /\ pc["commande1"] \notin {"absent", "preparer"}
              /\ pc'["commande2"] = "actif" /\ UNCHANGED <<desc["commande2"]>>
    BY <1>0, <1>2 DEF OuvrirFifo2, Aller, TypeTubes, Processus, Enfants
  <2>2. TypeTubes' /\ DescPere'
    BY <1>0, <2>1 DEF TypeTubes, DescPere, Enfants, Termines, Tuyau
  <2>3. DescCommande1' /\ DescCommande2'
    BY <1>0, <2>1 DEF TypeTubes, DescPere, DescCommande1, DescCommande2, Termines, Tuyau,
                      ProgrammesTubes
  <2>4. Naissances'
    BY <1>0, <2>1 DEF TypeTubes, Naissances, Enfants, Termines
  <2>5. Rendezvous'
    BY <1>0, <2>1 DEF TypeTubes, DescPere, DescCommande1, DescCommande2, Naissances, Rendezvous,
                      Ouvert2, Enfants, Termines, Tuyau
  <2>6. QED
    BY <2>2, <2>3, <2>4, <2>5 DEF PointsTubes
<1>3. CASE FinDeFichier /\ UNCHANGED nature
  <2>1. /\ pc["commande2"] = "actif"
        /\ DOMAIN pc' = Processus /\ desc' \in [Processus -> SUBSET {"p0", "p1", "0", "1"}]
        /\ UNCHANGED <<programme, nature, pc["pere"], pc["commande1"], desc["pere"], desc["commande1"]>>
        /\ pc'["commande2"] \in Termines /\ desc'["commande2"] = {}
    BY <1>0, <1>3 DEF FinDeFichier, Pret2, Sortir, Aller, Termines, TypeTubes, Processus, Enfants
  <2>2. TypeTubes' /\ DescPere'
    BY <1>0, <2>1 DEF TypeTubes, DescPere, Enfants, Termines, Tuyau
  <2>3. DescCommande1' /\ DescCommande2'
    BY <1>0, <2>1 DEF TypeTubes, DescPere, DescCommande1, DescCommande2, Termines, Tuyau,
                      ProgrammesTubes
  <2>4. Naissances'
    BY <1>0, <2>1 DEF TypeTubes, Naissances, Enfants, Termines
  <2>5. Rendezvous'
    BY <1>0, <2>1 DEF TypeTubes, DescPere, DescCommande1, DescCommande2, Naissances, Rendezvous,
                      Ouvert2, Enfants, Termines, Tuyau
  <2>6. QED
    BY <2>2, <2>3, <2>4, <2>5 DEF PointsTubes
<1>4. CASE Exec("commande2")
  <2>1. /\ pc["commande2"] = "exec"
        /\ DOMAIN pc' = Processus /\ desc' \in [Processus -> SUBSET {"p0", "p1", "0", "1"}]
        /\ UNCHANGED <<programme, pc["pere"], pc["commande1"], desc["pere"], desc["commande1"]>>
        /\ \/ pc'["commande2"] = "actif" /\ UNCHANGED <<desc["commande2"], nature>>
           \/ pc'["commande2"] \in Termines /\ desc'["commande2"] = {} /\ nature' = "rien"
    BY <1>0, <1>4 DEF Exec, Sortir, Aller, Termines, TypeTubes, Processus, Enfants
  <2>2. TypeTubes' /\ DescPere'
    BY <1>0, <2>1 DEF TypeTubes, DescPere, Enfants, Termines, Tuyau
  <2>3. DescCommande1' /\ DescCommande2'
    BY <1>0, <2>1 DEF TypeTubes, DescPere, DescCommande1, DescCommande2, Termines, Tuyau,
                      ProgrammesTubes
  <2>4. Naissances'
    BY <1>0, <2>1 DEF TypeTubes, Naissances, Enfants, Termines
  <2>5. Rendezvous'
    BY <1>0, <2>1 DEF TypeTubes, DescPere, DescCommande1, DescCommande2, Naissances, Rendezvous,
                      Ouvert2, Enfants, Termines, Tuyau
  <2>6. QED
    BY <2>2, <2>3, <2>4, <2>5 DEF PointsTubes
<1>5. CASE Lire /\ UNCHANGED <<nature, pc, desc>>
  <2>1. /\ DOMAIN pc' = Processus /\ desc' \in [Processus -> SUBSET {"p0", "p1", "0", "1"}]
        /\ UNCHANGED <<programme, nature, pc["pere"], pc["commande1"], pc["commande2"], desc["pere"], desc["commande1"], desc["commande2"]>>
    BY <1>0, <1>5 DEF Lire, TypeTubes, Processus, Enfants
  <2>2. TypeTubes' /\ DescPere'
    BY <1>0, <2>1 DEF TypeTubes, DescPere, Enfants, Termines, Tuyau
  <2>3. DescCommande1' /\ DescCommande2'
    BY <1>0, <2>1 DEF TypeTubes, DescPere, DescCommande1, DescCommande2, Termines, Tuyau,
                      ProgrammesTubes
  <2>4. Naissances'
    BY <1>0, <2>1 DEF TypeTubes, Naissances, Enfants, Termines
  <2>5. Rendezvous'
    BY <1>0, <2>1 DEF TypeTubes, DescPere, DescCommande1, DescCommande2, Naissances, Rendezvous,
                      Ouvert2, Enfants, Termines, Tuyau
  <2>6. QED
    BY <2>2, <2>3, <2>4, <2>5 DEF PointsTubes
<1>6. CASE Abandonner /\ UNCHANGED nature
  <2>1. /\ pc["commande2"] = "actif"
        /\ DOMAIN pc' = Processus /\ desc' \in [Processus -> SUBSET {"p0", "p1", "0", "1"}]
        /\ UNCHANGED <<programme, nature, pc["pere"], pc["commande1"], desc["pere"], desc["commande1"]>>
        /\ pc'["commande2"] \in Termines /\ desc'["commande2"] = {}
    BY <1>0, <1>6 DEF Abandonner, Pret2, Sortir, Aller, Termines, TypeTubes, Processus, Enfants
  <2>2. TypeTubes' /\ DescPere'
    BY <1>0, <2>1 DEF TypeTubes, DescPere, Enfants, Termines, Tuyau
  <2>3. DescCommande1' /\ DescCommande2'
    BY <1>0, <2>1 DEF TypeTubes, DescPere, DescCommande1, DescCommande2, Termines, Tuyau,
                      ProgrammesTubes
  <2>4. Naissances'
    BY <1>0, <2>1 DEF TypeTubes, Naissances, Enfants, Termines
  <2>5. Rendezvous'
    BY <1>0, <2>1 DEF TypeTubes, DescPere, DescCommande1, DescCommande2, Naissances, Rendezvous,
                      Ouvert2, Enfants, Termines, Tuyau
  <2>6. QED
    BY <2>2, <2>3, <2>4, <2>5 DEF PointsTubes
<1>7. QED
  BY <1>1, <1>2, <1>3, <1>4, <1>5, <1>6 DEF commande2, Arret2

\* Who can read and who can write.
LEMMA Bouts ==
    ASSUME PointsTubes
    PROVE  /\ pc["commande1"] = "actif" /\ Lecteurs = {} => pc["commande2"] \in Termines
           /\ Pret2 /\ Ecrivains = {} => pc["commande1"] \in Termines
<1>0. TypeTubes /\ DescPere /\ DescCommande1 /\ DescCommande2 /\ Naissances /\ Rendezvous
  BY DEF PointsTubes
<1>1. ASSUME pc["commande1"] = "actif", Lecteurs = {} PROVE pc["commande2"] \in Termines
  <2>1. \A p \in Processus : desc[p] \cap {"p0", "0"} = {}
    BY <1>1 DEF Lecteurs
  <2>2. /\ desc["pere"] \cap {"p0", "0"} = {} /\ desc["commande2"] \cap {"p0", "0"} = {}
        /\ desc["commande1"] \cap {"p0", "0"} = {}
    BY <2>1 DEF Processus, Enfants
  <2>3. CASE pc["commande2"] = "absent"
    BY <1>0, <1>1, <2>2, <2>3
       DEF TypeTubes, DescPere, DescCommande1, DescCommande2, Naissances, Rendezvous, Ouvert2, Tuyau,
           Termines
  <2>4. CASE pc["commande2"] # "absent"
    BY <1>0, <1>1, <2>2, <2>4
       DEF TypeTubes, DescCommande1, DescCommande2, Rendezvous, Ouvert2, Tuyau, Termines, Enfants,
           ProgrammesTubes
  <2>5. QED
    BY <2>3, <2>4
<1>2. ASSUME Pret2, Ecrivains = {} PROVE pc["commande1"] \in Termines
  <2>1. \A p \in Processus : desc[p] \cap {"p1", "1"} = {}
    BY <1>2 DEF Ecrivains
  <2>2. desc["commande1"] \cap {"p1", "1"} = {}
    BY <2>1 DEF Processus, Enfants
  <2>3. pc["commande1"] # "absent"
    BY <1>0, <1>2 DEF TypeTubes, Naissances, Pret2, Termines
  <2>4. pc["commande1"] # "preparer"
    BY <1>0, <1>2, <2>2 DEF TypeTubes, DescCommande1, DescCommande2, Rendezvous, Pret2, Tuyau,
                            ProgrammesTubes
  <2>5. QED
    BY <1>0, <2>2, <2>3, <2>4 DEF TypeTubes, DescCommande1, Enfants
<1>3. QED
  BY <1>1, <1>2

LEMMA PasTubesInductif ==
    ASSUME programme \in ProgrammesTubes, InvTubes, NextTubes, UNCHANGED programme
    PROVE  InvTubes'
<1>0. PointsTubes /\ Comptes /\ Fins
  BY DEF InvTubes, PointsTubes
<1>1. PointsTubes'
  BY <1>0, PointsPere, PointsCommande1, PointsCommande2 DEF NextTubes
<1>2. CASE Ecrire /\ UNCHANGED <<nature, fifo>>
  <2>0. pc["commande1"] = "actif" /\ reste # 0 /\ "actif" \notin Termines
    BY <1>2 DEF Ecrire, Termines
  <2>1. CASE Lecteurs = {}
    <3>1. UNCHANGED <<reste, tube>> /\ pc' = [pc EXCEPT !["commande1"] = "sigpipe"]
      BY <1>2, <2>1 DEF Ecrire, Sortir, Aller
    <3>2. pc'["commande2"] = pc["commande2"] /\ pc["commande2"] \in Termines
          /\ pc'["commande1"] = "sigpipe"
      BY <1>0, <2>0, <2>1, <3>1, Bouts DEF PointsTubes, TypeTubes, Processus, Enfants
    <3>3. Comptes' /\ Fins'
      BY <1>0, <1>2, <2>0, <3>1, <3>2 DEF Comptes, Fins, Termines
    <3>4. QED
      BY <1>1, <3>3 DEF InvTubes, PointsTubes
  <2>2. CASE Lecteurs # {}
    <3>1. /\ tube < CAPACITE /\ tube' = tube + 1 /\ UNCHANGED <<pc, nature>>
          /\ reste' = IF reste = Infini THEN Infini ELSE reste - 1
      BY <1>2, <2>2 DEF Ecrire
    <3>2. Comptes'
      BY <1>0, <2>0, <3>1, TubesAssumption DEF Comptes, Infini
    <3>3. Fins'
      BY <1>0, <2>0, <3>1 DEF Fins, Termines
    <3>4. QED
      BY <1>1, <3>2, <3>3 DEF InvTubes, PointsTubes
  <2>3. QED
    BY <2>1, <2>2
<1>3. CASE Lire /\ UNCHANGED <<nature, pc, desc, reste, fifo>>
  <2>1. /\ tube > 0 /\ tube' = tube - 1 /\ UNCHANGED <<nature, pc, reste>>
        /\ pc["commande2"] = "actif"
    BY <1>3 DEF Lire, Pret2
  <2>2. Comptes' /\ Fins'
    BY <1>0, <2>1, TubesAssumption DEF Comptes, Fins, Termines
  <2>3. QED
    BY <1>1, <2>2 DEF InvTubes, PointsTubes
<1>4. CASE FinDeFichier /\ UNCHANGED <<nature, reste, tube, fifo>>
  <2>1. /\ pc["commande1"] \in Termines /\ tube = 0 /\ pc' = [pc EXCEPT !["commande2"] = "sorti"]
        /\ UNCHANGED <<nature, reste, tube>>
    BY <1>0, <1>4, Bouts DEF FinDeFichier, Sortir, Aller
  <2>2. pc'["commande1"] = pc["commande1"] /\ pc'["commande2"] \in Termines
    BY <1>0, <2>1 DEF PointsTubes, TypeTubes, Processus, Enfants, Termines
  <2>3. Comptes' /\ Fins'
    BY <1>0, <2>1, <2>2 DEF Comptes, Fins
  <2>4. QED
    BY <1>1, <2>3 DEF InvTubes, PointsTubes
<1>5. CASE Exec("commande2") /\ UNCHANGED <<reste, tube, fifo>>
  <2>1. /\ pc'["commande1"] = pc["commande1"] /\ pc["commande2"] = "exec"
        /\ \/ pc'["commande2"] = "actif" /\ UNCHANGED nature
           \/ pc'["commande2"] = "sorti" /\ nature' = "rien"
    BY <1>0, <1>5 DEF Exec, Sortir, Aller, PointsTubes, TypeTubes, Processus, Enfants
  <2>2. Comptes' /\ Fins'
    BY <1>0, <1>5, <2>1 DEF Comptes, Fins, Termines
  <2>3. QED
    BY <1>1, <2>2 DEF InvTubes, PointsTubes
<1>6. CASE Abandonner /\ UNCHANGED <<nature, reste, tube, fifo>>
  <2>1. /\ pc'["commande1"] = pc["commande1"] /\ nature # "tout" /\ pc'["commande2"] = "sorti"
        /\ UNCHANGED <<nature, reste, tube>>
    BY <1>0, <1>6 DEF Abandonner, Pret2, Sortir, Aller, PointsTubes, TypeTubes, Processus, Enfants
  <2>2. Comptes' /\ Fins'
    BY <1>0, <2>1 DEF Comptes, Fins, Termines
  <2>3. QED
    BY <1>1, <2>2 DEF InvTubes, PointsTubes
<1>7. CASE \/ pere
           \/ (Rediriger1 \/ OuvrirFifo1 \/ Finir1) /\ UNCHANGED <<nature, reste, tube, fifo>>
           \/ Exec("commande1") /\ UNCHANGED <<reste, tube, fifo>>
           \/ (Rediriger2 \/ OuvrirFifo2) /\ UNCHANGED <<nature, reste, tube, fifo>>
  <2>1. UNCHANGED <<nature, reste, tube>>
    BY <1>7 DEF pere, Exec
  <2>2. /\ pc["commande1"] \in Termines => pc'["commande1"] = pc["commande1"]
        /\ pc["commande2"] \in Termines => pc'["commande2"] = pc["commande2"]
        /\ pc'["commande1"] = "sigpipe" => pc["commande1"] = "sigpipe"
        /\ pc'["commande2"] \in Termines => pc["commande2"] \in Termines
    <3>1. CASE pere
      BY <1>0, <3>1
         DEF pere, Creer, Fork1, Fork2, Fork, Fermer, Attendre, Supprimer, Aller, PointsTubes,
             TypeTubes, Naissances, Processus, Enfants, Termines
    <3>2. CASE Rediriger1 \/ OuvrirFifo1 \/ Finir1 \/ Exec("commande1")
      BY <1>0, <3>2
         DEF Rediriger1, OuvrirFifo1, Finir1, Exec, Sortir, Aller, PointsTubes, TypeTubes,
             Processus, Enfants, Termines
    <3>3. CASE Rediriger2 \/ OuvrirFifo2
      BY <1>0, <3>3
         DEF Rediriger2, OuvrirFifo2, Aller, PointsTubes, TypeTubes, Processus, Enfants, Termines
    <3>4. QED
      BY <1>7, <3>1, <3>2, <3>3
  <2>3. Comptes' /\ Fins'
    BY <1>0, <2>1, <2>2 DEF Comptes, Fins
  <2>4. QED
    BY <1>1, <2>3 DEF InvTubes, PointsTubes
<1>8. QED
  BY <1>2, <1>3, <1>4, <1>5, <1>6, <1>7 DEF NextTubes, commande1, commande2, Arret2

LEMMA TubesInductif ==
    ASSUME InvTubes, [Next]_vars
    PROVE  InvTubes'
<1>1. CASE UNCHANGED <<programme, varsTubes>>
  <2>1. UNCHANGED <<programme, nature, pc, desc, reste, tube, fifo>>
    BY <1>1 DEF varsTubes
  <2>2. Tuyau' = Tuyau /\ Ouvert2' = Ouvert2
    BY <2>1 DEF Tuyau, Ouvert2
  <2>3. CASE programme \notin ProgrammesTubes
    BY <2>1, <2>3 DEF InvTubes, ReposTubes
  <2>4. CASE programme \in ProgrammesTubes
    <3>1. (TypeTubes /\ Comptes)'
      BY <2>1, <2>4 DEF InvTubes, TypeTubes, Comptes
    <3>2. (DescPere /\ DescCommande1)'
      BY <2>1, <2>2, <2>4 DEF InvTubes, DescPere, DescCommande1
    <3>3. DescCommande2'
      BY <2>1, <2>2, <2>4 DEF InvTubes, DescCommande2
    <3>4. (Naissances /\ Rendezvous /\ Fins)'
      BY <2>1, <2>2, <2>4 DEF InvTubes, Naissances, Rendezvous, Fins
    <3>5. QED
      BY <2>1, <2>4, <3>1, <3>2, <3>3, <3>4 DEF InvTubes
  <2>5. QED
    BY <2>3, <2>4
<1>2. CASE programme \in ProgrammesTubes /\ NextTubes /\ UNCHANGED programme
  BY <1>2, PasTubesInductif
<1>3. QED
  BY <1>1, <1>2, PasTubes

LEMMA TubesInvariant == Spec => []InvTubes
BY TubesInitial, TubesInductif, PTL DEF Spec

\* A second command that reads to the end has read all that the first wrote, and
\* SIGPIPE only comes when the second has ended, whatever the sizes.
THEOREM ToutLuTubes == Spec => []ToutLu
<1>1. InvTubes => ToutLu
  <2>1. CASE programme \notin ProgrammesTubes /\ InvTubes
    <3>1. /\ pc["pere"] = "fini" /\ pc["commande1"] = "absent" /\ pc["commande2"] = "absent"
          /\ desc \in [Processus -> SUBSET {"p0", "p1", "0", "1"}] /\ reste = 0 /\ tube = 0
      BY <2>1 DEF InvTubes, ReposTubes, Processus, Enfants
    <3>2. reste \in 0 .. MAXECRIT \cup {Infini} /\ tube \in 0 .. CAPACITE
      BY <3>1, TubesAssumption
    <3>3. QED
      BY <3>1, <3>2 DEF ToutLu, TypeOKTubes, Enfants, Termines
  <2>2. CASE programme \in ProgrammesTubes /\ InvTubes
    BY <2>2 DEF InvTubes, TypeTubes, Comptes, Fins, ToutLu, TypeOKTubes
  <2>3. QED
    BY <2>1, <2>2
<1>2. QED
  BY <1>1, TubesInvariant, PTL

-----------------------------------------------------------------------------
\* The tail.  As long as a file has not been truncated: what has been printed of
\* it stops at the recorded size, and so does the offset with inotify.

TypeTail ==
    /\ programme \in ProgrammesTail
    /\ point \in {"surveiller", "ouvrir", "premier", "attendre", "mesurer", "afficher"}
    /\ point \in {"surveiller", "premier", "attendre"} => Inotify
    /\ num \in 1 .. Nombre /\ surveilles \subseteq 1 .. Nombre
    /\ notif \in Seq(surveilles)
    /\ fichier \in [Tous -> Seq(Int)] /\ ecrits \in 0 .. MAXAJOUTS
    /\ \A f \in Tous : Len(fichier[f]) <= 1 + ecrits
    /\ taille \in [Tous -> Nat] /\ depart \in [Tous -> Nat]
    /\ DOMAIN position = Tous /\ DOMAIN affiche = Tous
    /\ st_size \in 0 .. MAXAJOUTS + 1

EnCours(f) == point = "premier" /\ num = f

FichierExact(f) ==
    /\ depart[f] <= taille[f] /\ taille[f] <= Len(fichier[f])
    /\ Inotify => depart[f] = 0
    /\ IF EnCours(f) THEN Inotify /\ st_size = taille[f]
       ELSE /\ affiche[f] = SubSeq(fichier[f], depart[f] + 1, taille[f])
            /\ Inotify => position[f] = taille[f]
    /\ point = "afficher" /\ num = f => taille[f] < st_size /\ st_size <= Len(fichier[f])
    /\ point = "ouvrir" /\ ~Inotify /\ f >= num => affiche[f] = <<>>

InvTail ==
    IF programme \in ProgrammesTail
    THEN TypeTail /\ \A f \in (1 .. Nombre) \ tronques : FichierExact(f)
    ELSE ReposTail

\* What the program reads and prints, as parts of the content.
LEMMA SousSuite ==
    ASSUME NEW s \in Seq(Int), NEW a \in Nat, NEW b \in 0 .. Len(s)
    PROVE  /\ SubSeq(s, a + 1, b) \in Seq(Int)
           /\ Len(SubSeq(s, a + 1, b)) = IF a <= b THEN b - a ELSE 0
           /\ \A i \in 1 .. b - a : SubSeq(s, a + 1, b)[i] = s[a + i]
<1>1. \A i \in a + 1 .. b : s[i] \in Int
  BY ElementOfSeq
<1>2. a + 1 \in Int /\ b \in Int
  OBVIOUS
<1>3. /\ SubSeq(s, a + 1, b) \in Seq(Int)
      /\ Len(SubSeq(s, a + 1, b)) = IF a + 1 <= b THEN b - (a + 1) + 1 ELSE 0
      /\ \A i \in 1 .. b - (a + 1) + 1 : SubSeq(s, a + 1, b)[i] = s[(a + 1) + i - 1]
  BY <1>1, <1>2, SubSeqProperties
<1>4. (a + 1 <= b <=> a <= b /\ a # b) /\ b - (a + 1) + 1 = b - a /\ (a = b => b - a = 0)
  OBVIOUS
<1>5. Len(SubSeq(s, a + 1, b)) = IF a <= b THEN b - a ELSE 0
  BY <1>3, <1>4
<1>6. ASSUME NEW i \in 1 .. b - a PROVE SubSeq(s, a + 1, b)[i] = s[a + i]
  <2>1. (a + 1) + i - 1 = a + i /\ i \in 1 .. b - (a + 1) + 1
    OBVIOUS
  <2>2. QED
    BY <1>3, <2>1
<1>7. QED
  BY <1>3, <1>5, <1>6

LEMMA SousSuiteVide ==
    ASSUME NEW s, NEW n \in Int
    PROVE  SubSeq(s, n + 1, n) = <<>>
BY SubSeqEmpty

\* What is appended does not change what was there.
LEMMA SousSuiteAjout ==
    ASSUME NEW s \in Seq(Int), NEW e \in Int, NEW a \in Nat, NEW b \in 0 .. Len(s)
    PROVE  SubSeq(Append(s, e), a + 1, b) = SubSeq(s, a + 1, b)
<1> DEFINE t == Append(s, e)
<1>1. t \in Seq(Int) /\ Len(t) = Len(s) + 1 /\ \A i \in 1 .. Len(s) : t[i] = s[i]
  BY AppendProperties
<1> HIDE DEF t
<1>2. b \in 0 .. Len(t)
  BY <1>1
<1>3. ASSUME NEW i \in 1 .. b - a PROVE s[a + i] = t[a + i]
  <2>1. a + i \in 1 .. Len(s)
    OBVIOUS
  <2>2. QED
    BY <1>1, <2>1
<1>4. /\ SubSeq(s, a + 1, b) \in Seq(Int) /\ SubSeq(t, a + 1, b) \in Seq(Int)
      /\ Len(SubSeq(t, a + 1, b)) = Len(SubSeq(s, a + 1, b))
  BY <1>1, <1>2, SousSuite
<1>5. \A i \in 1 .. Len(SubSeq(s, a + 1, b)) : SubSeq(t, a + 1, b)[i] = SubSeq(s, a + 1, b)[i]
  BY <1>1, <1>2, <1>3, SousSuite
<1>6. SubSeq(t, a + 1, b) = SubSeq(s, a + 1, b)
  BY <1>4, <1>5, SeqEqual
<1>7. QED
  BY <1>6 DEF t

LEMMA SousSuiteSuite ==
    ASSUME NEW s \in Seq(Int), NEW a \in Nat, NEW b \in Nat, NEW c \in Nat,
           a <= b, b <= c, c <= Len(s)
    PROVE  SubSeq(s, a + 1, b) \o SubSeq(s, b + 1, c) = SubSeq(s, a + 1, c)
<1>1. a + 1 \in 1 .. Len(s) + 1 /\ b \in (a + 1) - 1 .. Len(s) /\ c \in b .. Len(s)
  OBVIOUS
<1>2. QED
  BY <1>1, ConcatAdjacentSubSeq

LEMMA MinDeux ==
    ASSUME NEW a \in Int, NEW b \in Int
    PROVE  Min({a, b}) = IF a <= b THEN a ELSE b
BY DEF Min

\* A read that finds all it asks for fills the buffer.
LEMMA LectureExacte ==
    ASSUME NEW f \in Tous, NEW p \in Nat, NEW n \in Nat, fichier[f] \in Seq(Int),
           p + n <= Len(fichier[f])
    PROVE  /\ Lu(f, p, n) = SubSeq(fichier[f], p + 1, p + n)
           /\ Len(Lu(f, p, n)) = n
           /\ Tampon(Lu(f, p, n), n) = Lu(f, p, n)
<1>1. Min({p + n, Len(fichier[f])}) = p + n
  BY MinDeux
<1>2. Lu(f, p, n) = SubSeq(fichier[f], p + 1, p + n)
  BY <1>1 DEF Lu
<1>3. p + n \in 0 .. Len(fichier[f])
  OBVIOUS
<1>4. Lu(f, p, n) \in Seq(Int) /\ Len(Lu(f, p, n)) = n
  BY <1>2, <1>3, SousSuite
<1>5. ASSUME NEW k \in Int, k = 0 PROVE [b \in 1 .. k |-> "indetermine"] = <<>>
  BY <1>5
<1>6. [b \in 1 .. n - Len(Lu(f, p, n)) |-> "indetermine"] = <<>>
  BY <1>4, <1>5
<1>7. QED
  BY <1>2, <1>4, <1>6, ConcatEmptySeq DEF Tampon

LEMMA NombreFichiers ==
    Nombre \in Nat /\ Nombre >= 1 /\ 1 .. Nombre \subseteq Tous
BY MiniTailAssumption DEF Nombre, Tous

LEMMA TailInitial ==
    ASSUME Init
    PROVE  InvTail
<1>1. CASE programme \notin ProgrammesTail
  BY <1>1 DEF Init, InvTail
<1>2. CASE programme \in ProgrammesTail
  <2>1. InitTail /\ InitVide
    BY <1>2 DEF Init, InitTail
  <2>2. \A f \in Tous : fichier[f] \in {<<>>, <<0>>}
    BY <2>1 DEF InitTail
  <2>3. \A f \in Tous : fichier[f] \in Seq(Int) /\ Len(fichier[f]) \in 0 .. 1
    <3>1. <<>> \in Seq(Int) /\ Len(<<>>) = 0
      OBVIOUS
    <3>2. <<0>> \in Seq(Int) /\ Len(<<0>>) = 1
      OBVIOUS
    <3>3. QED
      <4>1. ASSUME NEW f \in Tous PROVE fichier[f] \in Seq(Int) /\ Len(fichier[f]) \in 0 .. 1
        <5>1. CASE fichier[f] = <<>>
          BY <3>1, <5>1
        <5>2. CASE fichier[f] = <<0>>
          BY <3>2, <5>2
        <5>3. QED
          BY <2>2, <5>1, <5>2
      <4>2. QED
        BY <4>1
  <2>4. TypeTail
    <3>1. fichier \in [Tous -> Seq(Int)]
      BY <2>1, <2>3 DEF InitTail
    <3>2. notif \in Seq(surveilles)
      BY <2>1 DEF InitVide
    <3>3. QED
      <4>1. /\ programme \in ProgrammesTail /\ point = (IF Inotify THEN "surveiller" ELSE "ouvrir")
            /\ num = 1 /\ surveilles = {} /\ ecrits = 0 /\ st_size = 0
        BY <2>1 DEF InitTail, InitVide
      <4>2. /\ taille = [f \in Tous |-> 0] /\ position = taille /\ depart = taille
            /\ affiche = [f \in Tous |-> <<>>]
        BY <2>1 DEF InitVide
      <4>3. num \in 1 .. Nombre /\ surveilles \subseteq 1 .. Nombre
        BY <4>1, NombreFichiers
      <4>4. /\ taille \in [Tous -> Nat] /\ depart \in [Tous -> Nat]
            /\ DOMAIN position = Tous /\ DOMAIN affiche = Tous
        BY <4>2
      <4>5. ecrits \in 0 .. MAXAJOUTS /\ st_size \in 0 .. MAXAJOUTS + 1
        BY <4>1, MiniTailAssumption
      <4>6. \A f \in Tous : Len(fichier[f]) <= 1 + ecrits
        <5>1. ASSUME NEW f \in Tous PROVE Len(fichier[f]) <= 1 + ecrits
          <6>1. PICK n \in 0 .. 1 : Len(fichier[f]) = n
            BY <2>3
          <6>2. ecrits = 0
            BY <4>1
          <6>3. n <= 1 + 0
            OBVIOUS
          <6>4. QED
            BY <6>1, <6>2, <6>3
        <5>2. QED
          BY <5>1
      <4>7. QED
        BY <3>1, <3>2, <4>1, <4>3, <4>4, <4>5, <4>6 DEF TypeTail
  <2>5. ASSUME NEW f \in (1 .. Nombre) \ tronques
        PROVE  FichierExact(f)
    <3>1. f \in Tous /\ SubSeq(fichier[f], 0 + 1, 0) = <<>>
      BY NombreFichiers, SousSuiteVide
    <3>2. QED
      BY <2>1, <2>3, <3>1 DEF InitTail, InitVide, FichierExact, EnCours
  <2>6. QED
    BY <1>2, <2>4, <2>5 DEF InvTail
<1>3. QED
  BY <1>1, <1>2

LEMMA EvenementsTail ==
    ASSUME TypeTail, NEW f \in 1 .. Nombre, Notifier(f), UNCHANGED surveilles
    PROVE  notif' \in Seq(surveilles')
BY DEF TypeTail, Notifier

LEMMA EcrivainInductif ==
    ASSUME programme \in ProgrammesTail, InvTail, ecrivain, UNCHANGED programme
    PROVE  InvTail'
<1>0. TypeTail /\ \A f \in (1 .. Nombre) \ tronques : FichierExact(f)
  BY DEF InvTail
<1>1. Nombre' = Nombre /\ Inotify' = Inotify
  BY DEF Nombre, Inotify
<1>2. PICK f \in 1 .. Nombre : Ajouter(f) \/ Tronquer(f)
  BY DEF ecrivain
<1>3. /\ UNCHANGED <<surveilles, point, num, taille, position, st_size, depart, affiche>>
      /\ notif' \in Seq(surveilles')
  BY <1>0, <1>2, EvenementsTail DEF Ajouter, Tronquer, inchange
<1>4. f \in Tous /\ fichier[f] \in Seq(Int)
  BY <1>0, NombreFichiers DEF TypeTail
<1>5. CASE Ajouter(f)
  <2>1. /\ ecrits' = ecrits + 1 /\ ecrits < MAXAJOUTS /\ ecrits \in Nat
        /\ tronques' = tronques
        /\ fichier' = [fichier EXCEPT ![f] = Append(@, ecrits + 1)]
    BY <1>0, <1>5, MiniTailAssumption DEF Ajouter, TypeTail
  <2>2. /\ fichier'[f] = Append(fichier[f], ecrits + 1)
        /\ \A g \in Tous \ {f} : fichier'[g] = fichier[g]
    BY <1>0, <1>4, <2>1 DEF TypeTail
  <2>3. /\ Append(fichier[f], ecrits + 1) \in Seq(Int)
        /\ Len(Append(fichier[f], ecrits + 1)) = Len(fichier[f]) + 1
    BY <1>4, <2>1, AppendProperties
  <2>4. TypeTail'
    <3>1. fichier' \in [Tous -> Seq(Int)]
      BY <1>0, <2>1, <2>3 DEF TypeTail
    <3>2. \A g \in Tous : Len(fichier[g]) \in Nat /\ Len(fichier[g]) <= 1 + ecrits
      BY <1>0 DEF TypeTail
    <3>3. \A g \in Tous : Len(fichier'[g]) <= 1 + ecrits'
      BY <1>4, <2>1, <2>2, <2>3, <3>2
    <3>4. ecrits' \in 0 .. MAXAJOUTS
      BY <2>1, MiniTailAssumption
    <3>5. QED
      BY <1>0, <1>1, <1>3, <3>1, <3>3, <3>4 DEF TypeTail
  <2>5. ASSUME NEW g \in (1 .. Nombre) \ tronques
        PROVE  FichierExact(g)'
    <3>1. g \in Tous /\ FichierExact(g)
      BY <1>0, NombreFichiers
    <3>2. fichier[g] \in Seq(Int) /\ taille[g] \in Nat /\ depart[g] \in Nat /\ Len(fichier[g]) \in Nat
      BY <1>0, <3>1 DEF TypeTail
    <3>3. Len(fichier'[g]) \in Nat /\ Len(fichier'[g]) >= Len(fichier[g])
      <4>1. CASE g = f
        <5>1. Len(fichier'[f]) = Len(fichier[f]) + 1 /\ Len(fichier[f]) \in Nat
          BY <2>2, <2>3, <3>2, <4>1
        <5>2. QED
          BY <4>1, <5>1
      <4>2. CASE g # f
        BY <2>2, <3>1, <3>2, <4>2
      <4>3. QED
        BY <4>1, <4>2
    <3>4. taille[g] \in 0 .. Len(fichier[g])
      BY <3>1, <3>2 DEF FichierExact
    <3>5. SubSeq(fichier'[g], depart[g] + 1, taille[g]) = SubSeq(fichier[g], depart[g] + 1, taille[g])
      <4>1. CASE g = f
        <5>1. fichier'[g] = Append(fichier[g], ecrits + 1) /\ ecrits + 1 \in Int
          BY <2>1, <2>2, <4>1
        <5>2. SubSeq(Append(fichier[g], ecrits + 1), depart[g] + 1, taille[g])
                  = SubSeq(fichier[g], depart[g] + 1, taille[g])
          BY <3>2, <3>4, <5>1, SousSuiteAjout
        <5>3. QED
          BY <5>1, <5>2
      <4>2. CASE g # f
        BY <2>2, <3>1, <4>2
      <4>3. QED
        BY <4>1, <4>2
    <3>6. st_size \in Nat
      BY <1>0 DEF TypeTail
    <3>7. QED
      <4>1. EnCours(g)' = EnCours(g)
        BY <1>3 DEF EnCours
      <4>2. /\ depart'[g] = depart[g] /\ taille'[g] = taille[g] /\ affiche'[g] = affiche[g]
            /\ position'[g] = position[g] /\ st_size' = st_size /\ point' = point /\ num' = num
        BY <1>3
      <4>3. taille[g] <= Len(fichier'[g]) /\ (st_size <= Len(fichier[g]) => st_size <= Len(fichier'[g]))
        <5>1. taille[g] <= Len(fichier[g])
          BY <3>1 DEF FichierExact
        <5>2. QED
          BY <3>2, <3>3, <3>6, <5>1
      <4>4. QED
        BY <1>1, <3>1, <3>5, <4>1, <4>2, <4>3 DEF FichierExact
  <2>6. QED
    BY <1>1, <2>1, <2>4, <2>5 DEF InvTail
<1>6. CASE Tronquer(f)
  <2>1. PICK n \in 0 .. Len(fichier[f]) - 1 : fichier' = [fichier EXCEPT ![f] = SubSeq(@, 1, n)]
    BY <1>6 DEF Tronquer
  <2>2. tronques' = tronques \cup {f} /\ ecrits' = ecrits
    BY <1>6 DEF Tronquer
  <2>3. n \in 0 .. Len(fichier[f]) /\ Len(fichier[f]) \in Nat
    BY <1>4, <2>1
  <2>4. SubSeq(fichier[f], 1, n) \in Seq(Int) /\ Len(SubSeq(fichier[f], 1, n)) = n
    <3>1. /\ SubSeq(fichier[f], 0 + 1, n) \in Seq(Int)
          /\ Len(SubSeq(fichier[f], 0 + 1, n)) = IF 0 <= n THEN n - 0 ELSE 0
      BY <1>4, <2>3, SousSuite
    <3>2. 0 + 1 = 1
      OBVIOUS
    <3>3. QED
      BY <2>3, <3>1, <3>2
  <2>5. TypeTail'
    <3>1. fichier' \in [Tous -> Seq(Int)]
      BY <1>0, <2>1, <2>4 DEF TypeTail
    <3>2. ASSUME NEW g \in Tous
          PROVE  Len(fichier'[g]) <= 1 + ecrits'
      <4>0. /\ Len(fichier[g]) <= 1 + ecrits /\ Len(fichier[f]) <= 1 + ecrits
            /\ ecrits \in Nat /\ ecrits' = ecrits
        <5>1. Len(fichier[g]) <= 1 + ecrits /\ Len(fichier[f]) <= 1 + ecrits
          BY <1>0, <1>4 DEF TypeTail
        <5>2. ecrits \in Nat
          BY <1>0, MiniTailAssumption DEF TypeTail
        <5>3. QED
          BY <2>2, <5>1, <5>2
      <4>1. CASE g = f
        <5>1. Len(fichier'[g]) = n
          BY <1>0, <2>1, <2>4, <4>1 DEF TypeTail
        <5>2. n <= Len(fichier[f]) /\ n \in Nat
          BY <2>3
        <5>3. QED
          BY <2>3, <4>0, <5>1, <5>2
      <4>2. CASE g # f
        <5>1. fichier'[g] = fichier[g]
          BY <1>0, <2>1, <4>2 DEF TypeTail
        <5>2. QED
          BY <4>0, <5>1
      <4>3. QED
        BY <4>1, <4>2
    <3>3. QED
      BY <1>0, <1>1, <1>3, <2>2, <3>1, <3>2 DEF TypeTail
  <2>6. ASSUME NEW g \in (1 .. Nombre) \ tronques'
        PROVE  FichierExact(g)'
    <3>1. g \in Tous /\ g # f /\ FichierExact(g) /\ fichier'[g] = fichier[g]
      BY <1>0, <2>1, <2>2, NombreFichiers DEF TypeTail
    <3>2. QED
      BY <1>1, <1>3, <3>1 DEF FichierExact, EnCours
  <2>7. QED
    BY <1>1, <2>5, <2>6 DEF InvTail
<1>7. QED
  BY <1>2, <1>5, <1>6

\* Where the program goes after a file.
LEMMA PointSuivant ==
    ASSUME TypeTail, Suivant
    PROVE  /\ num' \in 1 .. Nombre /\ point' \in {"attendre", "mesurer"}
           /\ point' = "attendre" => Inotify
BY NombreFichiers DEF TypeTail, Suivant

LEMMA PointPrepare ==
    ASSUME TypeTail, PreparerSuivant
    PROVE  /\ num' \in 1 .. Nombre /\ point' \in {"surveiller", "ouvrir", "attendre", "mesurer"}
           /\ point' \in {"surveiller", "attendre"} => Inotify
           /\ point' = "ouvrir" => num' = num + 1 /\ ~Inotify
BY NombreFichiers DEF TypeTail, PreparerSuivant

\* The notifications are those of the watched files.
LEMMA TypeEvenement ==
    ASSUME TypeTail, AttendreEvenement
    PROVE  /\ num' \in 1 .. Nombre /\ notif' \in Seq(surveilles)
<1>1. notif \in Seq(surveilles) /\ notif # <<>> /\ num' = Head(notif) /\ notif' = Tail(notif)
  BY DEF TypeTail, AttendreEvenement
<1>2. Head(notif) \in surveilles /\ Tail(notif) \in Seq(surveilles)
  BY <1>1, HeadTailProperties
<1>3. QED
  BY <1>1, <1>2 DEF TypeTail

\* Every step of the program leaves the records well formed.
LEMMA TypeTailInductif ==
    ASSUME TypeTail, tail, UNCHANGED programme
    PROVE  TypeTail'
<1>1. Nombre' = Nombre /\ Inotify' = Inotify /\ programme' = programme
  BY DEF Nombre, Inotify
<1>2. num \in Tous /\ 1 .. Nombre \subseteq Tous
  BY NombreFichiers DEF TypeTail
<1>3. Len(fichier[num]) \in 0 .. MAXAJOUTS + 1
  <2>1. fichier[num] \in Seq(Int) /\ ecrits \in 0 .. MAXAJOUTS
    BY <1>2 DEF TypeTail
  <2>2. Len(fichier[num]) \in Nat /\ Len(fichier[num]) <= 1 + ecrits
    BY <1>2, <2>1 DEF TypeTail
  <2>3. QED
    BY <2>1, <2>2, MiniTailAssumption
<1>4. CASE Surveiller
  <2>1. notif' \in Seq(surveilles')
    <3>1. notif \in Seq(surveilles) /\ surveilles \subseteq surveilles' /\ notif' = notif
      BY <1>4 DEF TypeTail, Surveiller, varsFichiers
    <3>2. QED
      BY <3>1, SeqMonotonic
  <2>2. surveilles' \subseteq 1 .. Nombre
    BY <1>4 DEF TypeTail, Surveiller
  <2>3. QED
    BY <1>1, <1>4, <2>1, <2>2 DEF TypeTail, Surveiller, varsFichiers
<1>5. CASE Ouvrir
  <2>1. /\ UNCHANGED <<varsFichiers, surveilles, position, affiche>>
        /\ st_size' = Len(fichier[num]) /\ taille' = [taille EXCEPT ![num] = Len(fichier[num])]
    BY <1>5 DEF Ouvrir
  <2>2. /\ num' \in 1 .. Nombre
        /\ point' \in {"surveiller", "premier", "ouvrir", "attendre", "mesurer"}
        /\ point' \in {"surveiller", "premier", "attendre"} => Inotify
    BY <1>5, PointPrepare DEF Ouvrir, TypeTail
  <2>3. taille' \in [Tous -> Nat]
    BY <1>2, <1>3, <2>1 DEF TypeTail
  <2>4. depart' \in [Tous -> Nat]
    BY <1>2, <1>3, <1>5 DEF TypeTail, Ouvrir
  <2>5. QED
    BY <1>1, <1>3, <2>1, <2>2, <2>3, <2>4 DEF TypeTail, varsFichiers
<1>6. CASE AfficherTout
  <2>1. /\ UNCHANGED <<varsFichiers, surveilles, taille, st_size, depart>> /\ PreparerSuivant
        /\ DOMAIN affiche' = Tous /\ DOMAIN position' = Tous
    BY <1>6 DEF AfficherTout, TypeTail
  <2>2. QED
    BY <1>1, <2>1, PointPrepare DEF TypeTail, varsFichiers
<1>7. CASE AttendreEvenement
  <2>1. /\ UNCHANGED <<fichier, ecrits, tronques, surveilles, taille, position, st_size, depart, affiche>>
        /\ point' = "mesurer"
    BY <1>7 DEF AttendreEvenement
  <2>2. QED
    BY <1>1, <1>7, <2>1, TypeEvenement DEF TypeTail
<1>8. CASE Mesurer
  <2>1. /\ UNCHANGED <<varsFichiers, surveilles, taille, position, depart, affiche>>
        /\ st_size' = Len(fichier[num])
        /\ Suivant \/ (point' = "afficher" /\ num' = num)
    BY <1>8 DEF Mesurer
  <2>2. /\ num' \in 1 .. Nombre /\ point' \in {"attendre", "mesurer", "afficher"}
        /\ point' = "attendre" => Inotify
    BY <2>1, PointSuivant DEF TypeTail
  <2>3. QED
    BY <1>1, <1>3, <2>1, <2>2 DEF TypeTail, varsFichiers
<1>9. CASE AfficherChangement
  <2>1. /\ UNCHANGED <<varsFichiers, surveilles, st_size, depart>> /\ Suivant
        /\ taille' = [taille EXCEPT ![num] = st_size]
        /\ DOMAIN affiche' = Tous /\ DOMAIN position' = Tous
    BY <1>9 DEF AfficherChangement, TypeTail
  <2>2. taille' \in [Tous -> Nat]
    BY <1>2, <2>1 DEF TypeTail
  <2>3. QED
    BY <1>1, <2>1, <2>2, PointSuivant DEF TypeTail, varsFichiers
<1>10. QED
  BY <1>4, <1>5, <1>6, <1>7, <1>8, <1>9 DEF tail

\* Nor does it print anything else of a file than what it should.
LEMMA FichierExactInductif ==
    ASSUME TypeTail, tail, UNCHANGED programme, NEW g \in 1 .. Nombre, FichierExact(g)
    PROVE  FichierExact(g)'
<1>1. Inotify' = Inotify
  BY DEF Inotify
<1>2. num \in Tous /\ g \in Tous
  BY NombreFichiers DEF TypeTail
<1>3. /\ fichier[g] \in Seq(Int) /\ Len(fichier[g]) \in Nat /\ st_size \in Nat
      /\ taille[g] \in Nat /\ depart[g] \in Nat
  BY <1>2 DEF TypeTail
<1>4. CASE Surveiller
  <2>1. /\ UNCHANGED <<fichier, taille, position, st_size, depart, affiche, num>>
        /\ point = "surveiller" /\ point' = "ouvrir" /\ Inotify
    BY <1>4 DEF Surveiller, varsFichiers, TypeTail
  <2>2. QED
    BY <1>1, <2>1 DEF FichierExact, EnCours
<1>5. CASE Ouvrir
  <2>1. /\ UNCHANGED <<fichier, position, affiche>> /\ point = "ouvrir"
        /\ st_size' = Len(fichier[num]) /\ taille' = [taille EXCEPT ![num] = Len(fichier[num])]
    BY <1>5 DEF Ouvrir, varsFichiers
  <2>2. /\ point' # "afficher" /\ (point' = "premier" => Inotify /\ num' = num)
        /\ (point' = "ouvrir" => num' = num + 1 /\ ~Inotify)
    BY <1>5, PointPrepare DEF Ouvrir
  <2>3. CASE g # num
    <3>1. taille'[g] = taille[g] /\ depart'[g] = depart[g]
      BY <1>2, <1>5, <2>1, <2>3 DEF Ouvrir, TypeTail
    <3>2. ~EnCours(g) /\ ~EnCours(g)'
      BY <2>1, <2>2, <2>3 DEF EnCours
    <3>3. point' = "ouvrir" /\ g >= num' => g >= num
      BY <2>2 DEF TypeTail
    <3>4. QED
      BY <1>1, <2>1, <2>2, <3>1, <3>2, <3>3 DEF FichierExact
  <2>4. CASE g = num
    <3>1. taille'[g] = Len(fichier[g])
      BY <1>2, <2>1, <2>4 DEF TypeTail
    <3>2. CASE Inotify
      <4>1. depart' = depart /\ point' = "premier" /\ num' = num
        BY <1>5, <3>2 DEF Ouvrir
      <4>2. depart[g] = 0 /\ EnCours(g)'
        BY <2>4, <3>2, <4>1 DEF FichierExact, EnCours
      <4>3. QED
        BY <1>1, <1>3, <2>1, <2>4, <3>1, <3>2, <4>1, <4>2 DEF FichierExact
    <3>3. CASE ~Inotify
      <4>1. depart'[g] = Len(fichier[g])
        BY <1>2, <1>5, <2>4, <3>3 DEF Ouvrir, TypeTail
      <4>2. affiche'[g] = <<>>
        BY <2>1, <2>4, <3>3 DEF FichierExact, TypeTail
      <4>3. ~EnCours(g)'
        BY <2>2, <3>3 DEF EnCours
      <4>4. SubSeq(fichier[g], Len(fichier[g]) + 1, Len(fichier[g])) = <<>>
        BY <1>3, SousSuiteVide
      <4>5. QED
        <5>1. affiche'[g] = SubSeq(fichier'[g], depart'[g] + 1, taille'[g])
          BY <2>1, <3>1, <4>1, <4>2, <4>4
        <5>2. depart'[g] <= taille'[g] /\ taille'[g] <= Len(fichier'[g])
          BY <1>3, <2>1, <3>1, <4>1
        <5>3. QED
          BY <1>1, <2>2, <3>3, <4>2, <4>3, <5>1, <5>2 DEF FichierExact
    <3>4. QED
      BY <3>2, <3>3
  <2>5. QED
    BY <2>3, <2>4
<1>6. CASE AfficherTout
  <2>1. /\ UNCHANGED <<fichier, taille, st_size, depart>> /\ point = "premier" /\ Inotify
        /\ affiche' = [affiche EXCEPT ![num] = Tampon(Lu(num, 0, st_size), st_size)]
        /\ position' = [position EXCEPT ![num] = Len(Lu(num, 0, st_size))]
    BY <1>6 DEF AfficherTout, varsFichiers, TypeTail
  <2>2. point' \in {"surveiller", "attendre", "mesurer"}
    BY <1>6, <2>1, PointPrepare DEF AfficherTout
  <2>3. CASE g # num
    <3>1. affiche'[g] = affiche[g] /\ position'[g] = position[g]
      BY <1>2, <2>1, <2>3 DEF TypeTail
    <3>2. ~EnCours(g) /\ ~EnCours(g)'
      BY <2>2, <2>3 DEF EnCours
    <3>3. QED
      BY <1>1, <2>1, <2>2, <3>1, <3>2 DEF FichierExact
  <2>4. CASE g = num
    <3>1. st_size = taille[g] /\ depart[g] = 0 /\ taille[g] <= Len(fichier[g])
      BY <2>1, <2>4 DEF FichierExact, EnCours
    <3>2. 0 + st_size <= Len(fichier[g]) /\ 0 \in Nat
      BY <1>3, <3>1
    <3>3. /\ Lu(g, 0, st_size) = SubSeq(fichier[g], 0 + 1, 0 + st_size)
          /\ Len(Lu(g, 0, st_size)) = st_size
          /\ Tampon(Lu(g, 0, st_size), st_size) = Lu(g, 0, st_size)
      BY <1>2, <1>3, <3>2, LectureExacte
    <3>4. 0 + st_size = st_size
      BY <1>3
    <3>5. affiche'[g] = SubSeq(fichier[g], depart[g] + 1, taille[g]) /\ position'[g] = taille[g]
      BY <1>2, <2>1, <2>4, <3>1, <3>3, <3>4 DEF TypeTail
    <3>6. ~EnCours(g)'
      BY <2>2 DEF EnCours
    <3>7. QED
      BY <1>1, <2>1, <2>2, <3>1, <3>5, <3>6 DEF FichierExact
  <2>5. QED
    BY <2>3, <2>4
<1>7. CASE AttendreEvenement
  <2>1. /\ UNCHANGED <<fichier, taille, position, st_size, depart, affiche>>
        /\ point = "attendre" /\ point' = "mesurer"
    BY <1>7 DEF AttendreEvenement
  <2>2. QED
    BY <1>1, <2>1 DEF FichierExact, EnCours
<1>8. CASE Mesurer
  <2>1. /\ UNCHANGED <<fichier, taille, position, depart, affiche>> /\ point = "mesurer"
        /\ st_size' = Len(fichier[num])
        /\ \/ point' \in {"attendre", "mesurer"}
           \/ point' = "afficher" /\ num' = num /\ st_size' # taille[num]
    BY <1>8, PointSuivant DEF Mesurer, varsFichiers
  <2>2. ~EnCours(g) /\ ~EnCours(g)'
    BY <2>1 DEF EnCours
  <2>3. point' = "afficher" /\ num' = g => taille[g] < st_size' /\ st_size' <= Len(fichier[g])
    BY <1>3, <2>1 DEF FichierExact
  <2>4. QED
    BY <1>1, <2>1, <2>2, <2>3 DEF FichierExact
<1>9. CASE AfficherChangement
  <2> DEFINE n  == IF Grandi THEN st_size - taille[num] ELSE st_size
             lu == Lu(num, Debut, n)
  <2>1. /\ UNCHANGED <<fichier, st_size, depart>> /\ point = "afficher"
        /\ taille' = [taille EXCEPT ![num] = st_size]
        /\ affiche' = [affiche EXCEPT ![num] = @ \o Tampon(lu, n)]
        /\ position' = [position EXCEPT ![num] = IF Inotify THEN Debut + Len(lu) ELSE 0]
    BY <1>9 DEF AfficherChangement, varsFichiers
  <2>2. point' \in {"attendre", "mesurer"}
    BY <1>9, PointSuivant DEF AfficherChangement
  <2> HIDE DEF n, lu
  <2>3. ~EnCours(g) /\ ~EnCours(g)'
    BY <2>1, <2>2 DEF EnCours
  <2>4. CASE g # num
    <3>1. affiche'[g] = affiche[g] /\ position'[g] = position[g] /\ taille'[g] = taille[g]
      BY <1>2, <2>1, <2>4 DEF TypeTail
    <3>2. QED
      BY <1>1, <2>1, <2>2, <2>3, <3>1 DEF FichierExact
  <2>5. CASE g = num
    <3>1. /\ depart[g] <= taille[g] /\ taille[g] < st_size /\ st_size <= Len(fichier[g])
          /\ affiche[g] = SubSeq(fichier[g], depart[g] + 1, taille[g])
          /\ (Inotify => position[g] = taille[g] /\ depart[g] = 0)
      BY <2>1, <2>3, <2>5 DEF FichierExact
    <3>2. Grandi /\ n = st_size - taille[g] /\ Debut = taille[g]
      BY <1>3, <2>5, <3>1 DEF Grandi, Debut, n
    <3>3. n \in Nat /\ taille[g] + n = st_size
      BY <1>3, <3>1, <3>2
    <3>4. /\ Lu(g, taille[g], n) = SubSeq(fichier[g], taille[g] + 1, taille[g] + n)
          /\ Len(Lu(g, taille[g], n)) = n
          /\ Tampon(Lu(g, taille[g], n), n) = Lu(g, taille[g], n)
      BY <1>2, <1>3, <3>1, <3>3, LectureExacte
    <3>5. lu = Lu(g, taille[g], n)
      BY <2>5, <3>2 DEF lu
    <3>6. /\ Tampon(lu, n) = SubSeq(fichier[g], taille[g] + 1, st_size)
          /\ taille[g] + Len(lu) = st_size
      BY <3>3, <3>4, <3>5
    <3>7. SubSeq(fichier[g], depart[g] + 1, taille[g]) \o SubSeq(fichier[g], taille[g] + 1, st_size)
              = SubSeq(fichier[g], depart[g] + 1, st_size)
      <4>1. taille[g] <= st_size
        BY <1>3, <3>1
      <4>2. QED
        BY <1>3, <3>1, <4>1, SousSuiteSuite
    <3>8. affiche'[g] = affiche[g] \o Tampon(lu, n)
      BY <1>2, <2>1, <2>5 DEF TypeTail
    <3>9. taille'[g] = st_size /\ (Inotify => position'[g] = st_size)
      BY <1>2, <2>1, <2>5, <3>2, <3>6 DEF TypeTail
    <3>10. affiche'[g] = SubSeq(fichier[g], depart[g] + 1, st_size) /\ depart[g] <= st_size
      <4>1. depart[g] <= st_size
        BY <1>3, <3>1
      <4>2. affiche'[g] = SubSeq(fichier[g], depart[g] + 1, taille[g])
                          \o SubSeq(fichier[g], taille[g] + 1, st_size)
        BY <3>1, <3>6, <3>8
      <4>3. QED
        BY <3>7, <4>1, <4>2
    <3>11. QED
      BY <1>1, <2>1, <2>2, <2>3, <3>1, <3>9, <3>10 DEF FichierExact
  <2>6. QED
    BY <2>4, <2>5
<1>10. QED
  BY <1>4, <1>5, <1>6, <1>7, <1>8, <1>9 DEF tail

LEMMA TailInductif ==
    ASSUME InvTail, [Next]_vars
    PROVE  InvTail'
<1>1. CASE UNCHANGED <<programme, varsTail>>
  <2>1. UNCHANGED <<programme, fichier, ecrits, tronques, notif, surveilles, point, num, taille,
                    position, st_size, depart, affiche>>
    BY <1>1 DEF varsTail, varsFichiers
  <2>2. Inotify' = Inotify /\ Nombre' = Nombre
    BY <2>1 DEF Inotify, Nombre
  <2>3. CASE programme \notin ProgrammesTail
    BY <2>1, <2>3 DEF InvTail, ReposTail, InitVide
  <2>4. CASE programme \in ProgrammesTail
    <3>1. TypeTail'
      BY <2>1, <2>2, <2>4 DEF InvTail, TypeTail
    <3>2. ASSUME NEW g \in (1 .. Nombre) \ tronques PROVE FichierExact(g)'
      BY <2>1, <2>2, <2>4, <3>2 DEF InvTail, FichierExact, EnCours
    <3>3. QED
      BY <2>1, <2>2, <2>4, <3>1, <3>2 DEF InvTail
  <2>5. QED
    BY <2>3, <2>4
<1>2. CASE programme \in ProgrammesTail /\ tail /\ UNCHANGED programme
  <2>1. TypeTail /\ \A g \in (1 .. Nombre) \ tronques : FichierExact(g)
    BY <1>2 DEF InvTail
  <2>2. TypeTail'
    BY <1>2, <2>1, TypeTailInductif
  <2>3. tronques' = tronques /\ Nombre' = Nombre
    BY <1>2 DEF tail, Surveiller, Ouvrir, AfficherTout, AttendreEvenement, Mesurer,
                AfficherChangement, varsFichiers, Nombre
  <2>4. ASSUME NEW g \in (1 .. Nombre) \ tronques PROVE FichierExact(g)'
    BY <1>2, <2>1, FichierExactInductif
  <2>5. QED
    BY <1>2, <2>2, <2>3, <2>4 DEF InvTail
<1>3. CASE programme \in ProgrammesTail /\ ecrivain /\ UNCHANGED programme
  BY <1>3, EcrivainInductif
<1>4. QED
  BY <1>1, <1>2, <1>3, PasTail

LEMMA TailInvariant == Spec => []InvTail
BY TailInitial, TailInductif, PTL DEF Spec

\* As long as a file has not been truncated, what is printed of it is what was
\* appended, in order and each byte once, whenever the writer writes.
THEOREM AffichageExactTail == Spec => []AffichageExact
<1>1. InvTail => AffichageExact
  <2>1. CASE programme \notin ProgrammesTail /\ InvTail
    <3>1. /\ fichier = [f \in Tous |-> <<>>] /\ affiche = [f \in Tous |-> <<>>]
          /\ taille = [f \in Tous |-> 0] /\ depart = taille /\ point = "arrete"
          /\ surveilles = {} /\ notif = <<>> /\ num = 1 /\ st_size = 0
      BY <2>1 DEF InvTail, ReposTail, InitVide
    <3>2. TypeOKTail
      <4>1. notif \in Seq(surveilles)
        BY <3>1
      <4>2. num \in 1 .. Nombre /\ st_size \in 0 .. MAXAJOUTS + 1
        BY <3>1, NombreFichiers, MiniTailAssumption
      <4>3. QED
        BY <3>1, <4>1, <4>2 DEF TypeOKTail
    <3>3. ASSUME NEW f \in 1 .. Nombre
          PROVE  affiche[f] = SubSeq(fichier[f], depart[f] + 1, taille[f])
      <4>1. f \in Tous /\ SubSeq(fichier[f], 0 + 1, 0) = <<>>
        BY NombreFichiers, SousSuiteVide
      <4>2. QED
        BY <3>1, <4>1
    <3>4. QED
      BY <3>2, <3>3 DEF AffichageExact
  <2>2. CASE programme \in ProgrammesTail /\ InvTail
    BY <2>2 DEF InvTail, TypeTail, FichierExact, EnCours, AffichageExact, TypeOKTail
  <2>3. QED
    BY <2>1, <2>2
<1>2. QED
  BY <1>1, TailInvariant, PTL

-----------------------------------------------------------------------------
\* The programs that are covered.  The table of the descriptors is known at each
\* point, whichever of the standard ones were closed; the directories that have
\* been tried do not have the command; exec5.c has output what it has counted;
\* the status of the process that forks is still 0 before it ends.

TypeRecouvrement ==
    /\ programme \in ProgrammesRecouvrement
    /\ contexte.argument \in Rien .. 7 /\ contexte.chemin \in Seq(BOOLEAN)
    /\ contexte.fermes \subseteq Standards
    /\ programme = "exec5" => Len(contexte.chemin) = 1
    /\ fds \in [Numeros -> {"terminal", "in", "out", Libre}]
    /\ fd_in \in Rien .. 4 /\ fd_out \in Rien .. 4
    /\ compteur5 \in Rien .. 7 /\ statut \in {-1, 0, 1} /\ exit_statut \in {0, 1}

\* The father waits for the process that he has created, and only then ends; the
\* command that has been found is the first of PATH.
FinDuPere ==
    \/ exec = "fini" /\ exit_statut = IF statut = -1 THEN 0 ELSE statut
    \/ exec = "absent" /\ contexte.argument = Rien /\ exit_statut = 1

Points ==
    /\ exec \in {"absent", "ouvrir", "creer", "dup2", "fermer", "exec", "commande", "fini"}
    /\ attendant \in {"aucun", "fork", "waitpid", "fini"}
    /\ exec \in {"ouvrir", "creer", "dup2", "fermer"} => programme = Redirection
    /\ programme \in AvecPere <=> attendant # "aucun"
    /\ attendant = "fork" => exec = "absent"
    /\ exec = "absent" => attendant \in {"fork", "fini"}
    /\ attendant # "fini" => exit_statut = 0
    /\ attendant = "fini" => FinDuPere
    /\ exec \notin {"commande", "fini"} \/ programme = "exec5" => lancee = 0
    /\ exec = "commande" => lancee = Premiere /\ lancee # 0
    /\ exec = "fini" /\ lancee = 0 => statut = 1

\* What a descriptor points to before dup2, and after.
Base(d)     == IF d \in Standards \ contexte.fermes THEN "terminal" ELSE Libre
Fichier(d)  == IF d = fd_in THEN "in" ELSE IF d = fd_out THEN "out" ELSE Base(d)
Redirige(d) == IF d = 0 /\ fd_in # Rien THEN "in"
               ELSE IF d \in {1, 2} /\ fd_in # Rien /\ fd_out # Rien THEN "out" ELSE Fichier(d)

\* A file only gets a standard descriptor that was closed, and the input gets the
\* lowest: the output is never what dup2 makes the input.
Numerotes ==
    /\ {fd_in, fd_out} \cap Standards \subseteq contexte.fermes
    /\ fd_in # Rien => fd_out \notin {0, fd_in} /\ (0 \in contexte.fermes => fd_in = 0)
    /\ exec = "ouvrir" => fd_in = Rien
    /\ exec = "creer" => fd_in # 4
    /\ exec \in {"ouvrir", "creer"} => fd_out = Rien

Descripteurs ==
    /\ Numerotes
    /\ exec \in {"ouvrir", "creer", "dup2"} => \A d \in Numeros : fds[d] = Fichier(d)
    /\ exec = "fermer" => \A d \in Numeros : fds[d] = Redirige(d)
    /\ exec \in {"absent", "exec", "commande", "fini"} => TableExacte

Essayes == Len(contexte.chemin) - Len(restants)

Recherche ==
    /\ restants \in Seq(BOOLEAN) /\ Essayes >= 0
    /\ \A i \in 1 .. Len(restants) : restants[i] = contexte.chemin[Essayes + i]
    /\ exec \notin {"commande", "fini"} => \A j \in 1 .. Essayes : ~contexte.chemin[j]

Depart5 == IF contexte.argument = Rien THEN 5 ELSE contexte.argument

Compte5 ==
    programme = "exec5" =>
        /\ exec \in {"exec", "fini"}
        /\ contexte.terminal /\ contexte.chemin[1] =>
             /\ exec = "fini" => compteur5 \notin {Rien} \cup 1 .. 5
             /\ IF Depart5 \in 1 .. 5
                THEN \/ compteur5 = Rien /\ Depart5 = 5 /\ imprimes = <<>>
                     \/ /\ compteur5 \in 0 .. Depart5
                        /\ imprimes = [i \in 1 .. Depart5 - compteur5 |-> 5 - Depart5 + i]
                ELSE compteur5 = Depart5 /\ imprimes = <<>>

InvRecouvrement ==
    IF programme \in ProgrammesRecouvrement
    THEN TypeRecouvrement /\ Points /\ Descripteurs /\ Recherche /\ Compte5
    ELSE ReposRecouvrement

\* The first directory that has the command, as execvp and the loop of
\* execAvecChemin.c find it.
LEMMA PremiereUnique ==
    ASSUME contexte.chemin \in Seq(BOOLEAN), NEW k \in 1 .. Len(contexte.chemin),
           contexte.chemin[k], \A j \in 1 .. k - 1 : ~contexte.chemin[j]
    PROVE  Premiere = k
<1> DEFINE c    == contexte.chemin
           P(i) == c[i] /\ \A j \in 1 .. i - 1 : ~c[j]
<1>1. DOMAIN c = 1 .. Len(c) /\ Len(c) \in Nat
  BY LenProperties
<1>2. TRUE \in Range(c)
  <2>1. c[k] = TRUE
    BY <1>1, ElementOfSeq
  <2>2. QED
    BY <1>1, <2>1 DEF Range
<1>3. k \in DOMAIN c /\ P(k)
  BY <1>1
<1>4. ASSUME NEW i \in DOMAIN c, P(i) PROVE i = k
  <2>1. i \in 1 .. Len(c)
    BY <1>1
  <2>2. CASE i < k
    <3>1. i \in 1 .. k - 1
      BY <2>1, <2>2
    <3>2. QED
      BY <1>4, <3>1
  <2>3. CASE k < i
    <3>1. k \in 1 .. i - 1
      BY <2>1, <2>3
    <3>2. QED
      BY <1>4, <3>1
  <2>4. QED
    BY <2>1, <2>2, <2>3
<1>5. (CHOOSE i \in DOMAIN c : P(i)) = k
  BY <1>3, <1>4
<1>6. QED
  BY <1>2, <1>5 DEF Premiere

LEMMA PremiereTrouvee ==
    ASSUME contexte.chemin \in Seq(BOOLEAN), TRUE \in Range(contexte.chemin)
    PROVE  /\ SelectInSeq(contexte.chemin, LAMBDA d : d) = Premiere
           /\ Premiere # 0
<1> DEFINE c == contexte.chemin
           I == {i \in 1 .. Len(c) : c[i]}
<1>1. DOMAIN c = 1 .. Len(c) /\ Len(c) \in Nat
  BY LenProperties
<1>2. I # {} /\ I \subseteq Nat
  <2>1. PICK i \in DOMAIN c : c[i] = TRUE
    BY DEF Range
  <2>2. i \in 1 .. Len(c) /\ c[i]
    BY <1>1, <2>1
  <2>3. QED
    BY <2>2
<1>3. PICK k \in I : \A y \in I : k <= y
  BY <1>2, PlusPetit
<1>4. Min(I) = k
  <2>1. ASSUME NEW x \in I, \A y \in I : x <= y PROVE x = k
    BY <1>2, <1>3, <2>1
  <2>2. QED
    BY <1>3, <2>1 DEF Min
<1>5. SelectInSeq(c, LAMBDA d : d) = k
  BY <1>2, <1>4 DEF SelectInSeq
<1>6. k \in 1 .. Len(c) /\ c[k]
  BY <1>3
<1>7. ASSUME NEW j \in 1 .. k - 1 PROVE ~c[j]
  BY <1>1, <1>3, <1>6
<1>8. Premiere = k
  BY <1>6, <1>7, PremiereUnique
<1>9. QED
  BY <1>1, <1>5, <1>6, <1>8

\* The lowest descriptor that is free.
LEMMA NouveauLibre ==
    ASSUME NEW t, \E d \in Numeros : t[d] = Libre
    PROVE  /\ Nouveau(t) \in Numeros /\ t[Nouveau(t)] = Libre
           /\ \A e \in Numeros : t[e] = Libre => Nouveau(t) <= e
<1> DEFINE P(d) == t[d] = Libre /\ \A e \in 0 .. d - 1 : t[e] # Libre
<1>1. \E d \in Numeros : P(d)
  <2>1. CASE t[0] = Libre
    BY <2>1 DEF Numeros
  <2>2. CASE t[0] # Libre /\ t[1] = Libre
    <3>1. \A e \in 0 .. 1 - 1 : e = 0
      OBVIOUS
    <3>2. QED
      BY <2>2, <3>1 DEF Numeros
  <2>3. CASE t[0] # Libre /\ t[1] # Libre /\ t[2] = Libre
    <3>1. \A e \in 0 .. 2 - 1 : e \in {0, 1}
      OBVIOUS
    <3>2. QED
      BY <2>3, <3>1 DEF Numeros
  <2>4. CASE t[0] # Libre /\ t[1] # Libre /\ t[2] # Libre /\ t[3] = Libre
    <3>1. \A e \in 0 .. 3 - 1 : e \in {0, 1, 2}
      OBVIOUS
    <3>2. QED
      BY <2>4, <3>1 DEF Numeros
  <2>5. CASE t[0] # Libre /\ t[1] # Libre /\ t[2] # Libre /\ t[3] # Libre
    <3>1. \A e \in 0 .. 4 - 1 : e \in {0, 1, 2, 3}
      OBVIOUS
    <3>2. t[4] = Libre
      BY <2>5 DEF Numeros
    <3>3. QED
      BY <2>5, <3>1, <3>2 DEF Numeros
  <2>6. QED
    BY <2>1, <2>2, <2>3, <2>4, <2>5
<1>2. Nouveau(t) \in Numeros /\ P(Nouveau(t))
  BY <1>1 DEF Nouveau
<1>3. ASSUME NEW e \in Numeros, t[e] = Libre PROVE Nouveau(t) <= e
  <2>1. CASE e < Nouveau(t)
    <3>1. e \in 0 .. Nouveau(t) - 1
      BY <1>2, <2>1 DEF Numeros
    <3>2. QED
      BY <1>2, <1>3, <3>1
  <2>2. QED
    BY <1>2, <2>1 DEF Numeros
<1>4. QED
  BY <1>2, <1>3

\* One more number in what exec5.c has output.
LEMMA NombreSuivant ==
    ASSUME NEW d \in Nat, NEW n \in Nat
    PROVE  Append([i \in 1 .. n |-> 5 - d + i], 5 - d + (n + 1)) = [i \in 1 .. n + 1 |-> 5 - d + i]
<1> DEFINE s == [i \in 1 .. n |-> 5 - d + i]
           t == [i \in 1 .. n + 1 |-> 5 - d + i]
<1>1. s \in Seq(Int) /\ Len(s) = n /\ \A i \in 1 .. n : s[i] = 5 - d + i
  OBVIOUS
<1>2. t \in Seq(Int) /\ Len(t) = n + 1 /\ \A i \in 1 .. n + 1 : t[i] = 5 - d + i
  OBVIOUS
<1> HIDE DEF s, t
<1> DEFINE x == 5 - d + (n + 1)
<1>3. x \in Int
  OBVIOUS
<1>4. /\ Append(s, x) \in Seq(Int) /\ Len(Append(s, x)) = n + 1
      /\ \A i \in 1 .. n : Append(s, x)[i] = s[i]
      /\ Append(s, x)[n + 1] = x
  BY <1>1, <1>3, AppendProperties
<1>5. ASSUME NEW i \in 1 .. n + 1 PROVE Append(s, x)[i] = t[i]
  <2>1. CASE i \in 1 .. n
    BY <1>1, <1>2, <1>4, <2>1
  <2>2. CASE i = n + 1
    BY <1>2, <1>4, <2>2
  <2>3. i \in 1 .. n \/ i = n + 1
    OBVIOUS
  <2>4. QED
    BY <2>1, <2>2, <2>3
<1>6. Append(s, x) = t
  BY <1>2, <1>4, <1>5, SeqEqual
<1>7. QED
  BY <1>6 DEF s, t

LEMMA TableInitiale ==
    ASSUME fds = Ouverts(contexte.fermes), fd_in = Rien, fd_out = Rien
    PROVE  TableExacte /\ \A d \in Numeros : fds[d] = Fichier(d)
BY DEF TableExacte, Ouverts, Rien, Numeros, Standards, Fichier, Base

LEMMA RecouvrementInitial ==
    ASSUME Init
    PROVE  InvRecouvrement
<1>1. CASE programme \notin ProgrammesRecouvrement
  BY <1>1 DEF Init, InvRecouvrement
<1>2. CASE programme \in ProgrammesRecouvrement
  <2>1. InitRecouvrement
    BY <1>2 DEF Init
  <2>2. /\ attendant = (IF programme \in AvecPere THEN "fork" ELSE "aucun")
        /\ exec = (CASE programme \in AvecPere -> "absent" [] programme = Redirection -> "ouvrir"
                     [] OTHER -> "exec")
        /\ restants = contexte.chemin /\ lancee = 0
        /\ fds = Ouverts(contexte.fermes) /\ fd_in = Rien /\ fd_out = Rien
        /\ compteur5 = contexte.argument /\ imprimes = <<>> /\ statut = 0
        /\ exit_statut = 0
    BY <2>1 DEF InitRecouvrement
  <2>3. SeqOf(BOOLEAN, NDOSSIERS) \subseteq Seq(BOOLEAN)
    BY RecouvrementAssumption DEF SeqOf
  <2>4. <<FALSE>> \in Seq(BOOLEAN) /\ <<TRUE>> \in Seq(BOOLEAN) /\ Len(<<FALSE>>) = 1 /\ Len(<<TRUE>>) = 1
    OBVIOUS
  <2>5. /\ contexte.argument \in Rien .. 7 /\ contexte.chemin \in Seq(BOOLEAN)
        /\ contexte.fermes \subseteq Standards
        /\ programme = "exec5" => Len(contexte.chemin) = 1
    <3>1. CASE programme = "exec5"
      <4>1. contexte \in Contexte(Rien .. 7, {<<FALSE>>, <<TRUE>>}, {{}})
        BY <2>1, <3>1 DEF InitRecouvrement, Redirection
      <4>2. QED
        BY <2>4, <3>1, <4>1 DEF Contexte
    <3>2. CASE programme = Redirection
      <4>1. contexte \in Contexte({0}, {<<FALSE>>, <<TRUE>>}, SUBSET Standards)
        BY <2>1, <3>2 DEF InitRecouvrement, Redirection
      <4>2. QED
        <5>1. /\ contexte.argument = 0 /\ contexte.chemin \in {<<FALSE>>, <<TRUE>>}
              /\ contexte.fermes \in SUBSET Standards
          BY <4>1 DEF Contexte
        <5>2. contexte.argument \in Rien .. 7
          BY <5>1 DEF Rien
        <5>3. contexte.chemin \in Seq(BOOLEAN)
          BY <2>4, <5>1
        <5>4. programme # "exec5"
          BY <3>2 DEF Redirection
        <5>5. QED
          BY <5>1, <5>2, <5>3, <5>4
    <3>3. CASE programme \notin {"exec5", Redirection}
      <4>1. contexte \in Contexte({Rien, 0}, Chemins, {{}})
        BY <2>1, <3>3 DEF InitRecouvrement, Contexte
      <4>2. QED
        BY <2>3, <3>3, <4>1 DEF Contexte, Chemins, Rien
    <3>4. QED
      BY <3>1, <3>2, <3>3
  <2>6. fds \in [Numeros -> {"terminal", "in", "out", Libre}]
    BY <2>2 DEF Ouverts
  <2>7. TypeRecouvrement
    BY <1>2, <2>2, <2>5, <2>6 DEF TypeRecouvrement, Rien
  <2>8. Points
    BY <1>2, <2>2 DEF Points, ProgrammesRecouvrement, AvecPere, Redirection
  <2>9. Descripteurs
    <3>1. TableExacte /\ \A d \in Numeros : fds[d] = Fichier(d)
      BY <2>2, TableInitiale
    <3>2. exec \notin {"creer", "dup2", "fermer"}
      BY <2>2
    <3>3. QED
      BY <2>2, <3>1, <3>2 DEF Descripteurs, Numerotes, Standards, Rien
  <2>10. Recherche
    <3>1. restants = contexte.chemin /\ Essayes = 0 /\ Len(restants) \in Nat
      BY <2>2, <2>5 DEF Essayes
    <3>2. QED
      BY <2>5, <3>1 DEF Recherche
  <2>11. Compte5
    <3>1. CASE programme = "exec5"
      <4>1. exec = "exec"
        BY <2>2, <3>1 DEF AvecPere, Redirection
      <4>2. CASE contexte.argument = Rien
        BY <2>2, <4>1, <4>2 DEF Compte5, Depart5
      <4>3. CASE contexte.argument # Rien
        <5>1. Depart5 = contexte.argument /\ Depart5 \in Int
          BY <2>5, <4>3 DEF Depart5, Rien
        <5>2. [i \in 1 .. Depart5 - compteur5 |-> 5 - Depart5 + i] = <<>>
          <6>1. ASSUME NEW k \in Int, k = 0 PROVE [i \in 1 .. k |-> 5 - Depart5 + i] = <<>>
            BY <5>1, <6>1
          <6>2. QED
            BY <2>2, <5>1, <6>1
        <5>3. QED
          BY <2>2, <4>1, <5>1, <5>2 DEF Compte5
      <4>4. QED
        BY <4>2, <4>3
    <3>2. QED
      BY <3>1 DEF Compte5
  <2>12. QED
    BY <1>2, <2>7, <2>8, <2>9, <2>10, <2>11 DEF InvRecouvrement
<1>3. QED
  BY <1>1, <1>2

ToutRecouvrement == TypeRecouvrement /\ Points /\ Descripteurs /\ Recherche /\ Compte5

\* What does not touch the search nor exec5.c.
LEMMA RedirectionReste ==
    ASSUME ToutRecouvrement, UNCHANGED programme,
           programme = Redirection,
           UNCHANGED <<contexte, attendant, restants, lancee, varsExec5, varsFin>>,
           exec \in {"ouvrir", "creer", "dup2", "fermer"},
           exec' \in {"creer", "dup2", "fermer", "exec"}
    PROVE  Points' /\ Recherche' /\ Compte5'
<1>1. attendant = "aucun" /\ programme # "exec5" /\ programme \notin AvecPere /\ lancee = 0
  BY DEF ToutRecouvrement, Points, Redirection, AvecPere
<1>2. Points'
  BY <1>1 DEF ToutRecouvrement, Points, varsFin
<1>3. Recherche'
  BY DEF ToutRecouvrement, Recherche, Essayes
<1>4. Compte5'
  BY <1>1 DEF Compte5
<1>5. QED
  BY <1>2, <1>3, <1>4

LEMMA OuvrirEntreeInductif ==
    ASSUME ToutRecouvrement, OuvrirEntree, UNCHANGED programme
    PROVE  ToutRecouvrement'
<1>0. /\ TypeRecouvrement /\ Points /\ Descripteurs /\ Numerotes
      /\ exec = "ouvrir" /\ exec' = "creer" /\ programme = Redirection /\ fd_out' = fd_out
      /\ UNCHANGED <<contexte, attendant, restants, lancee, varsExec5, varsFin>>
  BY DEF ToutRecouvrement, Points, Descripteurs, OuvrirEntree
<1>1. Points' /\ Recherche' /\ Compte5'
  BY <1>0, RedirectionReste
<1>2. fd_in = Rien /\ fd_out = Rien /\ \A d \in Numeros : fds[d] = Base(d)
  BY <1>0 DEF Descripteurs, Numerotes, Fichier, Rien, Numeros
<1>3. CASE fd_in' = Nouveau(fds) /\ fds' = [fds EXCEPT ![fd_in'] = "in"]
  <2>1. /\ fd_in' \in 0 .. 3 /\ fds[fd_in'] = Libre
        /\ 0 \in contexte.fermes => fd_in' = 0
    <3>1. fds[3] = Libre /\ (0 \in contexte.fermes => fds[0] = Libre)
      BY <1>2 DEF Base, Numeros, Standards
    <3>2. /\ Nouveau(fds) \in Numeros /\ fds[Nouveau(fds)] = Libre /\ Nouveau(fds) <= 3
          /\ 0 \in contexte.fermes => Nouveau(fds) <= 0
      BY <3>1, NouveauLibre DEF Numeros
    <3>3. QED
      BY <1>3, <3>2 DEF Numeros
  <2>2. /\ fd_in' \in Numeros /\ fd_in' \in Rien .. 4 /\ fd_in' # Rien /\ fd_in' # 4
    BY <2>1 DEF Numeros, Rien
  <2>3. \A d \in Numeros : fds'[d] = IF d = fd_in' THEN "in" ELSE fds[d]
    BY <1>0, <1>3, <2>2 DEF TypeRecouvrement
  <2>4. TypeRecouvrement'
    BY <1>0, <1>3, <2>2 DEF TypeRecouvrement, varsExec5, varsFin
  <2>5. {fd_in'} \cap Standards \subseteq contexte.fermes
    BY <1>2, <2>1, <2>2 DEF Base, Libre
  <2>6. \A d \in Numeros : fds'[d] = Fichier(d)'
    BY <1>0, <1>2, <2>3 DEF Fichier, Base, Rien, Numeros
  <2>7. Descripteurs'
    BY <1>0, <1>2, <2>1, <2>2, <2>5, <2>6 DEF Descripteurs, Numerotes, Rien, Standards
  <2>8. QED
    BY <1>1, <2>4, <2>7 DEF ToutRecouvrement
<1>4. CASE fd_in' = Rien /\ fds' = fds
  <2>1. TypeRecouvrement'
    BY <1>0, <1>4 DEF TypeRecouvrement, varsExec5, varsFin, Rien
  <2>2. \A d \in Numeros : fds'[d] = Fichier(d)'
    BY <1>0, <1>2, <1>4 DEF Fichier, Base, Rien, Numeros
  <2>3. Descripteurs'
    BY <1>0, <1>2, <1>4, <2>2 DEF Descripteurs, Numerotes, Rien, Standards
  <2>4. QED
    BY <1>1, <2>1, <2>3 DEF ToutRecouvrement
<1>5. QED
  BY <1>3, <1>4 DEF OuvrirEntree

LEMMA CreerSortieInductif ==
    ASSUME ToutRecouvrement, CreerSortie, UNCHANGED programme
    PROVE  ToutRecouvrement'
<1>0. /\ TypeRecouvrement /\ Points /\ Descripteurs /\ Numerotes
      /\ exec = "creer" /\ exec' = "dup2" /\ programme = Redirection /\ fd_in' = fd_in
      /\ UNCHANGED <<contexte, attendant, restants, lancee, varsExec5, varsFin>>
  BY DEF ToutRecouvrement, Points, Descripteurs, CreerSortie
<1>1. Points' /\ Recherche' /\ Compte5'
  BY <1>0, RedirectionReste
<1>2. /\ fd_in \in Rien .. 3 /\ fd_out = Rien
      /\ \A d \in Numeros : fds[d] = IF d = fd_in THEN "in" ELSE Base(d)
  BY <1>0 DEF TypeRecouvrement, Descripteurs, Numerotes, Fichier, Rien, Numeros
<1>3. CASE fd_out' = Nouveau(fds) /\ fds' = [fds EXCEPT ![fd_out'] = "out"]
  <2>1. fd_out' \in 0 .. 4 /\ fds[fd_out'] = Libre
    <3>1. fds[4] = Libre
      BY <1>2 DEF Base, Numeros, Standards, Rien
    <3>2. Nouveau(fds) \in Numeros /\ fds[Nouveau(fds)] = Libre
      BY <3>1, NouveauLibre DEF Numeros
    <3>3. QED
      BY <1>3, <3>2 DEF Numeros
  <2>2. /\ fd_out' \in Numeros /\ fd_out' \in Rien .. 4 /\ fd_out' # Rien /\ fd_out' # fd_in
        /\ Base(fd_out') = Libre
    BY <1>2, <2>1 DEF Numeros, Rien, Libre
  <2>3. \A d \in Numeros : fds'[d] = IF d = fd_out' THEN "out" ELSE fds[d]
    BY <1>0, <1>3, <2>2 DEF TypeRecouvrement
  <2>4. TypeRecouvrement'
    BY <1>0, <1>3, <2>2 DEF TypeRecouvrement, varsExec5, varsFin
  <2>5. {fd_out'} \cap Standards \subseteq contexte.fermes
    BY <2>2 DEF Base, Libre
  <2>6. fd_in # Rien => fd_out' # 0
    BY <1>0, <2>2, <2>5 DEF Numerotes, Standards
  <2>7. \A d \in Numeros : fds'[d] = Fichier(d)'
    BY <1>0, <1>2, <2>2, <2>3 DEF Fichier, Base
  <2>8. Descripteurs'
    BY <1>0, <2>2, <2>5, <2>6, <2>7 DEF Descripteurs, Numerotes
  <2>9. QED
    BY <1>1, <2>4, <2>8 DEF ToutRecouvrement
<1>4. CASE fd_out' = Rien /\ fds' = fds
  <2>1. TypeRecouvrement'
    BY <1>0, <1>4 DEF TypeRecouvrement, varsExec5, varsFin, Rien
  <2>2. \A d \in Numeros : fds'[d] = Fichier(d)'
    BY <1>0, <1>2, <1>4 DEF Descripteurs, Fichier, Base
  <2>3. Descripteurs'
    BY <1>0, <1>2, <1>4, <2>2 DEF Descripteurs, Numerotes, Rien
  <2>4. QED
    BY <1>1, <2>1, <2>3 DEF ToutRecouvrement
<1>5. QED
  BY <1>3, <1>4 DEF CreerSortie

LEMMA DupliquerInductif ==
    ASSUME ToutRecouvrement, Dupliquer, UNCHANGED programme
    PROVE  ToutRecouvrement'
<1>0. /\ TypeRecouvrement /\ Points /\ Descripteurs /\ Numerotes
      /\ exec = "dup2" /\ exec' = "fermer" /\ programme = Redirection
      /\ fd_in' = fd_in /\ fd_out' = fd_out
      /\ UNCHANGED <<contexte, attendant, restants, lancee, varsExec5, varsFin>>
  BY DEF ToutRecouvrement, Points, Descripteurs, Dupliquer
<1>1. Points' /\ Recherche' /\ Compte5'
  BY <1>0, RedirectionReste
<1> DEFINE avecIn == [fds EXCEPT ![0] = fds[fd_in]]
<1>2. fds' = IF fd_in = Rien THEN fds
             ELSE IF fd_out = Rien THEN avecIn
             ELSE [avecIn EXCEPT ![1] = avecIn[fd_out], ![2] = avecIn[fd_out]]
  BY DEF Dupliquer
<1>3. (fd_in # Rien => fd_in \in Numeros) /\ (fd_out # Rien => fd_out \in Numeros)
  BY <1>0 DEF TypeRecouvrement, Rien, Numeros
<1>4. fd_in # Rien => avecIn \in [Numeros -> {"terminal", "in", "out", Libre}]
  BY <1>0, <1>3 DEF TypeRecouvrement
<1>5. TypeRecouvrement'
  <2>1. fds' \in [Numeros -> {"terminal", "in", "out", Libre}]
    BY <1>0, <1>2, <1>3, <1>4 DEF TypeRecouvrement
  <2>2. QED
    BY <1>0, <2>1 DEF TypeRecouvrement, varsExec5, varsFin
<1>6. /\ DOMAIN fds = Numeros /\ \A d \in Numeros : fds[d] = Fichier(d)
      /\ \A d \in Numeros : Fichier(d)' = Fichier(d)
  BY <1>0 DEF TypeRecouvrement, Descripteurs, Fichier, Base
<1>7. \A d \in Numeros : fds'[d] = Redirige(d)
  <2>1. CASE fd_in = Rien
    BY <1>2, <1>6, <2>1 DEF Redirige
  <2>2. CASE fd_in # Rien
    <3>1. fds[fd_in] = "in" /\ (fd_out # Rien => fds[fd_out] = "out" /\ fd_out # 0)
      BY <1>0, <1>3, <1>6, <2>2 DEF Fichier, Numerotes
    <3>2. DOMAIN avecIn = Numeros /\ \A d \in Numeros : avecIn[d] = IF d = 0 THEN "in" ELSE Fichier(d)
      BY <1>6, <3>1
    <3>3. fd_out # Rien => avecIn[fd_out] = "out"
      BY <1>3, <1>6, <3>1, <3>2
    <3> HIDE DEF avecIn
    <3>4. CASE fd_out = Rien
      BY <1>2, <2>2, <3>2, <3>4 DEF Redirige
    <3>5. CASE fd_out # Rien
      <4>1. fds' = [avecIn EXCEPT ![1] = "out", ![2] = "out"]
        BY <1>2, <2>2, <3>3, <3>5
      <4>2. QED
        BY <2>2, <3>2, <3>5, <4>1 DEF Redirige
    <3>6. QED
      BY <3>4, <3>5
  <2>3. QED
    BY <2>1, <2>2
<1>8. \A d \in Numeros : fds'[d] = Redirige(d)'
  BY <1>0, <1>6, <1>7 DEF Redirige
<1>9. Descripteurs'
  BY <1>0, <1>8 DEF Descripteurs, Numerotes
<1>10. QED
  BY <1>1, <1>5, <1>9 DEF ToutRecouvrement

LEMMA FermerInductif ==
    ASSUME ToutRecouvrement, FermerLesDeux, UNCHANGED programme
    PROVE  ToutRecouvrement'
<1>0. /\ TypeRecouvrement /\ Points /\ Descripteurs /\ Numerotes
      /\ exec = "fermer" /\ exec' = "exec" /\ programme = Redirection
      /\ fd_in' = fd_in /\ fd_out' = fd_out
      /\ fds' = [d \in Numeros |-> IF d \in {fd_in, fd_out} THEN Libre ELSE fds[d]]
      /\ UNCHANGED <<contexte, attendant, restants, lancee, varsExec5, varsFin>>
  BY DEF ToutRecouvrement, Points, Descripteurs, FermerLesDeux
<1>1. Points' /\ Recherche' /\ Compte5'
  BY <1>0, RedirectionReste
<1>2. TypeRecouvrement'
  <2>1. fds' \in [Numeros -> {"terminal", "in", "out", Libre}]
    BY <1>0 DEF TypeRecouvrement
  <2>2. QED
    BY <1>0, <2>1 DEF TypeRecouvrement, varsExec5, varsFin
<1>3. ASSUME NEW d \in Numeros
      PROVE  fds'[d] = IF d \in {fd_in, fd_out} THEN Libre
                       ELSE CASE d = 0 /\ fd_in # Rien -> "in"
                              [] d \in {1, 2} /\ fd_in # Rien /\ fd_out # Rien -> "out"
                              [] OTHER -> Ouverts(contexte.fermes)[d]
  <2>1. Ouverts(contexte.fermes)[d] = Base(d)
    BY DEF Ouverts, Base
  <2>2. CASE d \notin {fd_in, fd_out}
    <3>1. fds'[d] = Redirige(d) /\ Fichier(d) = Base(d)
      BY <1>0, <2>2 DEF Descripteurs, Fichier
    <3>2. QED
      BY <2>1, <2>2, <3>1 DEF Redirige
  <2>3. CASE d \in {fd_in, fd_out}
    BY <1>0, <2>3
  <2>4. QED
    BY <2>2, <2>3
<1>4. TableExacte'
  BY <1>0, <1>3 DEF TableExacte, Numerotes
<1>5. Descripteurs'
  BY <1>0, <1>4 DEF Descripteurs, Numerotes
<1>6. QED
  BY <1>1, <1>2, <1>5 DEF ToutRecouvrement

LEMMA DescripteursReste ==
    ASSUME Descripteurs, UNCHANGED <<programme, contexte, varsDescripteurs>>,
           exec \in {"absent", "exec", "commande", "fini"},
           exec' \in {"absent", "exec", "commande", "fini"}
    PROVE  Descripteurs'
<1>1. UNCHANGED <<programme, contexte, fds, fd_in, fd_out>>
  BY DEF varsDescripteurs
<1>2. TableExacte' = TableExacte
  BY <1>1 DEF TableExacte
<1>3. QED
  BY <1>1, <1>2 DEF Descripteurs, Numerotes

LEMMA ExecvpInductif ==
    ASSUME ToutRecouvrement, execvp, UNCHANGED programme
    PROVE  ToutRecouvrement'
<1>0. /\ TypeRecouvrement /\ Points /\ Descripteurs /\ Recherche
      /\ exec = "exec" /\ programme # "exec5" /\ lancee = 0
      /\ UNCHANGED <<contexte, attendant, restants, varsDescripteurs, varsExec5>>
  BY DEF ToutRecouvrement, Points, execvp
<1>1. /\ \/ exec' = "fini" /\ statut' = 1 /\ lancee' = 0
         \/ exec' = "commande" /\ statut' = statut /\ lancee' = Premiere /\ Premiere # 0
      /\ exit_statut' = exit_statut
  BY <1>0, PremiereTrouvee DEF execvp, Achever, TypeRecouvrement, varsFin
<1>2. Premiere' = Premiere /\ Essayes' = Essayes
  BY <1>0 DEF Premiere, Essayes
<1>3. TypeRecouvrement'
  BY <1>0, <1>1 DEF TypeRecouvrement, varsDescripteurs, varsExec5
<1>4. Points'
  BY <1>0, <1>1, <1>2 DEF Points, FinDuPere
<1>5. Descripteurs'
  BY <1>0, <1>1, DescripteursReste
<1>6. Recherche'
  BY <1>0, <1>1, <1>2 DEF Recherche
<1>7. Compte5'
  BY <1>0 DEF Compte5
<1>8. QED
  BY <1>3, <1>4, <1>5, <1>6, <1>7 DEF ToutRecouvrement

LEMMA ExecAvecCheminInductif ==
    ASSUME ToutRecouvrement, exec_avec_chemin, UNCHANGED programme
    PROVE  ToutRecouvrement'
<1>0. /\ TypeRecouvrement /\ Points /\ Descripteurs /\ Recherche
      /\ exec = "exec" /\ programme # "exec5" /\ lancee = 0
      /\ UNCHANGED <<contexte, attendant, varsDescripteurs, varsExec5>>
  BY DEF ToutRecouvrement, Points, exec_avec_chemin
<1> DEFINE c == contexte.chemin
<1>1. /\ restants \in Seq(BOOLEAN) /\ Essayes = Len(c) - Len(restants) /\ Essayes >= 0
      /\ Len(restants) \in Nat /\ Len(c) \in Nat /\ c \in Seq(BOOLEAN)
      /\ \A i \in 1 .. Len(restants) : restants[i] = c[Essayes + i]
      /\ \A j \in 1 .. Essayes : ~c[j]
  BY <1>0 DEF Recherche, Essayes, TypeRecouvrement
<1>2. Premiere' = Premiere /\ c' = c
  BY <1>0 DEF Premiere
<1>3. CASE restants = <<>>
  <2>1. /\ exec' = "fini" /\ statut' = 1 /\ lancee' = lancee /\ restants' = restants
        /\ exit_statut' = exit_statut
    BY <1>3 DEF exec_avec_chemin, Achever
  <2>2. Essayes' = Essayes
    BY <1>0, <2>1 DEF Essayes
  <2>3. TypeRecouvrement' /\ Points'
    BY <1>0, <2>1 DEF TypeRecouvrement, Points, FinDuPere, varsDescripteurs, varsExec5
  <2>4. Descripteurs'
    BY <1>0, <2>1, DescripteursReste
  <2>5. Recherche' /\ Compte5'
    BY <1>0, <2>1, <2>2 DEF Recherche, Compte5
  <2>6. QED
    BY <2>3, <2>4, <2>5 DEF ToutRecouvrement
<1>4. CASE restants # <<>>
  <2>1. /\ restants' = Tail(restants) /\ statut' = statut /\ exit_statut' = exit_statut
        /\ \/ Head(restants) /\ exec' = "commande" /\ lancee' = Len(c) - Len(restants) + 1
           \/ ~Head(restants) /\ exec' = exec /\ lancee' = lancee
    BY <1>4 DEF exec_avec_chemin, varsFin
  <2>2. /\ restants' \in Seq(BOOLEAN) /\ Len(restants') = Len(restants) - 1 /\ Len(restants) >= 1
        /\ \A i \in 1 .. Len(restants') : restants'[i] = restants[i + 1]
        /\ Head(restants) = restants[1]
    <3>1. Len(restants) \in Nat \ {0}
      BY <1>1, <1>4, EmptySeq
    <3>2. /\ Tail(restants) \in Seq(BOOLEAN) /\ Len(Tail(restants)) = Len(restants) - 1
          /\ \A i \in 1 .. Len(Tail(restants)) : Tail(restants)[i] = restants[i + 1]
      BY <1>1, <1>4, HeadTailProperties
    <3>3. Len(restants) >= 1 /\ Head(restants) = restants[1]
      BY <1>1, <1>4, <3>1
    <3>4. QED
      BY <2>1, <3>2, <3>3
  <2>3. Essayes' = Essayes + 1
    BY <1>1, <1>2, <2>2 DEF Essayes
  <2>4. Head(restants) = c[Essayes + 1]
    BY <1>1, <2>2
  <2>5. Head(restants) => Premiere = Essayes + 1
    <3>1. Essayes + 1 \in 1 .. Len(c)
      BY <1>1, <2>2
    <3>2. \A j \in 1 .. (Essayes + 1) - 1 : ~c[j]
      BY <1>1
    <3>3. QED
      BY <1>1, <2>4, <3>1, <3>2, PremiereUnique
  <2>6. \/ exec' = "commande" /\ lancee' = Premiere /\ Premiere # 0
        \/ exec' = "exec" /\ lancee' = 0 /\ ~c[Essayes + 1]
    <3>1. Essayes + 1 # 0 /\ Len(c) - Len(restants) + 1 = Essayes + 1
      BY <1>1
    <3>2. QED
      BY <1>0, <2>1, <2>4, <2>5, <3>1
  <2>7. TypeRecouvrement'
    BY <1>0, <2>1 DEF TypeRecouvrement, varsDescripteurs, varsExec5
  <2>8. Points'
    BY <1>0, <1>2, <2>1, <2>6 DEF Points, FinDuPere
  <2>9. Descripteurs'
    BY <1>0, <2>6, DescripteursReste
  <2>10. Recherche'
    <3>1. ASSUME NEW i \in 1 .. Len(restants') PROVE restants'[i] = c[(Essayes + 1) + i]
      <4>1. i + 1 \in 1 .. Len(restants) /\ restants'[i] = restants[i + 1]
        BY <1>1, <2>2
      <4>2. restants[i + 1] = c[Essayes + (i + 1)] /\ Essayes + (i + 1) = (Essayes + 1) + i
        <5>1. \A k \in 1 .. Len(restants) : restants[k] = c[Essayes + k]
          BY <1>1
        <5>2. restants[i + 1] = c[Essayes + (i + 1)]
          BY <4>1, <5>1
        <5>3. i \in Int /\ Essayes \in Int
          BY <1>1
        <5>4. QED
          BY <5>2, <5>3
      <4>3. QED
        BY <4>1, <4>2
    <3>2. ASSUME exec' = "exec", NEW j \in 1 .. Essayes + 1 PROVE ~c[j]
      <4>1. j \in 1 .. Essayes \/ j = Essayes + 1
        BY <1>1
      <4>2. QED
        BY <1>1, <2>6, <3>2, <4>1
    <3>3. \A j \in 1 .. Essayes + 1 : exec' = "exec" => ~c[j]
      BY <3>2
    <3>4. Essayes' >= 0
      BY <1>1, <2>3
    <3>5. QED
      BY <1>2, <2>2, <2>3, <2>6, <3>1, <3>3, <3>4 DEF Recherche
  <2>11. Compte5'
    BY <1>0 DEF Compte5
  <2>12. QED
    BY <2>7, <2>8, <2>9, <2>10, <2>11 DEF ToutRecouvrement
<1>5. QED
  BY <1>3, <1>4

\* The command, the father that creates it and waits for it.
LEMMA AttenteInductif ==
    ASSUME ToutRecouvrement, Commande \/ Forker \/ Waitpid, UNCHANGED programme
    PROVE  ToutRecouvrement'
<1>0. /\ TypeRecouvrement /\ Points /\ Descripteurs /\ Recherche /\ Compte5
      /\ UNCHANGED <<contexte, restants, lancee, varsDescripteurs, varsExec5>>
  BY DEF ToutRecouvrement, Commande, Forker, Waitpid
<1>1. Premiere' = Premiere /\ Essayes' = Essayes
  BY <1>0 DEF Premiere, Essayes
<1>2. CASE Commande
  <2>1. exec = "commande" /\ exec' = "fini" /\ statut' \in {-1, 0, 1} /\ attendant' = attendant
        /\ exit_statut' = exit_statut /\ lancee # 0 /\ programme # "exec5" /\ attendant # "fini"
    BY <1>0, <1>2 DEF Commande, Achever, Points, FinDuPere, Compte5
  <2>2. TypeRecouvrement' /\ Compte5'
    BY <1>0, <2>1 DEF TypeRecouvrement, Compte5, varsDescripteurs, varsExec5
  <2>3. Points' /\ Recherche'
    BY <1>0, <1>1, <2>1 DEF Points, Recherche
  <2>4. QED
    BY <1>0, <2>1, <2>2, <2>3, DescripteursReste DEF ToutRecouvrement
<1>3. CASE Forker
  <2>1. /\ attendant = "fork" /\ exec = "absent" /\ programme # "exec5" /\ lancee = 0
        /\ programme \in AvecPere /\ statut' = statut /\ exit_statut = 0
        /\ \/ /\ attendant' = "fini" /\ exec' = exec
              /\ contexte.argument = Rien /\ exit_statut' = 1
           \/ attendant' = "waitpid" /\ exec' = "exec" /\ exit_statut' = exit_statut
    BY <1>0, <1>3 DEF Forker, Points, AvecPere
  <2>2. TypeRecouvrement' /\ Compte5'
    BY <1>0, <2>1 DEF TypeRecouvrement, Compte5, varsDescripteurs, varsExec5
  <2>3. Points' /\ Recherche'
    BY <1>0, <1>1, <2>1 DEF Points, FinDuPere, Recherche
  <2>4. QED
    BY <1>0, <2>1, <2>2, <2>3, DescripteursReste DEF ToutRecouvrement
<1>4. CASE Waitpid
  <2>1. /\ attendant = "waitpid" /\ exec = "fini" /\ attendant' = "fini" /\ exec' = "fini"
        /\ statut' = statut /\ exit_statut' = (IF statut = -1 THEN 0 ELSE statut)
        /\ programme \in AvecPere /\ programme # "exec5"
    BY <1>0, <1>4 DEF Waitpid, Points, AvecPere
  <2>2. exit_statut' \in {0, 1}
    BY <1>0, <2>1 DEF TypeRecouvrement
  <2>3. TypeRecouvrement' /\ Compte5'
    BY <1>0, <2>1, <2>2 DEF TypeRecouvrement, Compte5, varsDescripteurs, varsExec5
  <2>4. Points' /\ Recherche'
    BY <1>0, <1>1, <2>1 DEF Points, FinDuPere, Recherche
  <2>5. QED
    BY <1>0, <2>1, <2>3, <2>4, DescripteursReste DEF ToutRecouvrement
<1>5. QED
  BY <1>2, <1>3, <1>4

LEMMA Main5Inductif ==
    ASSUME ToutRecouvrement, main5, UNCHANGED programme
    PROVE  ToutRecouvrement'
<1>0. /\ TypeRecouvrement /\ Points /\ Descripteurs /\ Recherche /\ Compte5
      /\ exec = "exec" /\ programme = "exec5" /\ lancee = 0
      /\ UNCHANGED <<contexte, attendant, restants, lancee, varsDescripteurs>>
  BY DEF ToutRecouvrement, Points, main5
<1>1. Premiere' = Premiere /\ Essayes' = Essayes /\ Depart5' = Depart5
  BY <1>0 DEF Premiere, Essayes, Depart5
<1>2. /\ \/ /\ compteur5 \notin {Rien} \cup 1 .. 5 /\ UNCHANGED <<compteur5, imprimes>>
            /\ exec' = "fini" /\ statut' = 1
         \/ /\ compteur5 \in {Rien} \cup 1 .. 5
            /\ compteur5' = IF compteur5 = Rien THEN 5 ELSE compteur5 - 1
            /\ imprimes' = IF compteur5' < 5 /\ (contexte.terminal \/ ~contexte.chemin[1])
                           THEN Append(imprimes, 5 - compteur5') ELSE imprimes
            /\ \/ contexte.chemin[1] /\ exec' = "exec" /\ statut' = statut
               \/ ~contexte.chemin[1] /\ exec' = "fini" /\ statut' = 1
      /\ exit_statut' = exit_statut
  BY <1>0 DEF main5, Achever, varsExec5, varsFin
<1>3. compteur5' \in Rien .. 7
  BY <1>0, <1>2 DEF TypeRecouvrement, Rien
<1>4. TypeRecouvrement'
  BY <1>0, <1>2, <1>3 DEF TypeRecouvrement, varsDescripteurs
<1>5. Points' /\ Recherche'
  BY <1>0, <1>1, <1>2 DEF Points, FinDuPere, Recherche
<1>6. Descripteurs'
  BY <1>0, <1>2, DescripteursReste
<1>7. ASSUME contexte.terminal /\ contexte.chemin[1]
      PROVE  Compte5'
  <2>1. CASE compteur5 \notin {Rien} \cup 1 .. 5
    BY <1>0, <1>1, <1>2, <1>7, <2>1 DEF Compte5
  <2>2. CASE compteur5 \in {Rien} \cup 1 .. 5
    <3>1. /\ exec' = "exec" /\ compteur5' = (IF compteur5 = Rien THEN 5 ELSE compteur5 - 1)
          /\ imprimes' = IF compteur5' < 5 THEN Append(imprimes, 5 - compteur5') ELSE imprimes
      BY <1>2, <1>7, <2>2
    <3>2. Depart5 \in 0 .. 7
      BY <1>0 DEF TypeRecouvrement, Depart5, Rien
    <3>3. Depart5 \in 1 .. 5
      BY <1>0, <1>7, <2>2, <3>2 DEF Compte5, Rien
    <3>4. \/ compteur5 = Rien /\ Depart5 = 5 /\ imprimes = <<>>
          \/ /\ compteur5 \in 0 .. Depart5
             /\ imprimes = [i \in 1 .. Depart5 - compteur5 |-> 5 - Depart5 + i]
      BY <1>0, <1>7, <3>3 DEF Compte5
    <3>5. /\ compteur5' \in 0 .. Depart5
          /\ imprimes' = [i \in 1 .. Depart5 - compteur5' |-> 5 - Depart5 + i]
      <4>1. CASE compteur5 = Rien
        <5>1. Depart5 = 5 /\ imprimes = <<>> /\ compteur5' = 5 /\ imprimes' = imprimes
          BY <3>1, <3>4, <4>1 DEF Rien
        <5>2. ASSUME NEW k \in Int, k = 0 PROVE [i \in 1 .. k |-> 5 - Depart5 + i] = <<>>
          BY <5>1, <5>2
        <5>3. Depart5 - compteur5' = 0 /\ compteur5' \in 0 .. Depart5
          BY <5>1
        <5>4. QED
          BY <5>1, <5>2, <5>3
      <4>2. CASE compteur5 # Rien
        <5>1. compteur5 \in 1 .. 5 /\ compteur5 <= Depart5 /\ compteur5' = compteur5 - 1
          BY <2>2, <3>1, <3>4, <4>2
        <5> DEFINE n == Depart5 - compteur5
        <5>2. n \in Nat /\ n + 1 = Depart5 - compteur5' /\ 5 - compteur5' = 5 - Depart5 + (n + 1)
          BY <3>2, <5>1
        <5>3. imprimes = [i \in 1 .. n |-> 5 - Depart5 + i]
          BY <3>4, <4>2
        <5>4. imprimes' = Append(imprimes, 5 - compteur5')
          BY <3>1, <5>1
        <5> HIDE DEF n
        <5>5. Append([i \in 1 .. n |-> 5 - Depart5 + i], 5 - Depart5 + (n + 1))
                  = [i \in 1 .. n + 1 |-> 5 - Depart5 + i]
          BY <3>2, <5>2, NombreSuivant
        <5>6. imprimes' = [i \in 1 .. Depart5 - compteur5' |-> 5 - Depart5 + i]
          BY <5>2, <5>3, <5>4, <5>5
        <5>7. compteur5' \in 0 .. Depart5
          BY <3>2, <5>1
        <5>8. QED
          BY <5>6, <5>7
      <4>3. QED
        BY <4>1, <4>2
    <3>6. QED
      BY <1>0, <1>1, <3>1, <3>3, <3>5 DEF Compte5
  <2>3. QED
    BY <2>1, <2>2
<1>8. Compte5'
  BY <1>0, <1>2, <1>7 DEF Compte5
<1>9. QED
  BY <1>4, <1>5, <1>6, <1>8 DEF ToutRecouvrement

LEMMA RecouvrementInductif ==
    ASSUME InvRecouvrement, [Next]_vars
    PROVE  InvRecouvrement'
<1>1. CASE UNCHANGED <<programme, varsRecouvrement>>
  <2>1. UNCHANGED <<programme, contexte, attendant, exec, restants, lancee, fds, fd_in, fd_out,
                    compteur5, imprimes, statut, exit_statut>>
    BY <1>1 DEF varsRecouvrement, varsDescripteurs, varsExec5, varsFin
  <2>2. CASE programme \notin ProgrammesRecouvrement
    BY <2>1, <2>2 DEF InvRecouvrement, ReposRecouvrement
  <2>3. CASE programme \in ProgrammesRecouvrement
    <3>1. Premiere' = Premiere /\ Essayes' = Essayes /\ Depart5' = Depart5 /\ TableExacte' = TableExacte
      BY <2>1 DEF Premiere, Essayes, Depart5, TableExacte
    <3>2. TypeRecouvrement' /\ Points'
      BY <2>1, <2>3, <3>1 DEF InvRecouvrement, TypeRecouvrement, Points, FinDuPere
    <3>3. Descripteurs'
      BY <2>1, <2>3, <3>1 DEF InvRecouvrement, Descripteurs, Numerotes, Redirige, Fichier, Base
    <3>4. Recherche'
      BY <2>1, <2>3, <3>1 DEF InvRecouvrement, Recherche
    <3>5. Compte5'
      BY <2>1, <2>3, <3>1 DEF InvRecouvrement, Compte5
    <3>6. QED
      BY <2>1, <2>3, <3>2, <3>3, <3>4, <3>5 DEF InvRecouvrement
  <2>4. QED
    BY <2>2, <2>3
<1>2. CASE /\ programme \in ProgrammesRecouvrement /\ (processusRecouvrement \/ Commande)
           /\ UNCHANGED programme
  <2>1. ToutRecouvrement
    BY <1>2 DEF InvRecouvrement, ToutRecouvrement
  <2>2. ToutRecouvrement'
    BY <1>2, <2>1, OuvrirEntreeInductif, CreerSortieInductif, DupliquerInductif, FermerInductif,
       ExecvpInductif, ExecAvecCheminInductif, Main5Inductif, AttenteInductif
       DEF processusRecouvrement
  <2>3. QED
    BY <1>2, <2>2 DEF InvRecouvrement, ToutRecouvrement
<1>3. QED
  BY <1>1, <1>2, PasRecouvrement

LEMMA RecouvrementInvariant == Spec => []InvRecouvrement
BY RecouvrementInitial, RecouvrementInductif, PTL DEF Spec

\* The command that runs is the first one of PATH, whatever PATH is, with the
\* table of descriptors that the redirections promise, whichever standard ones
\* were closed; exec5.c has output what it counted, nobody ends without its
\* command but with a failure, and who forks ends with the status of its command.
THEOREM CommandeLanceeToujours == Spec => []CommandeLancee
<1>1. InvRecouvrement => CommandeLancee
  <2>1. CASE programme \notin ProgrammesRecouvrement /\ InvRecouvrement
    <3>1. /\ exec = "fini" /\ attendant = "aucun" /\ fds = Ouverts({}) /\ fd_in = Rien
          /\ fd_out = Rien /\ compteur5 = 0 /\ statut = 1 /\ exit_statut = 0
          /\ programme # "exec5"
      BY <2>1 DEF InvRecouvrement, ReposRecouvrement, ProgrammesRecouvrement
    <3>2. TypeOKRecouvrement
      BY <3>1 DEF TypeOKRecouvrement, Ouverts, Rien
    <3>3. QED
      BY <3>1, <3>2 DEF CommandeLancee
  <2>2. CASE programme \in ProgrammesRecouvrement /\ InvRecouvrement
    <3>0. TypeRecouvrement /\ Points /\ Descripteurs /\ Compte5
      BY <2>2 DEF InvRecouvrement
    <3>1. TypeOKRecouvrement
      BY <3>0 DEF TypeRecouvrement, TypeOKRecouvrement
    <3>2. /\ exec = "commande" => lancee = Premiere /\ TableExacte
          /\ exec = "fini" /\ lancee = 0 => statut = 1
      BY <3>0 DEF Points, Descripteurs
    <3>3. ASSUME programme = "exec5", exec = "fini", contexte.terminal, contexte.chemin[1]
          PROVE  /\ statut = 1
                 /\ imprimes = [i \in 1 .. (IF Depart5 \in 1 .. 5 THEN Depart5 ELSE 0) |->
                                    5 - Depart5 + i]
      <4>1. statut = 1
        BY <3>0, <3>3 DEF Points
      <4>2. compteur5 \notin {Rien} \cup 1 .. 5
        BY <3>0, <3>3 DEF Compte5
      <4>3. Depart5 \in 0 .. 7
        BY <3>0 DEF TypeRecouvrement, Depart5, Rien
      <4>4. CASE Depart5 \in 1 .. 5
        <5>1. /\ compteur5 \in 0 .. Depart5
              /\ imprimes = [i \in 1 .. Depart5 - compteur5 |-> 5 - Depart5 + i]
          BY <3>0, <3>3, <4>2, <4>4 DEF Compte5
        <5>2. compteur5 = 0 /\ Depart5 - compteur5 = Depart5
          BY <4>2, <4>4, <5>1
        <5>3. QED
          BY <4>1, <4>4, <5>1, <5>2
      <4>5. CASE Depart5 \notin 1 .. 5
        <5>1. imprimes = <<>>
          BY <3>0, <3>3, <4>5 DEF Compte5
        <5>2. ASSUME NEW k \in Int, k = 0 PROVE [i \in 1 .. k |-> 5 - Depart5 + i] = <<>>
          BY <4>3, <5>2
        <5>3. QED
          BY <4>1, <4>5, <5>1, <5>2
      <4>6. QED
        BY <4>4, <4>5
    <3>4. attendant = "fini" => FinDuPere
      BY <3>0 DEF Points
    <3>5. QED
      BY <3>1, <3>2, <3>3, <3>4 DEF CommandeLancee, Depart5, FinDuPere
  <2>3. QED
    BY <2>1, <2>2
<1>2. QED
  BY <1>1, RecouvrementInvariant, PTL

-----------------------------------------------------------------------------
\* The path of the current directory: in a tree each directory has one path, at
\* most as long as there are directories, and a move changes the paths through
\* the directory that is moved and no other.

LEMMA CheminCommun ==
    ASSUME NEW ps \in [Dossiers -> Lieux], NEW d, NEW c \in Seq(Dossiers), NEW e \in Seq(Dossiers),
           EstChemin(ps, d, c), EstChemin(ps, d, e),
           NEW k \in Nat, k < Len(c), k < Len(e)
    PROVE  c[Len(c) - k] = e[Len(e) - k]
<1> DEFINE T == {m \in Nat : m < Len(c) /\ m < Len(e) /\ c[Len(c) - m] # e[Len(e) - m]}
<1>1. Len(c) \in Nat /\ Len(e) \in Nat /\ DOMAIN c = 1 .. Len(c) /\ DOMAIN e = 1 .. Len(e)
  BY LenProperties
<1>2. SUFFICES ASSUME T # {} PROVE FALSE
  OBVIOUS
<1>3. PICK m \in T : \A n \in T : m <= n
  <2>1. T \in SUBSET Nat
    OBVIOUS
  <2> HIDE DEF T
  <2>2. QED
    BY <1>2, <2>1, PlusPetit
<1>4. m \in Nat /\ m < Len(c) /\ m < Len(e) /\ c[Len(c) - m] # e[Len(e) - m]
  BY <1>3
<1>5. CASE m = 0
  <2>1. c # <<>> /\ e # <<>> /\ Len(c) - m = Len(c) /\ Len(e) - m = Len(e)
    BY <1>1, <1>4, <1>5
  <2>2. d = c[Len(c)] /\ d = e[Len(e)]
    BY <2>1 DEF EstChemin, Last
  <2>3. QED
    BY <1>4, <2>1, <2>2
<1>6. CASE m > 0
  <2>0. m - 1 \in Nat /\ m - 1 < Len(c) /\ m - 1 < Len(e) /\ ~(m <= m - 1)
    BY <1>1, <1>4, <1>6
  <2>1. m - 1 \notin T
    <3> HIDE DEF T
    <3> QED
      BY <1>3, <2>0
  <2>2. c[Len(c) - (m - 1)] = e[Len(e) - (m - 1)]
    BY <2>0, <2>1
  <2> DEFINE i == Len(c) - (m - 1)
             j == Len(e) - (m - 1)
  <2>3. i \in DOMAIN c /\ i # 1 /\ i - 1 = Len(c) - m /\ j \in DOMAIN e /\ j # 1 /\ j - 1 = Len(e) - m
    BY <1>1, <1>4, <1>6
  <2>4. ps[c[i]] = c[i - 1] /\ ps[e[j]] = e[j - 1]
    <3> HIDE DEF i, j
    <3> QED
      BY <2>3 DEF EstChemin
  <2>5. QED
    BY <1>4, <2>2, <2>3, <2>4
<1>7. QED
  BY <1>4, <1>5, <1>6

LEMMA PasPlusCourt ==
    ASSUME NEW ps \in [Dossiers -> Lieux], NEW d, NEW c \in Seq(Dossiers), NEW e \in Seq(Dossiers),
           EstChemin(ps, d, c), EstChemin(ps, d, e), Len(c) < Len(e)
    PROVE  FALSE
<1>1. Len(c) \in Nat /\ Len(e) \in Nat /\ DOMAIN c = 1 .. Len(c) /\ DOMAIN e = 1 .. Len(e)
  BY LenProperties
<1>2. RacineFS \notin Dossiers
  BY AbsoluAssumption DEF RacineFS
<1>3. CASE c = <<>>
  <2>1. e # <<>> /\ Len(e) \in DOMAIN e /\ d = RacineFS
    BY <1>1, <1>3 DEF EstChemin
  <2>2. d = e[Len(e)] /\ e[Len(e)] \in Dossiers
    BY <1>1, <2>1, ElementOfSeq DEF EstChemin, Last
  <2>3. QED
    BY <1>2, <2>1, <2>2
<1>4. CASE c # <<>>
  <2> DEFINE k == Len(c) - 1
             j == Len(e) - k
  <2>1. k \in Nat /\ k < Len(c) /\ k < Len(e) /\ Len(c) - k = 1 /\ 1 \in DOMAIN c
    BY <1>1, <1>4
  <2>2. j \in DOMAIN e /\ j # 1 /\ j - 1 \in 1 .. Len(e)
    BY <1>1, <2>1
  <2>3. c[1] = e[j]
    <3>1. c[Len(c) - k] = e[Len(e) - k]
      BY <2>1, CheminCommun
    <3> QED
      BY <2>1, <3>1
  <2> HIDE DEF j
  <2>4. ps[c[1]] = RacineFS /\ ps[e[j]] = e[j - 1]
    BY <2>1, <2>2 DEF EstChemin
  <2>5. e[j - 1] \in Dossiers
    BY <2>2, ElementOfSeq
  <2>6. QED
    BY <1>2, <2>3, <2>4, <2>5
<1>5. QED
  BY <1>3, <1>4

LEMMA CheminUnique ==
    ASSUME NEW ps \in [Dossiers -> Lieux], NEW d, NEW c \in Seq(Dossiers), NEW e \in Seq(Dossiers),
           EstChemin(ps, d, c), EstChemin(ps, d, e)
    PROVE  c = e
<1>1. Len(c) \in Nat /\ Len(e) \in Nat /\ DOMAIN c = 1 .. Len(c) /\ DOMAIN e = 1 .. Len(e)
  BY LenProperties
<1>2. Len(c) = Len(e)
  <2>1. Len(c) >= Len(e)
    BY <1>1, PasPlusCourt
  <2>2. Len(e) >= Len(c)
    BY <1>1, PasPlusCourt
  <2>3. \A a, b \in Nat : a >= b /\ b >= a => a = b
    OBVIOUS
  <2>4. QED
    BY <1>1, <2>1, <2>2, <2>3
<1>3. ASSUME NEW i \in 1 .. Len(c) PROVE c[i] = e[i]
  <2>1. Len(c) - i \in Nat /\ Len(c) - i < Len(c) /\ Len(c) - (Len(c) - i) = i
    BY <1>1, <1>3
  <2>2. c[Len(c) - (Len(c) - i)] = e[Len(e) - (Len(c) - i)]
    BY <1>2, <2>1, CheminCommun
  <2>3. QED
    BY <1>2, <2>1, <2>2
<1>4. QED
  BY <1>2, <1>3, SeqEqual

\* A path goes through no directory twice, and so it is not longer than there
\* are directories.
LEMMA CheminCourt ==
    ASSUME NEW ps \in [Dossiers -> Lieux], NEW d, NEW c \in Seq(Dossiers), EstChemin(ps, d, c)
    PROVE  /\ \A i, j \in 1 .. Len(c) : c[i] = c[j] => i = j
           /\ Len(c) <= Cardinality(Dossiers)
           /\ c \in Parcours
<1>1. Len(c) \in Nat /\ DOMAIN c = 1 .. Len(c) /\ c \in [1 .. Len(c) -> Dossiers]
  BY LenProperties
<1> DEFINE Portion(i) == [k \in 1 .. i |-> c[k]]
<1>2. ASSUME NEW i \in 1 .. Len(c)
      PROVE  Portion(i) \in Seq(Dossiers) /\ Len(Portion(i)) = i /\ EstChemin(ps, c[i], Portion(i))
  <2>1. i \in Nat /\ i # 0 /\ \A k \in 1 .. i : k \in DOMAIN c /\ c[k] \in Dossiers
                                               /\ (k # 1 => k - 1 \in 1 .. i)
    BY <1>1, <1>2
  <2>2. Portion(i) \in Seq(Dossiers) /\ Len(Portion(i)) = i /\ DOMAIN Portion(i) = 1 .. i
    BY <2>1
  <2>3. Portion(i) # <<>> /\ Portion(i)[i] = c[i]
    BY <2>1, <2>2
  <2>4. \A k \in 1 .. i : ps[c[k]] = IF k = 1 THEN RacineFS ELSE c[k - 1]
    BY <2>1 DEF EstChemin
  <2>5. \A k \in 1 .. i : ps[Portion(i)[k]] = IF k = 1 THEN RacineFS ELSE Portion(i)[k - 1]
    BY <2>1, <2>4
  <2> HIDE DEF Portion
  <2>6. QED
    BY <2>2, <2>3, <2>5 DEF EstChemin, Last
<1>3. ASSUME NEW i \in 1 .. Len(c), NEW j \in 1 .. Len(c), c[i] = c[j] PROVE i = j
  <2>1. /\ Portion(i) \in Seq(Dossiers) /\ Len(Portion(i)) = i /\ EstChemin(ps, c[i], Portion(i))
        /\ Portion(j) \in Seq(Dossiers) /\ Len(Portion(j)) = j /\ EstChemin(ps, c[i], Portion(j))
    <3> HIDE DEF Portion
    <3> QED
      BY <1>2, <1>3
  <2> HIDE DEF Portion
  <2>2. Portion(i) = Portion(j)
    BY <2>1, CheminUnique
  <2>3. QED
    BY <2>1, <2>2
<1>4. Len(c) <= Cardinality(Dossiers)
  <2>1. c \in Injection(1 .. Len(c), Dossiers)
    BY <1>1, <1>3 DEF Injection, IsInjective
  <2>2. Cardinality(1 .. Len(c)) <= Cardinality(Dossiers)
    BY <2>1, AbsoluAssumption, FS_Injection
  <2>3. Cardinality(1 .. Len(c)) = Len(c)
    BY <1>1, FS_Interval
  <2>4. QED
    BY <2>2, <2>3
<1>5. c \in Parcours
  <2>1. Cardinality(Dossiers) \in Nat
    BY AbsoluAssumption, FS_CardinalityType
  <2>2. QED
    BY <1>1, <1>4, <2>1 DEF Parcours, SeqOf
<1>6. QED
  BY <1>3, <1>4, <1>5

LEMMA CheminDe ==
    ASSUME NEW ps \in [Dossiers -> Lieux], NEW d, NEW c \in Seq(Dossiers), EstChemin(ps, d, c)
    PROVE  Chemin(ps, d) = c
<1>1. c \in Parcours
  BY CheminCourt
<1>2. Chemin(ps, d) \in Parcours /\ EstChemin(ps, d, Chemin(ps, d))
  BY <1>1 DEF Chemin
<1>3. Chemin(ps, d) \in Seq(Dossiers)
  <2>1. Cardinality(Dossiers) \in Nat
    BY AbsoluAssumption, FS_CardinalityType
  <2>2. QED
    BY <1>2, <2>1 DEF Parcours, SeqOf
<1>4. QED
  BY <1>2, <1>3, CheminUnique

LEMMA CheminExiste ==
    ASSUME NEW ps \in [Dossiers -> Lieux], Arbre(ps), NEW d \in Lieux
    PROVE  Chemin(ps, d) \in Seq(Dossiers) /\ EstChemin(ps, d, Chemin(ps, d))
<1>1. Cardinality(Dossiers) \in Nat
  BY AbsoluAssumption, FS_CardinalityType
<1>2. PICK c \in Parcours : EstChemin(ps, d, c)
  <2>1. CASE d = RacineFS
    <3>1. <<>> \in Parcours
      BY <1>1 DEF Parcours, SeqOf
    <3>2. EstChemin(ps, d, <<>>)
      BY <2>1 DEF EstChemin
    <3>3. QED
      BY <3>1, <3>2
  <2>2. CASE d \in Dossiers
    BY <2>2 DEF Arbre
  <2>3. QED
    BY <2>1, <2>2 DEF Lieux
<1>3. c \in Seq(Dossiers)
  BY <1>1, <1>2 DEF Parcours, SeqOf
<1>4. QED
  BY <1>2, <1>3, CheminDe

LEMMA CheminProlonge ==
    ASSUME NEW ps \in [Dossiers -> Lieux], NEW d \in Dossiers, NEW c \in Seq(Dossiers),
           EstChemin(ps, ps[d], c)
    PROVE  EstChemin(ps, d, Append(c, d)) /\ Append(c, d) \in Seq(Dossiers)
<1> DEFINE e == Append(c, d)
<1>1. /\ Len(c) \in Nat /\ DOMAIN c = 1 .. Len(c)
      /\ e \in Seq(Dossiers) /\ Len(e) = Len(c) + 1 /\ DOMAIN e = 1 .. Len(c) + 1
      /\ e[Len(c) + 1] = d /\ \A k \in 1 .. Len(c) : e[k] = c[k]
  BY LenProperties, AppendProperties
<1> HIDE DEF e
<1>2. e # <<>> /\ Last(e) = d
  BY <1>1 DEF Last
<1>3. ASSUME NEW k \in 1 .. Len(c) PROVE ps[e[k]] = IF k = 1 THEN RacineFS ELSE e[k - 1]
  <2>1. ps[c[k]] = IF k = 1 THEN RacineFS ELSE c[k - 1]
    BY <1>1 DEF EstChemin
  <2>2. e[k] = c[k] /\ (k # 1 => k - 1 \in 1 .. Len(c))
    BY <1>1
  <2>3. QED
    BY <1>1, <2>1, <2>2
<1>4. ps[d] = IF Len(c) + 1 = 1 THEN RacineFS ELSE e[Len(c)]
  <2>1. CASE c = <<>>
    <3>1. Len(c) = 0
      BY <2>1
    <3> QED
      BY <2>1, <3>1 DEF EstChemin
  <2>2. CASE c # <<>>
    <3>1. Len(c) \in 1 .. Len(c)
      BY <1>1, <2>2
    <3> QED
      BY <1>1, <2>2, <3>1 DEF EstChemin, Last
  <2>3. QED
    BY <2>1, <2>2
<1>5. ASSUME NEW k \in DOMAIN e PROVE ps[e[k]] = IF k = 1 THEN RacineFS ELSE e[k - 1]
  <2>1. CASE k = Len(c) + 1
    <3>1. k - 1 = Len(c) /\ e[k] = d
      BY <1>1, <2>1
    <3> QED
      BY <1>4, <2>1, <3>1
  <2>2. CASE k # Len(c) + 1
    <3>1. k \in 1 .. Len(c)
      BY <1>1, <2>2
    <3> QED
      BY <1>3, <3>1
  <2>3. QED
    BY <2>1, <2>2
<1>6. EstChemin(ps, d, e)
  BY <1>2, <1>5 DEF EstChemin
<1>7. QED
  BY <1>1, <1>6 DEF e

LEMMA CheminPas ==
    ASSUME NEW ps \in [Dossiers -> Lieux], Arbre(ps), NEW d \in Dossiers
    PROVE  /\ Chemin(ps, d) = Append(Chemin(ps, ps[d]), d)
           /\ Len(Chemin(ps, d)) = Len(Chemin(ps, ps[d])) + 1
           /\ Chemin(ps, ps[d]) \in Seq(Dossiers)
<1>1. Chemin(ps, ps[d]) \in Seq(Dossiers) /\ EstChemin(ps, ps[d], Chemin(ps, ps[d]))
  BY CheminExiste
<1>2. Chemin(ps, d) = Append(Chemin(ps, ps[d]), d)
  BY <1>1, CheminProlonge, CheminDe
<1>3. QED
  BY <1>1, <1>2, AppendProperties

LEMMA CheminRacine ==
    ASSUME NEW ps \in [Dossiers -> Lieux]
    PROVE  Chemin(ps, RacineFS) = <<>>
<1>1. EstChemin(ps, RacineFS, <<>>) /\ <<>> \in Seq(Dossiers)
  BY DEF EstChemin
<1>2. QED
  BY <1>1, CheminDe

\* The end s of a path from h on is the end of another path if h has one and the
\* directories of s are where they were.
LEMMA Greffe ==
    ASSUME NEW ps \in [Dossiers -> Lieux], NEW qs \in [Dossiers -> Lieux], NEW x, NEW h,
           NEW c \in Seq(Dossiers), NEW e \in Seq(Dossiers), NEW s \in Seq(Dossiers),
           EstChemin(ps, h, c), EstChemin(ps, x, c \o s), EstChemin(qs, h, e),
           \A k \in DOMAIN s : qs[s[k]] = ps[s[k]]
    PROVE  EstChemin(qs, x, e \o s)
<1> DEFINE a == c \o s
           b == e \o s
<1>1. /\ Len(c) \in Nat /\ DOMAIN c = 1 .. Len(c) /\ Len(e) \in Nat /\ DOMAIN e = 1 .. Len(e)
      /\ Len(s) \in Nat /\ DOMAIN s = 1 .. Len(s)
      /\ a \in Seq(Dossiers) /\ Len(a) = Len(c) + Len(s) /\ DOMAIN a = 1 .. Len(c) + Len(s)
      /\ b \in Seq(Dossiers) /\ Len(b) = Len(e) + Len(s) /\ DOMAIN b = 1 .. Len(e) + Len(s)
  BY LenProperties
<1>2. \A k \in 1 .. Len(e) : b[k] = e[k]
  BY <1>1
<1>3. \A k \in 1 .. Len(s) : b[Len(e) + k] = s[k] /\ a[Len(c) + k] = s[k]
  BY <1>1
<1>4. \A k \in 1 .. Len(c) : a[k] = c[k]
  BY <1>1
<1>5. EstChemin(ps, x, a)
  OBVIOUS
<1> HIDE DEF a, b
<1>6. x = IF b = <<>> THEN RacineFS ELSE Last(b)
  <2>1. CASE Len(s) = 0
    <3>1. s = <<>>
      BY <1>1, <2>1
    <3>2. a = c /\ b = e
      BY <3>1 DEF a, b
    <3> QED
      BY <1>5, <3>2 DEF EstChemin
  <2>2. CASE Len(s) # 0
    <3>1. a # <<>> /\ b # <<>> /\ Len(s) \in 1 .. Len(s)
      BY <1>1, <2>2
    <3>2. a[Len(c) + Len(s)] = b[Len(e) + Len(s)]
      BY <1>3, <3>1
    <3>3. a[Len(a)] = b[Len(b)]
      BY <1>1, <3>2
    <3> QED
      BY <1>5, <3>1, <3>3 DEF EstChemin, Last
  <2>3. QED
    BY <2>1, <2>2
<1>7. ASSUME NEW k \in 1 .. Len(e) PROVE qs[b[k]] = IF k = 1 THEN RacineFS ELSE b[k - 1]
  <2>1. qs[e[k]] = IF k = 1 THEN RacineFS ELSE e[k - 1]
    BY <1>1 DEF EstChemin
  <2>2. k # 1 => k - 1 \in 1 .. Len(e)
    BY <1>1
  <2>3. QED
    BY <1>2, <2>1, <2>2
<1>8. ASSUME NEW k \in 1 .. Len(s), k # 1
      PROVE  qs[b[Len(e) + k]] = IF Len(e) + k = 1 THEN RacineFS ELSE b[Len(e) + k - 1]
  <2>1. k - 1 \in 1 .. Len(s) /\ Len(e) + k # 1 /\ Len(e) + k - 1 = Len(e) + (k - 1)
        /\ Len(c) + k \in DOMAIN a /\ Len(c) + k # 1 /\ Len(c) + k - 1 = Len(c) + (k - 1)
    BY <1>1, <1>8
  <2>2. ps[a[Len(c) + k]] = a[Len(c) + k - 1]
    BY <1>5, <2>1 DEF EstChemin
  <2>3. a[Len(c) + k] = s[k] /\ a[Len(c) + (k - 1)] = s[k - 1]
        /\ b[Len(e) + k] = s[k] /\ b[Len(e) + (k - 1)] = s[k - 1]
    BY <1>3, <2>1
  <2>4. qs[s[k]] = ps[s[k]]
    BY <1>1
  <2>5. QED
    BY <2>1, <2>2, <2>3, <2>4
<1>9. ASSUME 1 \in 1 .. Len(s)
      PROVE  qs[b[Len(e) + 1]] = IF Len(e) + 1 = 1 THEN RacineFS ELSE b[Len(e)]
  <2>1. b[Len(e) + 1] = s[1] /\ a[Len(c) + 1] = s[1] /\ qs[s[1]] = ps[s[1]]
    BY <1>1, <1>3, <1>9
  <2>2. ps[a[Len(c) + 1]] = h
    <3>1. Len(c) + 1 \in DOMAIN a /\ Len(c) + 1 - 1 = Len(c)
      BY <1>1, <1>9
    <3>2. ps[a[Len(c) + 1]] = IF Len(c) + 1 = 1 THEN RacineFS ELSE a[Len(c)]
      BY <1>5, <3>1 DEF EstChemin
    <3>3. CASE c = <<>>
      <4>1. Len(c) + 1 = 1 /\ h = RacineFS
        BY <3>3 DEF EstChemin
      <4> QED
        BY <3>2, <4>1
    <3>4. CASE c # <<>>
      <4>1. Len(c) + 1 # 1 /\ Len(c) \in 1 .. Len(c) /\ h = c[Len(c)]
        BY <1>1, <3>4 DEF EstChemin, Last
      <4> QED
        BY <1>4, <3>2, <4>1
    <3>5. QED
      BY <3>3, <3>4
  <2>3. CASE e = <<>>
    <3>1. Len(e) + 1 = 1 /\ h = RacineFS
      BY <2>3 DEF EstChemin
    <3> QED
      BY <2>1, <2>2, <3>1
  <2>4. CASE e # <<>>
    <3>1. Len(e) + 1 # 1 /\ Len(e) \in 1 .. Len(e) /\ h = e[Len(e)]
      BY <1>1, <2>4 DEF EstChemin, Last
    <3> QED
      BY <1>2, <2>1, <2>2, <3>1
  <2>5. QED
    BY <2>3, <2>4
<1>10. ASSUME NEW k \in DOMAIN b PROVE qs[b[k]] = IF k = 1 THEN RacineFS ELSE b[k - 1]
  <2>1. CASE k <= Len(e)
    <3>1. k \in 1 .. Len(e)
      BY <1>1, <2>1
    <3> QED
      BY <1>7, <3>1
  <2>2. CASE k = Len(e) + 1
    <3>1. 1 \in 1 .. Len(s) /\ k - 1 = Len(e)
      BY <1>1, <2>2
    <3> QED
      BY <1>9, <2>2, <3>1
  <2>3. CASE k > Len(e) + 1
    <3>1. \A n, l, m \in Nat : n > l + 1 /\ n <= l + m =>
              \E j \in 1 .. m : j # 1 /\ n = l + j
      <4> TAKE n, l, m \in Nat
      <4> HAVE n > l + 1 /\ n <= l + m
      <4>1. n - l \in 1 .. m /\ n - l # 1 /\ n = l + (n - l)
        OBVIOUS
      <4> QED
        BY <4>1
    <3>2. k \in 1 .. Len(e) + Len(s) /\ Len(e) \in Nat /\ Len(s) \in Nat
      BY <1>1
    <3>3. k \in Nat /\ k <= Len(e) + Len(s)
      BY <3>2
    <3>4. PICK j \in 1 .. Len(s) : j # 1 /\ k = Len(e) + j
      BY <2>3, <3>1, <3>2, <3>3
    <3>5. qs[b[Len(e) + j]] = IF Len(e) + j = 1 THEN RacineFS ELSE b[Len(e) + j - 1]
      BY <1>8, <3>4
    <3>6. QED
      BY <3>4, <3>5
  <2>4. QED
    BY <1>1, <2>1, <2>2, <2>3
<1>11. EstChemin(qs, x, b)
  BY <1>6, <1>10 DEF EstChemin
<1>12. QED
  BY <1>11 DEF b

\* The paths after a move of d, which is not on the path of the place it goes to.
LEMMA CheminAilleurs ==
    ASSUME NEW ps \in [Dossiers -> Lieux], NEW d \in Dossiers, NEW vers \in Lieux, NEW x,
           NEW c \in Seq(Dossiers), EstChemin(ps, x, c), d \notin ToSet(c)
    PROVE  EstChemin([ps EXCEPT ![d] = vers], x, c)
<1>1. \A k \in DOMAIN c : c[k] \in Dossiers /\ c[k] # d
  BY ElementOfSeq, LenProperties DEF ToSet
<1>2. QED
  BY <1>1 DEF EstChemin

LEMMA CheminCoupe ==
    ASSUME NEW ps \in [Dossiers -> Lieux], Arbre(ps), NEW x \in Lieux,
           NEW d \in ToSet(Chemin(ps, x))
    PROVE  \E s \in Seq(Dossiers) : Chemin(ps, x) = Chemin(ps, d) \o s /\ d \notin ToSet(s)
<1> DEFINE c == Chemin(ps, x)
<1>1. c \in Seq(Dossiers) /\ EstChemin(ps, x, c)
  BY CheminExiste
<1>2. d \in ToSet(c)
  OBVIOUS
<1> HIDE DEF c
<1>3. /\ Len(c) \in Nat /\ DOMAIN c = 1 .. Len(c) /\ \A k \in 1 .. Len(c) : c[k] \in Dossiers
      /\ \A i, j \in 1 .. Len(c) : c[i] = c[j] => i = j
  BY <1>1, LenProperties, ElementOfSeq, CheminCourt
<1>4. PICK m \in 1 .. Len(c) : c[m] = d
  BY <1>2, <1>3 DEF ToSet
<1> DEFINE a == [k \in 1 .. m |-> c[k]]
           s == [k \in 1 .. Len(c) - m |-> c[m + k]]
<1>5. /\ m \in Nat /\ m # 0 /\ Len(c) - m \in Nat
      /\ \A k \in 1 .. m : k \in 1 .. Len(c) /\ (k # 1 => k - 1 \in 1 .. m)
      /\ \A k \in 1 .. Len(c) - m : m + k \in 1 .. Len(c) /\ m + k # m
  BY <1>3
<1>6. /\ a \in Seq(Dossiers) /\ Len(a) = m /\ DOMAIN a = 1 .. m
      /\ s \in Seq(Dossiers) /\ Len(s) = Len(c) - m /\ DOMAIN s = 1 .. Len(c) - m
  BY <1>3, <1>5
<1>7. EstChemin(ps, d, a)
  <2>1. a # <<>> /\ a[m] = d
    BY <1>4, <1>5, <1>6
  <2>2. \A k \in 1 .. m : ps[c[k]] = IF k = 1 THEN RacineFS ELSE c[k - 1]
    BY <1>1, <1>3, <1>5 DEF EstChemin
  <2>3. \A k \in 1 .. m : ps[a[k]] = IF k = 1 THEN RacineFS ELSE a[k - 1]
    BY <1>5, <2>2
  <2>4. DOMAIN a = 1 .. m /\ Len(a) = m
    BY <1>6
  <2> HIDE DEF a
  <2>5. QED
    BY <2>1, <2>3, <2>4 DEF EstChemin, Last
<1>8. Chemin(ps, d) = a
  <2> HIDE DEF a
  <2> QED
    BY <1>6, <1>7, CheminDe
<1>9. c = a \o s
  <2>1. a \o s \in Seq(Dossiers) /\ Len(a \o s) = Len(c)
    <3>1. Len(a) + Len(s) = Len(c)
      BY <1>3, <1>5, <1>6
    <3>2. a \in Seq(Dossiers) /\ s \in Seq(Dossiers)
      BY <1>6
    <3> HIDE DEF a, s
    <3> QED
      BY <3>1, <3>2
  <2>2. ASSUME NEW k \in 1 .. Len(c) PROVE c[k] = (a \o s)[k]
    <3>1. CASE k <= m
      <4>1. k \in 1 .. Len(a) /\ a[k] = c[k]
        BY <1>5, <1>6, <3>1
      <4>2. a \in Seq(Dossiers) /\ s \in Seq(Dossiers)
        BY <1>6
      <4> HIDE DEF a, s
      <4>3. (a \o s)[k] = a[k]
        BY <4>1, <4>2
      <4> QED
        BY <4>1, <4>3
    <3>2. CASE k > m
      <4>1. k - m \in 1 .. Len(c) - m /\ m + (k - m) = k
        BY <1>3, <1>5, <3>2
      <4>2. s[k - m] = c[k] /\ a \in Seq(Dossiers) /\ s \in Seq(Dossiers)
            /\ Len(a) = m /\ Len(s) = Len(c) - m
        BY <1>6, <4>1
      <4> HIDE DEF a, s
      <4>3. (a \o s)[k] = s[k - m]
        BY <1>3, <1>5, <3>2, <4>1, <4>2
      <4> QED
        BY <4>2, <4>3
    <3>3. QED
      BY <1>3, <1>5, <3>1, <3>2
  <2>3. QED
    <3> HIDE DEF a, s
    <3> QED
      BY <1>1, <2>1, <2>2, SeqEqual
<1>10. d \notin ToSet(s)
  <2>1. ASSUME NEW k \in 1 .. Len(c) - m PROVE c[m + k] # d
    BY <1>3, <1>4, <1>5
  <2>2. QED
    BY <1>6, <2>1 DEF ToSet
<1>11. QED
  <2> HIDE DEF a, s
  <2> QED
    BY <1>6, <1>8, <1>9, <1>10 DEF c

LEMMA CheminDeplace ==
    ASSUME NEW ps \in [Dossiers -> Lieux], Arbre(ps), NEW d \in Dossiers, NEW vers \in Lieux,
           d \notin ToSet(Chemin(ps, vers)), NEW qs, qs = [ps EXCEPT ![d] = vers]
    PROVE  /\ qs \in [Dossiers -> Lieux]
           /\ Append(Chemin(ps, vers), d) \in Seq(Dossiers)
           /\ EstChemin(qs, d, Append(Chemin(ps, vers), d))
<1>1. qs \in [Dossiers -> Lieux] /\ qs[d] = vers
  OBVIOUS
<1>2. Chemin(ps, vers) \in Seq(Dossiers) /\ EstChemin(ps, vers, Chemin(ps, vers))
  BY CheminExiste
<1>3. EstChemin(qs, vers, Chemin(ps, vers))
  BY <1>2, CheminAilleurs
<1>4. QED
  BY <1>1, <1>2, <1>3, CheminProlonge

\* A move keeps the tree a tree: what was under d is grafted with it.
LEMMA ArbreDeplace ==
    ASSUME NEW ps \in [Dossiers -> Lieux], Arbre(ps), NEW d \in Dossiers, NEW vers \in Lieux,
           d \notin ToSet(Chemin(ps, vers)), NEW qs, qs = [ps EXCEPT ![d] = vers]
    PROVE  Arbre(qs)
<1>1. qs \in [Dossiers -> Lieux]
  BY CheminDeplace
<1>2. ASSUME NEW x \in Dossiers PROVE \E c \in Seq(Dossiers) : EstChemin(qs, x, c)
  <2>0. x \in Lieux /\ d \in Lieux
    BY DEF Lieux
  <2>1. Chemin(ps, x) \in Seq(Dossiers) /\ EstChemin(ps, x, Chemin(ps, x))
    BY <2>0, CheminExiste
  <2>2. CASE d \notin ToSet(Chemin(ps, x))
    BY <2>1, <2>2, CheminAilleurs
  <2>3. CASE d \in ToSet(Chemin(ps, x))
    <3>1. PICK s \in Seq(Dossiers) : Chemin(ps, x) = Chemin(ps, d) \o s /\ d \notin ToSet(s)
      BY <2>0, <2>3, CheminCoupe
    <3>2. Chemin(ps, d) \in Seq(Dossiers) /\ EstChemin(ps, d, Chemin(ps, d))
      BY <2>0, CheminExiste
    <3>3. \A k \in DOMAIN s : qs[s[k]] = ps[s[k]]
      BY <3>1, ElementOfSeq, LenProperties DEF ToSet
    <3>4. Append(Chemin(ps, vers), d) \in Seq(Dossiers) /\ EstChemin(qs, d, Append(Chemin(ps, vers), d))
      BY CheminDeplace
    <3>5. EstChemin(ps, x, Chemin(ps, d) \o s)
      BY <2>1, <3>1
    <3>6. EstChemin(qs, x, Append(Chemin(ps, vers), d) \o s)
      BY <1>1, <3>2, <3>3, <3>4, <3>5, Greffe
    <3>7. Append(Chemin(ps, vers), d) \o s \in Seq(Dossiers)
      BY <3>4
    <3>8. QED
      BY <3>6, <3>7
  <2>4. QED
    BY <2>2, <2>3
<1>3. QED
  BY <1>1, <1>2, CheminCourt DEF Arbre

\* What a climb that has come from x to h will find when d is moved meanwhile is
\* the path x had before the move, or the one it has after it.
LEMMA CheminMele ==
    ASSUME NEW ps \in [Dossiers -> Lieux], Arbre(ps), NEW d \in Dossiers, NEW vers \in Lieux,
           d \notin ToSet(Chemin(ps, vers)), NEW qs, qs = [ps EXCEPT ![d] = vers],
           NEW x \in Lieux, NEW h \in Lieux, NEW s \in Seq(Dossiers),
           Chemin(ps, x) = Chemin(ps, h) \o s
    PROVE  Chemin(qs, h) \o s \in {Chemin(ps, x), Chemin(qs, x)}
<1>1. qs \in [Dossiers -> Lieux] /\ Arbre(qs)
  BY CheminDeplace, ArbreDeplace
<1>2. /\ Chemin(ps, h) \in Seq(Dossiers) /\ EstChemin(ps, h, Chemin(ps, h))
      /\ Chemin(qs, h) \in Seq(Dossiers) /\ EstChemin(qs, h, Chemin(qs, h))
      /\ Chemin(ps, x) \in Seq(Dossiers) /\ EstChemin(ps, x, Chemin(ps, x))
  BY <1>1, CheminExiste
<1>3. CASE d \notin ToSet(Chemin(ps, h))
  <2>1. EstChemin(qs, h, Chemin(ps, h))
    BY <1>2, <1>3, CheminAilleurs
  <2>2. Chemin(qs, h) = Chemin(ps, h)
    BY <1>1, <1>2, <2>1, CheminDe
  <2>3. QED
    BY <2>2
<1>4. CASE d \in ToSet(Chemin(ps, h))
  <2> DEFINE c == Chemin(ps, h)
  <2>1. PICK m \in DOMAIN c : c[m] = d
    BY <1>4 DEF ToSet
  <2>2. /\ Len(c) \in Nat /\ DOMAIN c = 1 .. Len(c) /\ Len(s) \in Nat /\ DOMAIN s = 1 .. Len(s)
        /\ c \in Seq(Dossiers)
    BY <1>2, LenProperties
  <2>3. \A i, j \in 1 .. Len(c \o s) : (c \o s)[i] = (c \o s)[j] => i = j
    BY <1>2, CheminCourt
  <2>4. EstChemin(ps, h, c) /\ EstChemin(ps, x, c \o s)
    BY <1>2
  <2>5. Chemin(qs, h) \in Seq(Dossiers) /\ EstChemin(qs, h, Chemin(qs, h))
    BY <1>2
  <2> HIDE DEF c
  <2>6. ASSUME NEW k \in DOMAIN s PROVE qs[s[k]] = ps[s[k]]
    <3>1. /\ Len(c) + k \in 1 .. Len(c \o s) /\ m \in 1 .. Len(c \o s) /\ Len(c) + k # m
          /\ (c \o s)[m] = c[m] /\ (c \o s)[Len(c) + k] = s[k]
      BY <2>2
    <3>2. s[k] # d
      BY <2>1, <2>3, <3>1
    <3>3. s[k] \in Dossiers
      BY <2>2, ElementOfSeq
    <3>4. QED
      BY <3>2, <3>3
  <2>7. EstChemin(qs, x, Chemin(qs, h) \o s)
    BY <1>1, <2>2, <2>4, <2>5, <2>6, Greffe
  <2>8. Chemin(qs, h) \o s \in Seq(Dossiers)
    BY <2>5
  <2>9. Chemin(qs, x) = Chemin(qs, h) \o s
    BY <1>1, <2>7, <2>8, CheminDe
  <2>10. QED
    BY <2>9
<1>5. QED
  BY <1>3, <1>4

\* The climb.  Avant is the directory that comes before the path found so far:
\* what is still missing is its path.
Avant == IF pas = "fstat" THEN parent ELSE courant

TypeAbsolu ==
    /\ programme \in ProgrammesAbsolu
    /\ parents \in [Dossiers -> Lieux] /\ Arbre(parents)
    /\ {ici, courant, parent} \subseteq Lieux
    /\ pas \in {"openat", "readdir", "fstat", "fini", "erreur"}
    /\ montes \subseteq Dossiers /\ deplacements \in Nat
    /\ montes # {} => deplacements = 0

DepuisRacine ==
    /\ courant = RacineFS /\ pas # "erreur"
    /\ pas # "openat" => parent = RacineFS
    /\ IF pas \in {"openat", "readdir"} THEN chemin = <<>> ELSE chemin \in {<<".">>, <<"..">>}

\* As long as the directories stay where they are; and after one move, when what was
\* found and what is missing still make a path that has been.
SansDeplacement ==
    /\ Chemin(parents, ici) = Chemin(parents, Avant) \o chemin
    /\ Chemin(parents, ici) \in vus
    /\ pas = "readdir" => parents[courant] = parent
    /\ pas # "erreur"

UnDeplacement ==
    pas # "erreur" =>
        /\ chemin \in Seq(Dossiers)
        /\ pas \in {"openat", "readdir"} => courant # RacineFS
        /\ pas = "readdir" => courant # parent /\ (parent # RacineFS => parents[parent] # courant)
        /\ pas = "fini" => courant = RacineFS
        /\ Chemin(parents, Avant) \o chemin \in vus

InvAbsolu ==
    IF programme \in ProgrammesAbsolu
    THEN /\ TypeAbsolu
         /\ ici = RacineFS => DepuisRacine
         /\ ici # RacineFS /\ montes \cap ToSet(Chemin(parents, ici)) = {} =>
                /\ deplacements = 0 => SansDeplacement
                /\ deplacements <= 1 => UnDeplacement
    ELSE ReposAbsolu

LEMMA AbsoluInitial ==
    ASSUME Init
    PROVE  InvAbsolu
<1>1. CASE programme \notin ProgrammesAbsolu
  BY <1>1 DEF Init, InvAbsolu
<1>2. CASE programme \in ProgrammesAbsolu
  <2>1. InitAbsolu
    BY <1>2 DEF Init
  <2>2. TypeAbsolu
    <3>1. montes \subseteq Dossiers /\ deplacements \in Nat /\ deplacements = 0
      BY <2>1 DEF InitAbsolu
    <3>2. QED
      BY <1>2, <2>1, <3>1 DEF InitAbsolu, TypeAbsolu
  <2>3. ici = RacineFS => DepuisRacine
    BY <2>1 DEF InitAbsolu, DepuisRacine
  <2>4. ASSUME ici # RacineFS PROVE SansDeplacement /\ UnDeplacement
    <3>1. Chemin(parents, ici) \in Seq(Dossiers)
      BY <2>2, CheminExiste DEF TypeAbsolu
    <3>2. Avant = ici /\ chemin = <<>> /\ pas = "openat" /\ courant = ici
          /\ vus = {Chemin(parents, ici)}
      BY <2>1 DEF InitAbsolu, Avant
    <3>3. Chemin(parents, ici) \o <<>> = Chemin(parents, ici)
      BY <3>1
    <3>4. QED
      BY <2>4, <3>2, <3>3 DEF SansDeplacement, UnDeplacement
  <2>5. QED
    BY <1>2, <2>2, <2>3, <2>4 DEF InvAbsolu
<1>3. QED
  BY <1>1, <1>2

\* The inodes: only the root and the mount points do not have their own.
LEMMA InodePropre ==
    ASSUME NEW d \in Lieux, montes \subseteq Dossiers
    PROVE  /\ d \in Dossiers /\ d \notin montes => inode(d) = <<1, d>> /\ inode(d) # InodeRacine
           /\ d = RacineFS => inode(d) = InodeRacine
<1>1. RacineFS \notin Dossiers
  BY AbsoluAssumption DEF RacineFS
<1>2. <<1, d>> # <<2>>
  OBVIOUS
<1>3. QED
  BY <1>1, <1>2 DEF inode, InodeRacine, Lieux

\* What a look in the parent finds, unless a mount point or a directory that is
\* moved under the one it has come from misleads it.
LEMMA EntreeTrouvee ==
    ASSUME montes \subseteq Dossiers, parents \in [Dossiers -> Lieux],
           courant \in Dossiers, courant \notin montes, parent \in Lieux, parent \notin montes,
           parent # courant, parent # RacineFS => parents[parent] \notin montes,
           parent # RacineFS => parents[parent] # courant,
           NEW e \in Entrees(parent), d_ino(parent, e) = inode(courant)
    PROVE  e = courant /\ parents[courant] = parent
<1>1. /\ RacineFS \notin Dossiers /\ "." \notin Dossiers /\ ".." \notin Dossiers /\ "." # ".."
      /\ inode(courant) = <<1, courant>> /\ inode(courant) # InodeRacine
  BY AbsoluAssumption, InodePropre DEF RacineFS, Lieux
<1>2. ASSUME NEW d \in Lieux, d \notin montes, inode(d) = inode(courant) PROVE d = courant
  <2>1. d \in Dossiers
    BY <1>1, <1>2, InodePropre DEF Lieux
  <2>2. inode(d) = <<1, d>>
    BY <1>2, <2>1, InodePropre
  <2>3. QED
    BY <1>1, <1>2, <2>2
<1>3. e # "."
  <2>1. e = "." => d_ino(parent, e) = inode(parent)
    BY DEF d_ino
  <2>2. QED
    BY <1>2, <2>1
<1>4. e # ".."
  <2>1. SUFFICES ASSUME e = ".." PROVE FALSE
    OBVIOUS
  <2>2. d_ino(parent, e) = inode(IF parent = RacineFS THEN parent ELSE parents[parent])
    BY <1>1, <2>1 DEF d_ino
  <2>3. CASE parent = RacineFS
    BY <1>2, <2>2, <2>3
  <2>4. CASE parent # RacineFS
    <3>1. parents[parent] \in Lieux
      BY <2>4 DEF Lieux
    <3>2. QED
      BY <1>2, <2>2, <2>4, <3>1
  <2>5. QED
    BY <2>3, <2>4
<1>5. e \in Dossiers /\ parents[e] = parent /\ d_ino(parent, e) = <<1, e>>
  BY <1>3, <1>4 DEF Entrees, d_ino
<1>6. QED
  BY <1>1, <1>5

\* In a tree a directory is neither its own parent nor that of its parent.
LEMMA PasEnCercle ==
    ASSUME NEW ps \in [Dossiers -> Lieux], Arbre(ps), NEW d \in Dossiers
    PROVE  /\ ps[d] # d
           /\ ps[d] # RacineFS => ps[ps[d]] # d
           /\ ps[d] # RacineFS => ps[d] \in ToSet(Chemin(ps, d))
           /\ d \in ToSet(Chemin(ps, d))
<1>1. /\ Len(Chemin(ps, d)) = Len(Chemin(ps, ps[d])) + 1
      /\ Chemin(ps, d) = Append(Chemin(ps, ps[d]), d)
      /\ Chemin(ps, ps[d]) \in Seq(Dossiers) /\ Len(Chemin(ps, ps[d])) \in Nat
  BY CheminPas, LenProperties
<1>2. ps[d] # d
  BY <1>1
<1>3. ASSUME NEW c \in Seq(Dossiers), NEW x \in Dossiers PROVE ToSet(Append(c, x)) = ToSet(c) \cup {x}
  <2>1. Len(c) \in Nat /\ DOMAIN c = 1 .. Len(c) /\ DOMAIN Append(c, x) = 1 .. Len(c) + 1
        /\ Append(c, x)[Len(c) + 1] = x /\ \A k \in 1 .. Len(c) : Append(c, x)[k] = c[k]
    BY AppendProperties, LenProperties
  <2>2. \A k \in 1 .. Len(c) + 1 : k = Len(c) + 1 \/ k \in 1 .. Len(c)
    BY <2>1
  <2>3. \A k \in 1 .. Len(c) : k \in 1 .. Len(c) + 1
    BY <2>1
  <2>4. Len(c) + 1 \in 1 .. Len(c) + 1
    BY <2>1
  <2>5. QED
    BY <2>1, <2>2, <2>3, <2>4 DEF ToSet
<1>4. d \in ToSet(Chemin(ps, d))
  BY <1>1, <1>3
<1>5. ASSUME ps[d] # RacineFS PROVE ps[ps[d]] # d /\ ps[d] \in ToSet(Chemin(ps, d))
  <2>1. ps[d] \in Dossiers
    BY <1>5 DEF Lieux
  <2>2. /\ Len(Chemin(ps, ps[d])) = Len(Chemin(ps, ps[ps[d]])) + 1
        /\ Chemin(ps, ps[d]) = Append(Chemin(ps, ps[ps[d]]), ps[d])
        /\ Chemin(ps, ps[ps[d]]) \in Seq(Dossiers) /\ Len(Chemin(ps, ps[ps[d]])) \in Nat
    BY <2>1, CheminPas, LenProperties
  <2>3. ps[d] \in ToSet(Chemin(ps, ps[d]))
    BY <1>3, <2>1, <2>2
  <2>4. ps[d] \in ToSet(Chemin(ps, d))
    BY <1>1, <1>3, <2>3
  <2>5. ASSUME ps[ps[d]] = d PROVE FALSE
    BY <1>1, <2>2, <2>5
  <2>6. QED
    BY <2>4, <2>5
<1>6. QED
  BY <1>2, <1>4, <1>5

\* The mount points are not on the way as long as they are not on the path.
LEMMA DebutContenu ==
    ASSUME NEW c \in Seq(Dossiers), NEW s \in Seq(Dossiers)
    PROVE  ToSet(c) \subseteq ToSet(c \o s)
<1>1. /\ Len(c) \in Nat /\ Len(s) \in Nat /\ DOMAIN c = 1 .. Len(c)
      /\ DOMAIN (c \o s) = 1 .. Len(c) + Len(s) /\ \A k \in 1 .. Len(c) : (c \o s)[k] = c[k]
  BY LenProperties
<1>2. \A k \in 1 .. Len(c) : k \in 1 .. Len(c) + Len(s)
  BY <1>1
<1>3. QED
  BY <1>1, <1>2 DEF ToSet

LEMMA SansMontage ==
    ASSUME TypeAbsolu, montes # {} => SansDeplacement, UnDeplacement, pas # "erreur",
           montes \cap ToSet(Chemin(parents, ici)) = {}
    PROVE  montes \cap ToSet(Chemin(parents, Avant)) = {}
<1>1. CASE montes = {}
  BY <1>1
<1>2. CASE montes # {}
  <2>1. Avant \in Lieux
    BY DEF TypeAbsolu, Avant
  <2>2. Chemin(parents, Avant) \in Seq(Dossiers) /\ chemin \in Seq(Dossiers)
    BY <2>1, CheminExiste DEF TypeAbsolu, UnDeplacement
  <2>3. ToSet(Chemin(parents, Avant)) \subseteq ToSet(Chemin(parents, ici))
    BY <1>2, <2>2, DebutContenu DEF SansDeplacement
  <2>4. QED
    BY <2>3
<1>3. QED
  BY <1>1, <1>2

LEMMA OpenatAbsolu ==
    ASSUME TypeAbsolu, openat, ici # RacineFS, UnDeplacement
    PROVE  /\ UnDeplacement'
           /\ SansDeplacement => SansDeplacement'
<1>1. /\ pas = "openat" /\ pas' = "readdir" /\ Avant = courant /\ Avant' = courant
      /\ UNCHANGED <<Monde, courant, chemin>> /\ courant # RacineFS /\ courant \in Dossiers
      /\ parent' = parents[courant]
  BY DEF openat, Avant, UnDeplacement, TypeAbsolu, Lieux
<1>2. parents[courant] # courant /\ (parents[courant] # RacineFS => parents[parents[courant]] # courant)
  BY <1>1, PasEnCercle DEF TypeAbsolu
<1>3. UNCHANGED <<parents, ici, vus, courant, chemin>>
  BY <1>1 DEF Monde
<1>4. Chemin(parents, Avant)' = Chemin(parents, Avant) /\ Chemin(parents, ici)' = Chemin(parents, ici)
  BY <1>1, <1>3
<1>5. UnDeplacement'
  BY <1>1, <1>2, <1>3, <1>4 DEF UnDeplacement
<1>6. ASSUME SansDeplacement PROVE SansDeplacement'
  BY <1>1, <1>3, <1>4, <1>6 DEF SansDeplacement
<1>7. QED
  BY <1>5, <1>6

LEMMA ReaddirAbsolu ==
    ASSUME TypeAbsolu, readdir, ici # RacineFS, UnDeplacement, montes # {} => SansDeplacement,
           montes \cap ToSet(Chemin(parents, ici)) = {}
    PROVE  /\ UnDeplacement'
           /\ SansDeplacement => SansDeplacement'
<1>1. /\ pas = "readdir" /\ Avant = courant /\ UNCHANGED <<Monde, courant, parent>>
      /\ courant \in Dossiers /\ courant # RacineFS /\ parent \in Lieux /\ courant # parent
      /\ parent # RacineFS => parents[parent] # courant
      /\ parents \in [Dossiers -> Lieux] /\ Arbre(parents) /\ montes \subseteq Dossiers
      /\ chemin \in Seq(Dossiers) /\ Chemin(parents, courant) \o chemin \in vus
  BY DEF readdir, Avant, UnDeplacement, TypeAbsolu, Lieux
<1>2. UNCHANGED <<parents, ici, vus, courant, parent>>
  BY <1>1 DEF Monde
<1>3. RacineFS \notin Dossiers
  BY AbsoluAssumption DEF RacineFS
<1>4. courant \notin montes /\ parent \notin montes /\ (parent # RacineFS => parents[parent] \notin montes)
  <2>1. CASE montes = {}
    BY <2>1
  <2>2. CASE montes # {}
    <3>1. parents[courant] = parent
      BY <1>1, <2>2 DEF SansDeplacement
    <3>2. montes \cap ToSet(Chemin(parents, courant)) = {}
      BY <1>1, SansMontage
    <3>3. courant \in ToSet(Chemin(parents, courant))
          /\ (parent # RacineFS => parent \in ToSet(Chemin(parents, courant)))
      BY <1>1, <3>1, PasEnCercle
    <3>4. ASSUME parent # RacineFS PROVE parents[parent] \notin montes
      <4>1. parent \in Dossiers
        BY <1>1, <3>4 DEF Lieux
      <4>2. parents[parent] # RacineFS => parents[parent] \in ToSet(Chemin(parents, parent))
        BY <1>1, <4>1, PasEnCercle
      <4>3. Chemin(parents, courant) = Append(Chemin(parents, parent), courant)
            /\ Chemin(parents, parent) \in Seq(Dossiers)
        BY <1>1, <3>1, CheminPas
      <4>4. Append(Chemin(parents, parent), courant) = Chemin(parents, parent) \o <<courant>>
        BY <1>1, <4>3
      <4>5. ToSet(Chemin(parents, parent)) \subseteq ToSet(Chemin(parents, courant))
        <5>1. <<courant>> \in Seq(Dossiers)
          BY <1>1
        <5>2. ToSet(Chemin(parents, parent)) \subseteq ToSet(Chemin(parents, parent) \o <<courant>>)
          BY <4>3, <5>1, DebutContenu
        <5>3. Chemin(parents, courant) = Chemin(parents, parent) \o <<courant>>
          BY <4>3, <4>4
        <5>4. QED
          BY <5>2, <5>3
      <4>6. QED
        BY <1>1, <1>3, <3>2, <4>2, <4>5
    <3>5. QED
      BY <1>1, <1>3, <3>2, <3>3, <3>4
  <2>3. QED
    BY <2>1, <2>2
<1> DEFINE trouves == {e \in Entrees(parent) : d_ino(parent, e) = inode(courant)}
<1>5. ASSUME NEW e \in trouves PROVE e = courant /\ parents[courant] = parent
  BY <1>1, <1>4, EntreeTrouvee
<1>6. CASE trouves = {}
  <2>1. pas' = "erreur"
    BY <1>6 DEF readdir
  <2>2. ASSUME SansDeplacement PROVE FALSE
    <3>1. parents[courant] = parent
      BY <1>1, <2>2 DEF SansDeplacement
    <3>2. courant # "." /\ courant # ".."
      BY <1>1, AbsoluAssumption
    <3>3. d_ino(parent, courant) = <<1, courant>>
      BY <3>2 DEF d_ino
    <3>4. inode(courant) = <<1, courant>>
      BY <1>1, <1>4, InodePropre DEF Lieux
    <3>5. courant \in trouves
      BY <1>1, <3>1, <3>3, <3>4 DEF Entrees
    <3>6. QED
      BY <1>6, <3>5
  <2>3. QED
    BY <2>1, <2>2 DEF UnDeplacement
<1>7. CASE trouves # {}
  <2>1. pas' = "fstat" /\ \E e \in trouves : chemin' = <<e>> \o chemin
    BY <1>7 DEF readdir
  <2>2. parents[courant] = parent /\ chemin' = <<courant>> \o chemin
    <3> HIDE DEF trouves
    <3> QED
      BY <1>5, <2>1
  <2>3. Avant' = parent /\ Chemin(parents, Avant)' = Chemin(parents, parent)
        /\ Chemin(parents, ici)' = Chemin(parents, ici)
    BY <1>2, <2>1 DEF Avant
  <2>4. Chemin(parents, courant) = Append(Chemin(parents, parent), courant)
        /\ Chemin(parents, parent) \in Seq(Dossiers)
    BY <1>1, <2>2, CheminPas
  <2>5. chemin' \in Seq(Dossiers)
    BY <1>1, <2>2
  <2>6. Chemin(parents, parent) \o chemin' = Chemin(parents, courant) \o chemin
    <3>1. \A c, s \in Seq(Dossiers), d \in Dossiers : c \o (<<d>> \o s) = Append(c, d) \o s
      OBVIOUS
    <3>2. QED
      BY <1>1, <2>2, <2>4, <3>1
  <2>7. UnDeplacement'
    BY <1>1, <1>2, <2>1, <2>3, <2>5, <2>6 DEF UnDeplacement
  <2>8. ASSUME SansDeplacement PROVE SansDeplacement'
    BY <1>1, <1>2, <2>1, <2>3, <2>6, <2>8 DEF SansDeplacement
  <2>9. QED
    BY <2>7, <2>8
<1>8. QED
  BY <1>6, <1>7

LEMMA FstatAbsolu ==
    ASSUME TypeAbsolu, fstat, ici # RacineFS, UnDeplacement, montes # {} => SansDeplacement,
           montes \cap ToSet(Chemin(parents, ici)) = {}
    PROVE  /\ UnDeplacement'
           /\ SansDeplacement => SansDeplacement'
<1>1. /\ pas = "fstat" /\ Avant = parent /\ UNCHANGED <<Monde, parent, chemin>>
      /\ courant' = parent /\ pas' = IF inode(parent) = InodeRacine THEN "fini" ELSE "openat"
      /\ parents \in [Dossiers -> Lieux] /\ Arbre(parents) /\ montes \subseteq Dossiers
      /\ parent \in Lieux /\ chemin \in Seq(Dossiers) /\ Chemin(parents, parent) \o chemin \in vus
  BY DEF fstat, Avant, UnDeplacement, TypeAbsolu
<1>2. UNCHANGED <<parents, ici, vus, parent, chemin>>
  BY <1>1 DEF Monde
<1>3. parent # RacineFS => parent \in Dossiers /\ parent \notin montes
  <2>1. montes \cap ToSet(Chemin(parents, parent)) = {}
    BY <1>1, SansMontage
  <2>2. QED
    BY <1>1, <2>1, PasEnCercle DEF Lieux
<1>4. inode(parent) = InodeRacine <=> parent = RacineFS
  BY <1>1, <1>3, InodePropre
<1>5. Avant' = parent /\ Chemin(parents, Avant)' = Chemin(parents, parent)
      /\ Chemin(parents, ici)' = Chemin(parents, ici)
  BY <1>1, <1>2 DEF Avant
<1>6. UnDeplacement'
  BY <1>1, <1>2, <1>4, <1>5 DEF UnDeplacement
<1>7. ASSUME SansDeplacement PROVE SansDeplacement'
  BY <1>1, <1>2, <1>5, <1>7 DEF SansDeplacement
<1>8. QED
  BY <1>6, <1>7

LEMMA DeplacerAbsolu ==
    ASSUME TypeAbsolu, NEW d \in Dossiers, NEW vers \in Lieux, Deplacer(d, vers),
           UNCHANGED programme
    PROVE  /\ TypeAbsolu'
           /\ ici # RacineFS /\ deplacements = 0 /\ SansDeplacement /\ UnDeplacement
                => UnDeplacement'
<1>1. /\ montes = {} /\ pas \notin {"fini", "erreur"} /\ parents' = [parents EXCEPT ![d] = vers]
      /\ deplacements' = deplacements + 1 /\ vus' = vus \cup {Chemin(parents', ici)}
      /\ UNCHANGED <<montes, memeNumero, ici, courant, parent, chemin, pas>>
      /\ d \notin ToSet(Chemin(parents, vers))
      /\ parents \in [Dossiers -> Lieux] /\ Arbre(parents)
      /\ ici \in Lieux /\ courant \in Lieux /\ parent \in Lieux /\ deplacements \in Nat
  BY DEF Deplacer, TypeAbsolu
<1>2. parents' \in [Dossiers -> Lieux] /\ Arbre(parents')
  BY <1>1, CheminDeplace, ArbreDeplace
<1>3. TypeAbsolu'
  <2>1. deplacements' \in Nat /\ montes' = {} /\ montes' \subseteq Dossiers
    BY <1>1
  <2>2. pas' \in {"openat", "readdir", "fstat", "fini", "erreur"}
        /\ {ici', courant', parent'} \subseteq Lieux /\ programme' \in ProgrammesAbsolu
    BY <1>1 DEF TypeAbsolu
  <2>3. QED
    BY <1>2, <2>1, <2>2 DEF TypeAbsolu
<1>4. ASSUME ici # RacineFS, deplacements = 0, SansDeplacement, UnDeplacement
      PROVE  UnDeplacement'
  <2>1. Avant \in Lieux /\ Avant' = Avant
    BY <1>1 DEF Avant
  <2>2. chemin \in Seq(Dossiers) /\ Chemin(parents, ici) = Chemin(parents, Avant) \o chemin
        /\ Chemin(parents, ici) \in vus /\ (pas \in {"openat", "readdir"} => courant # RacineFS)
    BY <1>1, <1>4 DEF UnDeplacement, SansDeplacement
  <2>3. Chemin(parents', Avant) \o chemin \in {Chemin(parents, ici), Chemin(parents', ici)}
    BY <1>1, <2>1, <2>2, CheminMele
  <2>4. Chemin(parents', Avant) \o chemin \in vus'
    BY <1>1, <2>2, <2>3
  <2>5. ASSUME pas = "readdir"
        PROVE  courant # parent /\ (parent # RacineFS => parents'[parent] # courant)
    <3>1. courant \in Dossiers /\ parents[courant] = parent
      BY <1>1, <1>4, <2>2, <2>5 DEF SansDeplacement, Lieux
    <3>2. courant # parent /\ (parent # RacineFS => parents[parent] # courant)
          /\ (parent # RacineFS => parent \in ToSet(Chemin(parents, courant)))
      BY <1>1, <3>1, PasEnCercle
    <3>3. ASSUME parent # RacineFS, parents'[parent] = courant PROVE FALSE
      <4>1. parent \in Dossiers
        BY <1>1, <3>3 DEF Lieux
      <4>2. parents'[parent] = IF d = parent THEN vers ELSE parents[parent]
        BY <1>1, <4>1
      <4>3. d = parent /\ vers = courant
        BY <3>2, <3>3, <4>2
      <4>4. QED
        BY <1>1, <3>2, <3>3, <4>3
    <3>4. QED
      BY <3>2, <3>3
  <2>6. UNCHANGED <<courant, parent, chemin, pas>> /\ pas # "fini"
    BY <1>1
  <2>7. Chemin(parents, Avant)' = Chemin(parents', Avant)
    BY <2>1
  <2>8. QED
    BY <2>2, <2>4, <2>5, <2>6, <2>7 DEF UnDeplacement
<1>5. QED
  BY <1>3, <1>4

LEMMA MonterType ==
    ASSUME TypeAbsolu, Monter, UNCHANGED programme
    PROVE  TypeAbsolu'
<1>1. /\ UNCHANGED <<parents, montes, ici, deplacements>>
      /\ parents \in [Dossiers -> Lieux] /\ RacineFS \in Lieux
  BY DEF Monter, openat, readdir, fstat, Monde, TypeAbsolu, Lieux
<1>2. pas' \in {"openat", "readdir", "fstat", "fini", "erreur"}
  BY DEF Monter, openat, readdir, fstat
<1>3. courant' \in Lieux /\ parent' \in Lieux
  <2>1. CASE openat
    <3>1. courant \in Lieux /\ courant # RacineFS => courant \in Dossiers
      BY DEF Lieux
    <3>2. QED
      BY <1>1, <2>1, <3>1 DEF openat, TypeAbsolu
  <2>2. CASE readdir \/ fstat
    BY <2>2 DEF readdir, fstat, TypeAbsolu
  <2>3. QED
    BY <2>1, <2>2 DEF Monter
<1>4. QED
  BY <1>1, <1>2, <1>3 DEF TypeAbsolu

LEMMA MonterDepuisRacine ==
    ASSUME TypeAbsolu, Monter, ici = RacineFS, DepuisRacine
    PROVE  DepuisRacine'
<1>1. inode(RacineFS) = InodeRacine /\ montes \subseteq Dossiers /\ RacineFS \notin Dossiers
  BY AbsoluAssumption DEF inode, TypeAbsolu, RacineFS
<1>2. CASE openat
  BY <1>2 DEF openat, DepuisRacine
<1>3. CASE readdir
  <2>1. pas = "readdir" /\ courant = RacineFS /\ parent = RacineFS /\ chemin = <<>>
        /\ UNCHANGED <<courant, parent>>
    BY <1>3 DEF readdir, DepuisRacine
  <2> DEFINE trouves == {e \in Entrees(parent) : d_ino(parent, e) = inode(courant)}
  <2>2. "." \in trouves
    BY <2>1 DEF Entrees, d_ino
  <2>3. ASSUME NEW e \in trouves PROVE e \in {".", ".."}
    <3>1. SUFFICES ASSUME e # ".", e # ".." PROVE FALSE
      OBVIOUS
    <3>2. d_ino(parent, e) = <<1, e>>
      BY <3>1 DEF d_ino
    <3>3. <<1, e>> # <<2>>
      OBVIOUS
    <3>4. QED
      BY <1>1, <2>1, <3>2, <3>3 DEF InodeRacine
  <2>4. pas' = "fstat" /\ \E e \in trouves : chemin' = <<e>> \o chemin
    BY <1>3, <2>2 DEF readdir
  <2>5. PICK e \in {".", ".."} : chemin' = <<e>> \o <<>>
    <3> HIDE DEF trouves
    <3> QED
      BY <2>1, <2>3, <2>4
  <2>6. chemin' = <<e>>
    BY <2>5
  <2>7. QED
    BY <2>1, <2>4, <2>6 DEF DepuisRacine
<1>4. CASE fstat
  <2>1. pas = "fstat" /\ parent = RacineFS /\ courant' = RacineFS /\ pas' = "fini"
        /\ UNCHANGED <<parent, chemin>>
    BY <1>1, <1>4 DEF fstat, DepuisRacine
  <2>2. QED
    BY <2>1 DEF DepuisRacine
<1>5. QED
  BY <1>2, <1>3, <1>4 DEF Monter

LEMMA AbsoluPas ==
    ASSUME InvAbsolu, programme \in ProgrammesAbsolu, Monter \/ deplaceur, UNCHANGED programme
    PROVE  InvAbsolu'
<1>1. TypeAbsolu /\ (ici = RacineFS => DepuisRacine)
      /\ (ici # RacineFS /\ montes \cap ToSet(Chemin(parents, ici)) = {} =>
             /\ deplacements = 0 => SansDeplacement
             /\ deplacements <= 1 => UnDeplacement)
  BY DEF InvAbsolu
<1>2. CASE Monter
  <2>1. TypeAbsolu'
    BY <1>1, <1>2, MonterType
  <2>2. UNCHANGED <<parents, montes, ici, deplacements>>
    BY <1>2 DEF Monter, openat, readdir, fstat, Monde
  <2>3. ici = RacineFS => DepuisRacine'
    BY <1>1, <1>2, MonterDepuisRacine
  <2>4. (montes \cap ToSet(Chemin(parents, ici)))' = montes \cap ToSet(Chemin(parents, ici))
    BY <2>2
  <2>5. ASSUME ici # RacineFS, montes \cap ToSet(Chemin(parents, ici)) = {}, deplacements <= 1
        PROVE  UnDeplacement' /\ (deplacements = 0 => SansDeplacement')
    <3>1. UnDeplacement /\ (deplacements = 0 => SansDeplacement) /\ (montes # {} => SansDeplacement)
      BY <1>1, <2>5 DEF TypeAbsolu
    <3>2. CASE openat
      BY <1>1, <2>5, <3>1, <3>2, OpenatAbsolu
    <3>3. CASE readdir
      BY <1>1, <2>5, <3>1, <3>3, ReaddirAbsolu
    <3>4. CASE fstat
      BY <1>1, <2>5, <3>1, <3>4, FstatAbsolu
    <3>5. QED
      BY <1>2, <3>2, <3>3, <3>4 DEF Monter
  <2>6. deplacements = 0 => deplacements <= 1
    OBVIOUS
  <2>7. QED
    BY <2>1, <2>2, <2>3, <2>4, <2>5, <2>6 DEF InvAbsolu
<1>3. CASE deplaceur
  <2>1. PICK d \in Dossiers, vers \in Lieux : Deplacer(d, vers)
    BY <1>3 DEF deplaceur
  <2>2. TypeAbsolu'
    BY <1>1, <2>1, DeplacerAbsolu
  <2>3. montes = {} /\ deplacements' = deplacements + 1 /\ deplacements \in Nat
        /\ pas \notin {"fini", "erreur"}
        /\ UNCHANGED <<montes, ici, courant, parent, chemin, pas>>
    BY <1>1, <2>1 DEF Deplacer, TypeAbsolu
  <2>4. ici = RacineFS => DepuisRacine'
    BY <1>1, <2>3 DEF DepuisRacine
  <2>5. ASSUME ici # RacineFS, deplacements' <= 1 PROVE UnDeplacement'
    <3>1. deplacements = 0 /\ deplacements <= 1
      BY <2>3, <2>5
    <3>2. SansDeplacement /\ UnDeplacement
      BY <1>1, <2>3, <2>5, <3>1
    <3>3. QED
      BY <1>1, <2>1, <2>5, <3>1, <3>2, DeplacerAbsolu
  <2>6. deplacements' # 0
    BY <2>3
  <2>7. QED
    BY <2>2, <2>3, <2>4, <2>5, <2>6 DEF InvAbsolu
<1>4. QED
  BY <1>2, <1>3

LEMMA PasAbsolu ==
    ASSUME [Next]_vars
    PROVE  \/ programme \in ProgrammesAbsolu /\ (Monter \/ deplaceur) /\ UNCHANGED programme
           \/ UNCHANGED <<programme, varsAbsolu>>
BY DEF Next, VersLaFin, Exterieur, Hors, Labos1, Labos2, Labos3, vars

LEMMA AbsoluRepos ==
    ASSUME InvAbsolu, UNCHANGED <<programme, varsAbsolu>>
    PROVE  InvAbsolu'
BY DEF InvAbsolu, varsAbsolu, TypeAbsolu, DepuisRacine, SansDeplacement, UnDeplacement, Avant,
       ReposAbsolu, ProgrammesAbsolu

LEMMA AbsoluNext ==
    ASSUME InvAbsolu, [Next]_vars
    PROVE  InvAbsolu'
<1>1. CASE programme \in ProgrammesAbsolu /\ (Monter \/ deplaceur) /\ UNCHANGED programme
  BY <1>1, AbsoluPas
<1>2. CASE UNCHANGED <<programme, varsAbsolu>>
  BY <1>2, AbsoluRepos
<1>3. QED
  BY <1>1, <1>2, PasAbsolu

LEMMA AbsoluInvariant == Spec => []InvAbsolu
<1>1. Init => InvAbsolu
  BY AbsoluInitial
<1>2. InvAbsolu /\ [Next]_vars => InvAbsolu'
  BY AbsoluNext
<1>3. QED
  BY <1>1, <1>2, PTL DEF Spec

\* The path that absolute.c prints is one the current directory has had, if at
\* most one directory has been moved and no mount point is on the path, and
\* nothing fails if none has; the root is printed as "." or "..".
THEOREM CheminExactAbsolu == Spec => []CheminExact
<1>1. InvAbsolu => CheminExact
  <2> SUFFICES ASSUME InvAbsolu PROVE CheminExact
    OBVIOUS
  <2>1. CASE programme \notin ProgrammesAbsolu
    <3>1. ReposAbsolu
      BY <2>1 DEF InvAbsolu
    <3>2. Arbre(parents)
      <4>1. \A d \in Dossiers : <<d>> \in Seq(Dossiers) /\ EstChemin(parents, d, <<d>>)
        <5> TAKE d \in Dossiers
        <5>1. <<d>> \in Seq(Dossiers) /\ Len(<<d>>) = 1 /\ <<d>>[1] = d /\ DOMAIN <<d>> = {1}
              /\ <<d>> # <<>>
          OBVIOUS
        <5>2. parents[d] = RacineFS
          BY <3>1 DEF ReposAbsolu
        <5>3. QED
          BY <5>1, <5>2 DEF EstChemin, Last
      <4>2. parents \in [Dossiers -> Lieux]
        BY <3>1 DEF ReposAbsolu, Lieux
      <4>3. QED
        BY <4>1, <4>2, CheminCourt DEF Arbre
    <3>3. QED
      BY <2>1, <3>1, <3>2 DEF ReposAbsolu, CheminExact, TypeOKAbsolu, Lieux
  <2>2. CASE programme \in ProgrammesAbsolu
    <3>1. TypeAbsolu
      BY <2>2 DEF InvAbsolu
    <3>2. TypeOKAbsolu
      BY <3>1 DEF TypeAbsolu, TypeOKAbsolu
    <3>3. ASSUME montes \cap ToSet(Chemin(parents, ici)) = {}, ici # RacineFS
          PROVE  /\ pas = "fini" /\ deplacements <= 1 => chemin \in vus
                 /\ deplacements = 0 => pas # "erreur"
      <4>1. ASSUME pas = "fini", deplacements <= 1 PROVE chemin \in vus
        <5>1. UnDeplacement
          BY <2>2, <3>3, <4>1 DEF InvAbsolu
        <5>2. Avant = RacineFS /\ chemin \in Seq(Dossiers)
          BY <4>1, <5>1 DEF UnDeplacement, Avant
        <5>3. Chemin(parents, Avant) = <<>>
          BY <3>1, <5>2, CheminRacine DEF TypeAbsolu
        <5>4. <<>> \o chemin = chemin
          BY <5>2
        <5>5. QED
          BY <4>1, <5>1, <5>3, <5>4 DEF UnDeplacement
      <4>2. deplacements = 0 => pas # "erreur"
        BY <2>2, <3>3 DEF InvAbsolu, SansDeplacement
      <4>3. QED
        BY <4>1, <4>2
    <3>4. ici = RacineFS /\ pas = "fini" => chemin \in {<<".">>, <<"..">>}
      BY <2>2 DEF InvAbsolu, DepuisRacine
    <3>5. QED
      BY <3>2, <3>3, <3>4 DEF CheminExact
  <2>3. QED
    BY <2>1, <2>2
<1>2. QED
  BY <1>1, AbsoluInvariant, PTL

-----------------------------------------------------------------------------
\* Projection: the bytes and their lines.

LEMMA PlusPetitEntier ==
    ASSUME NEW T \in SUBSET Nat, T # {}
    PROVE  Min(T) \in T /\ \A x \in T : Min(T) <= x
<1>1. PICK m \in T : \A n \in T : m <= n
  BY PlusPetit
<1>2. QED
  BY <1>1 DEF Min

LEMMA Intervalles ==
    ASSUME NEW a \in Int, NEW b \in Int, NEW T, IsFiniteSet(T), T \cap (a .. b) = {}
    PROVE  /\ IsFiniteSet(T \cup (a .. b))
           /\ Cardinality(T \cup (a .. b)) = Cardinality(T) + (IF a > b THEN 0 ELSE b - a + 1)
<1>1. IsFiniteSet(a .. b) /\ Cardinality(a .. b) = IF a > b THEN 0 ELSE b - a + 1
  BY FS_Interval
<1>2. Cardinality(T \cap (a .. b)) = 0
  BY FS_EmptySet
<1>3. Cardinality(T) \in Nat /\ Cardinality(a .. b) \in Nat
  BY <1>1, FS_CardinalityType
<1>4. /\ IsFiniteSet(T \cup (a .. b))
      /\ Cardinality(T \cup (a .. b)) = Cardinality(T) + Cardinality(a .. b) - 0
  BY <1>1, <1>2, FS_Union
<1>5. QED
  BY <1>1, <1>3, <1>4

OctetsTypes == octets \in Seq(Nat) /\ motif \in Seq(Nat) /\ sortie \in Seq(Nat)

LEMMA OctetType ==
    ASSUME OctetsTypes
    PROVE  /\ Taille \in Nat /\ Len(motif) \in Nat /\ Len(sortie) \in Nat
           /\ \A i \in Nat : octet(i) \in Nat
           /\ \A i \in Nat : i < Taille => octet(i) = octets[i + 1]
BY DEF OctetsTypes, Taille, octet, Nul

LEMMA OctetsSuite ==
    ASSUME OctetsTypes, NEW debut \in Nat, NEW n \in Nat
    PROVE  /\ Octets(debut, n) \in Seq(Nat) /\ Len(Octets(debut, n)) = n
           /\ \A k \in 1 .. n : Octets(debut, n)[k] = octet(debut + k - 1)
<1>1. \A k \in 1 .. n : debut + k - 1 \in Nat
  OBVIOUS
<1>2. \A k \in 1 .. n : octet(debut + k - 1) \in Nat
  BY <1>1, OctetType
<1>3. Octets(debut, n) \in [1 .. n -> Nat]
  BY <1>2 DEF Octets
<1>4. QED
  BY <1>3 DEF Octets

\* The bytes of an interval are written.
LEMMA Ecrit ==
    ASSUME OctetsTypes, NEW debut \in Nat, NEW n \in Nat
    PROVE  LET s == sortie \o Octets(debut, n)
           IN  /\ s \in Seq(Nat) /\ Len(s) = Len(sortie) + n
               /\ \A k \in 1 .. Len(sortie) : s[k] = sortie[k]
               /\ \A k \in 1 .. n : s[Len(sortie) + k] = octet(debut + k - 1)
<1> DEFINE o == Octets(debut, n)
           s == sortie \o o
<1>1. o \in Seq(Nat) /\ Len(o) = n /\ \A k \in 1 .. n : o[k] = octet(debut + k - 1)
  BY OctetsSuite
<1>2. sortie \in Seq(Nat) /\ Len(sortie) \in Nat
  BY DEF OctetsTypes
<1> HIDE DEF o
<1>3. /\ s \in Seq(Nat) /\ Len(s) = Len(sortie) + n
      /\ \A k \in 1 .. Len(s) : s[k] = IF k <= Len(sortie) THEN sortie[k] ELSE o[k - Len(sortie)]
  BY <1>1, <1>2, ConcatProperties
<1> HIDE DEF s
<1>4. \A k \in 1 .. Len(sortie) : s[k] = sortie[k]
  BY <1>2, <1>3
<1>5. ASSUME NEW k \in 1 .. n PROVE s[Len(sortie) + k] = octet(debut + k - 1)
  <2>1. /\ Len(sortie) + k \in 1 .. Len(s) /\ ~(Len(sortie) + k <= Len(sortie))
        /\ (Len(sortie) + k) - Len(sortie) = k
    BY <1>2, <1>3
  <2>2. QED
    BY <1>1, <1>3, <2>1
<1>6. QED
  BY <1>3, <1>4, <1>5 DEF s, o

LEMMA OctetsInchanges ==
    ASSUME UNCHANGED Donnees
    PROVE  /\ Taille' = Taille /\ Gardes' = Gardes /\ LignesTerminees' = LignesTerminees
           /\ \A i : octet(i)' = octet(i) /\ Ligne(i)' = Ligne(i) /\ Precedents(i)' = Precedents(i)
           /\ \A p : Occurrences(p)' = Occurrences(p) /\ memchr(p)' = memchr(p)
BY DEF Donnees, Taille, octet, Ligne, Precedents, Occurrences, Gardes, LignesTerminees, Octets, memchr

\* Two bytes are on the same line when no newline is between them.
LEMMA LigneCroissante ==
    ASSUME OctetsTypes, NEW i \in Nat, NEW j \in Nat, i <= j
    PROVE  /\ Ligne(i) \in Nat /\ Ligne(j) \in Nat /\ Ligne(i) <= Ligne(j)
           /\ Ligne(i) = Ligne(j) <=> \A q \in i .. j - 1 : octet(q) # NL
<1> DEFINE S == {q \in 0 .. i - 1 : octet(q) = NL}
           T == {q \in 0 .. j - 1 : octet(q) = NL}
<1>1. IsFiniteSet(0 .. j - 1) /\ T \in SUBSET (0 .. j - 1) /\ S \in SUBSET T
  BY FS_Interval
<1>2. IsFiniteSet(T) /\ IsFiniteSet(S)
  BY <1>1, FS_Subset
<1>3. /\ Cardinality(S) \in Nat /\ Cardinality(T) \in Nat /\ Cardinality(S) <= Cardinality(T)
      /\ Cardinality(S) = Cardinality(T) => S = T
  BY <1>1, <1>2, FS_Subset, FS_CardinalityType
<1>4. S = T <=> \A q \in i .. j - 1 : octet(q) # NL
  <2>1. ASSUME S = T, NEW q \in i .. j - 1, octet(q) = NL PROVE FALSE
    <3>1. q \in T /\ q \notin S
      BY <2>1
    <3>2. QED
      BY <2>1, <3>1
  <2>2. ASSUME \A q \in i .. j - 1 : octet(q) # NL, NEW q \in T PROVE q \in S
    <3>1. q \in 0 .. j - 1 /\ octet(q) = NL
      OBVIOUS
    <3>2. ~(q \in i .. j - 1)
      BY <2>2, <3>1
    <3>3. QED
      BY <3>1, <3>2
  <2>3. QED
    BY <1>1, <2>1, <2>2
<1>5. QED
  BY <1>3, <1>4 DEF Ligne

LEMMA OccurrencesDans ==
    ASSUME OctetsTypes, NEW p \in Nat
    PROVE  /\ Occurrences(p) = {q \in Occurrences(0) : q >= p}
           /\ Occurrences(p) \in SUBSET Nat
           /\ \A q \in Occurrences(p) : q + Len(motif) <= Taille
           /\ memmem(p) = NULL <=> Occurrences(p) = {}
           /\ memmem(p) # NULL => /\ memmem(p) \in Occurrences(p)
                                  /\ \A q \in Occurrences(p) : memmem(p) <= q
<1>1. Taille \in Nat /\ Len(motif) \in Nat
  BY OctetType
<1>2. /\ Occurrences(p) = {q \in Occurrences(0) : q >= p}
      /\ Occurrences(p) \in SUBSET Nat
      /\ \A q \in Occurrences(p) : q + Len(motif) <= Taille
  BY <1>1 DEF Occurrences
<1>3. Occurrences(p) # {} => Min(Occurrences(p)) \in Occurrences(p)
                             /\ \A q \in Occurrences(p) : Min(Occurrences(p)) <= q
  BY <1>2, PlusPetitEntier
<1>4. QED
  BY <1>2, <1>3 DEF memmem, NULL

-----------------------------------------------------------------------------
\* Projection: memtac.

\* The bytes p + 1 .. f - 1 are a line: their place when the last line comes first.
LEMMA RangLigne ==
    ASSUME OctetsTypes, NEW p \in Int, NEW f \in Nat, -1 <= p, p + 2 <= f, f <= Taille,
           p = -1 \/ octet(p) = NL, \A q \in p + 1 .. f - 2 : octet(q) # NL,
           f = Taille \/ octet(f - 1) = NL, NEW i \in p + 1 .. f - 1
    PROVE  Cardinality(Precedents(i)) = (Taille - f) + (i - (p + 1))
<1>1. Taille \in Nat /\ i \in Nat /\ f - 1 \in Nat
  BY OctetType
<1>2. Precedents(i) = (f .. Taille - 1) \cup (p + 1 .. i - 1)
  <2>1. ASSUME NEW g \in p + 1 .. f - 1 PROVE Ligne(g) = Ligne(i)
    <3>1. g \in Nat
      BY <1>1
    <3>2. CASE g <= i
      <4>1. \A q \in g .. i - 1 : octet(q) # NL
        BY <1>1, <3>1
      <4>2. QED
        BY <1>1, <3>1, <3>2, <4>1, LigneCroissante
    <3>3. CASE i <= g
      <4>1. \A q \in i .. g - 1 : octet(q) # NL
        BY <1>1, <3>1
      <4>2. QED
        BY <1>1, <3>1, <3>3, <4>1, LigneCroissante
    <3>4. QED
      BY <1>1, <3>1, <3>2, <3>3
  <2>2. ASSUME NEW g \in f .. Taille - 1 PROVE Ligne(g) > Ligne(i)
    <3>1. g \in Nat /\ i <= g /\ f - 1 \in i .. g - 1 /\ octet(f - 1) = NL
      BY <1>1
    <3>2. ~(\A q \in i .. g - 1 : octet(q) # NL)
      BY <3>1
    <3>3. Ligne(i) \in Nat /\ Ligne(g) \in Nat /\ Ligne(i) <= Ligne(g) /\ Ligne(i) # Ligne(g)
      BY <1>1, <3>1, <3>2, LigneCroissante
    <3>4. QED
      BY <3>3
  <2>3. ASSUME NEW g \in 0 .. p PROVE Ligne(g) < Ligne(i)
    <3>1. g \in Nat /\ g <= i /\ p \in g .. i - 1 /\ octet(p) = NL
      BY <1>1
    <3>2. ~(\A q \in g .. i - 1 : octet(q) # NL)
      BY <3>1
    <3>3. Ligne(i) \in Nat /\ Ligne(g) \in Nat /\ Ligne(g) <= Ligne(i) /\ Ligne(i) # Ligne(g)
      BY <1>1, <3>1, <3>2, LigneCroissante
    <3>4. QED
      BY <3>3
  <2>4. Ligne(i) \in Nat
    BY <1>1, LigneCroissante
  <2>5. ASSUME NEW g \in 0 .. Taille - 1
        PROVE  (Ligne(g) > Ligne(i) \/ (Ligne(g) = Ligne(i) /\ g < i))
                  <=> g \in (f .. Taille - 1) \cup (p + 1 .. i - 1)
    <3>1. CASE g \in f .. Taille - 1
      BY <2>2, <3>1
    <3>2. CASE g \in p + 1 .. f - 1
      BY <1>1, <2>1, <2>4, <3>2
    <3>3. CASE g \in 0 .. p
      <4>1. Ligne(g) < Ligne(i) /\ Ligne(g) \in Nat
        BY <1>1, <2>3, <3>3, LigneCroissante
      <4>2. g \notin (f .. Taille - 1) \cup (p + 1 .. i - 1)
        BY <1>1, <3>3
      <4>3. QED
        BY <2>4, <4>1, <4>2
    <3>4. QED
      BY <1>1, <3>1, <3>2, <3>3
  <2>6. (f .. Taille - 1) \cup (p + 1 .. i - 1) \subseteq 0 .. Taille - 1
    BY <1>1
  <2>7. QED
    BY <2>5, <2>6 DEF Precedents
<1>3. IsFiniteSet(f .. Taille - 1) /\ Cardinality(f .. Taille - 1) = Taille - f
  <2>1. Taille - 1 \in Int
    BY <1>1
  <2>2. /\ IsFiniteSet(f .. Taille - 1)
        /\ Cardinality(f .. Taille - 1) = IF f > Taille - 1 THEN 0 ELSE (Taille - 1) - f + 1
    BY <2>1, FS_Interval
  <2>3. QED
    BY <1>1, <2>2
<1>4. (f .. Taille - 1) \cap (p + 1 .. i - 1) = {}
  BY <1>1
<1>5. Cardinality((f .. Taille - 1) \cup (p + 1 .. i - 1))
         = (Taille - f) + (IF p + 1 > i - 1 THEN 0 ELSE (i - 1) - (p + 1) + 1)
  <2> DEFINE T == f .. Taille - 1
             debut == p + 1
             bout == i - 1
  <2>1. debut \in Int /\ bout \in Int /\ IsFiniteSet(T) /\ T \cap (debut .. bout) = {}
        /\ Cardinality(T) = Taille - f
    BY <1>1, <1>3, <1>4
  <2> HIDE DEF T, debut, bout
  <2>2. Cardinality(T \cup (debut .. bout)) = Cardinality(T) + (IF debut > bout THEN 0 ELSE bout - debut + 1)
    BY <2>1, Intervalles
  <2>3. QED
    BY <2>1, <2>2 DEF T, debut, bout
<1>6. QED
  BY <1>1, <1>2, <1>5

\* The bytes from f on have been written, the last line first.
Retournes(f) ==
    /\ Len(sortie) = Taille - f
    /\ \A i \in f .. Taille - 1 :
           LET place == Cardinality(Precedents(i))
           IN  place \in 0 .. Taille - f - 1 /\ sortie[place + 1] = octet(i)

LEMMA RetourneLigne ==
    ASSUME OctetsTypes, UNCHANGED Donnees, NEW p \in Int, NEW f \in Nat, -1 <= p, p + 2 <= f, f <= Taille,
           p = -1 \/ octet(p) = NL, \A q \in p + 1 .. f - 2 : octet(q) # NL,
           f = Taille \/ octet(f - 1) = NL, Retournes(f),
           sortie' = sortie \o Octets(p + 1, f - p - 1)
    PROVE  Retournes(p + 1)' /\ OctetsTypes'
<1>1. Taille \in Nat /\ Len(sortie) = Taille - f
  BY OctetType DEF Retournes
<1>2. p + 1 \in Nat /\ f - p - 1 \in Nat
  OBVIOUS
<1>3. /\ sortie' \in Seq(Nat) /\ Len(sortie') = Len(sortie) + (f - p - 1)
      /\ \A k \in 1 .. Len(sortie) : sortie'[k] = sortie[k]
      /\ \A k \in 1 .. f - p - 1 : sortie'[Len(sortie) + k] = octet((p + 1) + k - 1)
  BY <1>2, Ecrit
<1>4. ASSUME NEW i \in p + 1 .. Taille - 1
      PROVE  LET place == Cardinality(Precedents(i))
             IN  place \in 0 .. Taille - (p + 1) - 1 /\ sortie'[place + 1] = octet(i)
  <2> DEFINE place == Cardinality(Precedents(i))
  <2>1. CASE i \in f .. Taille - 1
    <3>1. place \in 0 .. Taille - f - 1 /\ sortie[place + 1] = octet(i)
      BY <2>1 DEF Retournes
    <3> HIDE DEF place
    <3>2. place + 1 \in 1 .. Len(sortie) /\ place \in 0 .. Taille - (p + 1) - 1
      BY <1>1, <3>1
    <3>3. QED
      BY <1>3, <3>1, <3>2 DEF place
  <2>2. CASE i \in p + 1 .. f - 1
    <3>1. place = (Taille - f) + (i - (p + 1))
      BY <2>2, RangLigne
    <3> HIDE DEF place
    <3> DEFINE k == i - p
    <3>2. k \in 1 .. f - p - 1 /\ place + 1 = Len(sortie) + k /\ (p + 1) + k - 1 = i
      BY <1>1, <2>2, <3>1
    <3>3. place \in 0 .. Taille - (p + 1) - 1
      BY <1>1, <2>2, <3>1
    <3> HIDE DEF k
    <3>4. sortie'[place + 1] = octet(i)
      BY <1>3, <3>2
    <3>5. QED
      BY <3>3, <3>4 DEF place
  <2>3. i \in f .. Taille - 1 \/ i \in p + 1 .. f - 1
    BY <1>1
  <2>4. QED
    BY <2>1, <2>2, <2>3
<1>5. Len(sortie') = Taille - (p + 1)
  BY <1>1, <1>3
<1>6. OctetsTypes'
  BY <1>3 DEF OctetsTypes, Donnees
<1>7. QED
  BY <1>4, <1>5, <1>6, OctetsInchanges DEF Retournes

\* memtac.c in its loop: the line of which the start is looked for.
InvTac ==
    /\ pointeur \in -1 .. Taille - 2 /\ fin \in Nat /\ pointeur + 2 <= fin /\ fin <= Taille
    /\ \A q \in pointeur + 1 .. fin - 2 : octet(q) # NL
    /\ fin = Taille \/ octet(fin - 1) = NL
    /\ IF pointeur = -1 /\ octet(0) # NL /\ Taille > 1 THEN Retournes(0) ELSE Retournes(fin)

LEMMA TacPas ==
    ASSUME OctetsTypes, InvTac, memtac
    PROVE  InvTac' /\ OctetsTypes'
<1>0. UNCHANGED Donnees /\ Taille \in Nat /\ Taille' = Taille /\ octet(0)' = octet(0)
  BY OctetType, OctetsInchanges DEF memtac
<1>a. /\ pointeur \in -1 .. Taille - 2 /\ fin \in Nat /\ pointeur + 2 <= fin /\ fin <= Taille
      /\ \A q \in pointeur + 1 .. fin - 2 : octet(q) # NL
      /\ fin = Taille \/ octet(fin - 1) = NL
      /\ pointeur # -1 => Retournes(fin)
  BY DEF InvTac
\* What the invariant says of the next state, with the bytes of this one.
<1>b. ASSUME pointeur' \in -1 .. Taille - 2, fin' \in Nat, pointeur' + 2 <= fin', fin' <= Taille,
             \A q \in pointeur' + 1 .. fin' - 2 : octet(q) # NL,
             fin' = Taille \/ octet(fin' - 1) = NL,
             IF pointeur' = -1 /\ octet(0) # NL /\ Taille > 1 THEN Retournes(0)' ELSE Retournes(fin)'
      PROVE  InvTac'
  <2>1. \A q : octet(q)' = octet(q)
    BY <1>0, OctetsInchanges
  <2>2. octet(fin - 1)' = octet(fin' - 1)
    BY <1>0 DEF octet, Donnees, Taille
  <2>3. QED
    BY <1>0, <1>b, <2>1, <2>2 DEF InvTac
<1>1. CASE pointeur < 0
  <2>1. UNCHANGED <<pointeur, fin, sortie, Donnees>>
    BY <1>1 DEF memtac, Arret
  <2>2. /\ Retournes(fin) => Retournes(fin)'
        /\ Retournes(0) => Retournes(0)'
        /\ OctetsTypes'
    BY <1>0, <2>1, OctetsInchanges DEF Retournes, OctetsTypes, Donnees
  <2>3. QED
    BY <1>a, <1>b, <2>1, <2>2 DEF InvTac
<1>2. CASE pointeur >= 0 /\ octet(pointeur) = NL
  <2>1. /\ sortie' = sortie \o Octets(pointeur + 1, fin - pointeur - 1)
        /\ fin' = pointeur + 1 /\ pointeur' = pointeur - 1
    BY <1>2, <1>a DEF memtac
  <2>2. Retournes(fin) /\ pointeur \in Int /\ -1 <= pointeur
    BY <1>2, <1>a
  <2>3. Retournes(fin)' /\ OctetsTypes'
    <3>1. PICK p \in Int, f \in Nat : p = pointeur /\ f = fin
      BY <1>a, <2>2
    <3>2. -1 <= p /\ p + 2 <= f /\ f <= Taille /\ octet(p) = NL
          /\ (\A q \in p + 1 .. f - 2 : octet(q) # NL) /\ (f = Taille \/ octet(f - 1) = NL)
          /\ Retournes(f) /\ sortie' = sortie \o Octets(p + 1, f - p - 1) /\ fin' = p + 1
      BY <1>2, <1>a, <2>1, <2>2, <3>1
    <3>3. Retournes(p + 1)' /\ OctetsTypes'
      BY <1>0, <3>2, RetourneLigne
    <3>4. QED
      BY <3>2, <3>3 DEF Retournes
  <2>5. ~(pointeur' = -1 /\ octet(0) # NL)
    BY <1>2, <2>1, <2>2
  <2>6. /\ pointeur' \in -1 .. Taille - 2 /\ fin' \in Nat /\ pointeur' + 2 <= fin' /\ fin' <= Taille
        /\ pointeur' + 1 > fin' - 2 /\ octet(fin' - 1) = NL
    BY <1>0, <1>2, <1>a, <2>1, <2>2
  <2>7. \A q \in pointeur' + 1 .. fin' - 2 : octet(q) # NL
    BY <2>1, <2>2, <2>6
  <2>8. QED
    BY <1>b, <2>3, <2>5, <2>6, <2>7
<1>3. CASE pointeur = 0 /\ octet(pointeur) # NL
  <2>1. sortie' = sortie \o Octets(0, fin) /\ fin' = fin /\ pointeur' = -1
    <3>1. ~(pointeur < 0) /\ pointeur - 1 = -1
      BY <1>3
    <3>2. QED
      BY <1>3, <3>1 DEF memtac
  <2>2. Retournes(fin) /\ Taille > 1 /\ fin \in Nat /\ 2 <= fin /\ fin <= Taille
        /\ (\A q \in 1 .. fin - 2 : octet(q) # NL) /\ (fin = Taille \/ octet(fin - 1) = NL)
    BY <1>0, <1>3, <1>a
  <2> DEFINE p == -1
  <2>3. p \in Int /\ -1 <= p /\ p + 2 <= fin /\ p = -1 /\ p + 1 = 0 /\ fin - p - 1 = fin
    BY <2>2
  <2>4. \A q \in 0 .. fin - 2 : octet(q) # NL
    BY <1>3, <2>2
  <2> HIDE DEF p
  <2>5. sortie' = sortie \o Octets(p + 1, fin - p - 1) /\ \A q \in p + 1 .. fin - 2 : octet(q) # NL
    BY <2>1, <2>3, <2>4
  <2>6. Retournes(p + 1)' /\ OctetsTypes'
    BY <1>0, <2>2, <2>3, <2>5, RetourneLigne
  <2>7. Retournes(0)'
    BY <2>3, <2>6
  <2>8. octet(0) # NL
    BY <1>3
  <2>9. -1 \in -1 .. Taille - 2
    BY <1>0, <2>2
  <2>10. QED
    BY <1>b, <2>1, <2>2, <2>4, <2>6, <2>7, <2>8, <2>9
<1>4. CASE pointeur > 0 /\ octet(pointeur) # NL
  <2>1. sortie' = sortie /\ fin' = fin /\ pointeur' = pointeur - 1
    <3>1. ~(pointeur < 0) /\ pointeur # 0
      BY <1>4, <1>a
    <3>2. QED
      BY <1>4, <3>1 DEF memtac
  <2>2. pointeur \in Nat /\ Retournes(fin)
    BY <1>4, <1>a
  <2>3. \A q \in pointeur .. fin - 2 : octet(q) # NL
    BY <1>4, <1>a, <2>2
  <2>4. Retournes(fin)' /\ OctetsTypes'
    BY <1>0, <2>1, <2>2, OctetsInchanges DEF Retournes, OctetsTypes, Donnees
  <2>5. pointeur' # -1 /\ pointeur' + 1 = pointeur /\ pointeur' \in -1 .. Taille - 2
        /\ pointeur' + 2 <= fin
    BY <1>0, <1>4, <1>a, <2>1, <2>2
  <2>6. QED
    BY <1>a, <1>b, <2>1, <2>3, <2>4, <2>5
<1>5. QED
  BY <1>1, <1>2, <1>3, <1>4, <1>a

\* What memtac.c has written when it ends.
LEMMA TacExact ==
    ASSUME OctetsTypes, InvTac, pointeur < 0
    PROVE  Retourne(IF octets[1] = NL \/ Taille = 1 THEN Taille - 1 ELSE Taille)
<1>1. Taille \in Nat /\ pointeur = -1 /\ Taille >= 1 /\ octet(0) = octets[1]
      /\ fin \in Nat /\ 1 <= fin /\ fin <= Taille
  <2>1. pointeur \in -1 .. Taille - 2 /\ Taille \in Nat /\ fin \in Nat /\ pointeur + 2 <= fin /\ fin <= Taille
    BY OctetType DEF InvTac
  <2>2. pointeur = -1 /\ Taille >= 1 /\ 1 <= fin
    BY <2>1
  <2>3. octet(0) = octets[1]
    BY <2>1, <2>2 DEF octet
  <2>4. QED
    BY <2>1, <2>2, <2>3
<1>2. CASE octet(0) # NL /\ Taille > 1
  <2>1. Retournes(0)
    BY <1>1, <1>2 DEF InvTac
  <2>2. QED
    BY <1>1, <1>2, <2>1 DEF Retournes, Retourne
<1>3. CASE octet(0) = NL \/ Taille = 1
  <2>1. Retournes(fin)
    BY <1>3, <1>1 DEF InvTac
  <2>2. fin = 1
    <3>1. CASE Taille = 1
      BY <1>1, <3>1
    <3>2. CASE octet(0) = NL
      <4>1. ~(0 \in 0 .. fin - 2)
        BY <1>1, <3>2 DEF InvTac
      <4>2. QED
        BY <1>1, <4>1
    <3>3. QED
      BY <1>3, <3>1, <3>2
  \* The first line is one byte, which comes after all the others.
  <2>3. Cardinality(Precedents(0)) = Taille - 1
    <3> DEFINE p == -1
    <3>1. /\ p \in Int /\ -1 <= p /\ p + 2 <= fin /\ p = -1 /\ 0 \in p + 1 .. fin - 1 /\ p + 1 = 0
          /\ p + 1 > fin - 2
      BY <2>2
    <3>2. fin = Taille \/ octet(fin - 1) = NL
      BY DEF InvTac
    <3> HIDE DEF p
    <3>3. \A q \in p + 1 .. fin - 2 : octet(q) # NL
      BY <2>2, <3>1
    <3>4. Cardinality(Precedents(0)) = (Taille - fin) + (0 - (p + 1))
      BY <1>1, <3>1, <3>2, <3>3, RangLigne
    <3>5. QED
      BY <1>1, <2>2, <3>1, <3>4
  <2>4. Retourne(Taille - 1)
    <3>1. ASSUME NEW i \in 0 .. Taille - 1, Cardinality(Precedents(i)) < Taille - 1
          PROVE  sortie[Cardinality(Precedents(i)) + 1] = octet(i)
      <4>1. i # 0
        BY <1>1, <2>3, <3>1
      <4>2. i \in fin .. Taille - 1
        BY <1>1, <2>2, <4>1
      <4>3. QED
        BY <2>1, <4>2 DEF Retournes
    <3>2. Len(sortie) = Taille - 1
      BY <2>1, <2>2 DEF Retournes
    <3>3. QED
      BY <3>1, <3>2 DEF Retourne
  <2>5. QED
    BY <1>1, <1>3, <2>4
<1>4. QED
  <2>1. Taille > 1 \/ Taille = 1
    BY <1>1
  <2>2. QED
    BY <1>2, <1>3, <2>1

-----------------------------------------------------------------------------
\* Projection: memcount.

Disjoint(R) == R \subseteq Occurrences(0) /\ \A q, r \in R : q < r => q + Len(motif) <= r

\* The occurrences in front of pointeur_buf: none of the sets of disjoint ones has
\* more than have been counted, and one has as many.
InvCount ==
    /\ pointeur \in 0 .. Taille
    /\ motif # <<>> =>
           /\ \E R \in SUBSET Nat : /\ Disjoint(R) /\ IsFiniteSet(R) /\ Cardinality(R) = recherches
                                    /\ \A r \in R : r + Len(motif) <= pointeur
           /\ \A R \in SUBSET Nat : Disjoint(R) => Cardinality({r \in R : r < pointeur}) <= recherches

LEMMA OccurrencesFinies ==
    ASSUME OctetsTypes, NEW R \in SUBSET Occurrences(0)
    PROVE  IsFiniteSet(R) /\ R \in SUBSET Nat
<1>1. Occurrences(0) \in SUBSET (0 .. Taille) /\ Taille \in Nat
  BY OccurrencesDans, OctetType
<1>2. IsFiniteSet(0 .. Taille) /\ R \in SUBSET (0 .. Taille)
  BY <1>1, FS_Interval
<1>3. IsFiniteSet(R)
  BY <1>2, FS_Subset
<1>4. R \in SUBSET Nat
  BY <1>2
<1>5. QED
  BY <1>3, <1>4

LEMMA MotifVide ==
    ASSUME OctetsTypes, motif = <<>>, NEW p \in 0 .. Taille
    PROVE  memmem(p) # NULL
<1>1. Taille \in Nat /\ Len(motif) = 0
  BY OctetType
<1>2. Octets(p, 0) = <<>>
  BY OctetsSuite, <1>1
<1>3. p \in Occurrences(p)
  BY <1>1, <1>2 DEF Occurrences
<1>4. QED
  BY <1>1, <1>3, OccurrencesDans

LEMMA CountTrouve ==
    ASSUME OctetsTypes, InvCount, recherches \in Nat, motif # <<>>, memmem(pointeur) # NULL,
           NEW m \in Nat, m = memmem(pointeur)
    PROVE  /\ \E R \in SUBSET Nat : /\ Disjoint(R) /\ IsFiniteSet(R) /\ Cardinality(R) = recherches + 1
                                    /\ \A r \in R : r + Len(motif) <= m + Len(motif)
           /\ \A R \in SUBSET Nat :
                  Disjoint(R) => Cardinality({r \in R : r < m + Len(motif)}) <= recherches + 1
<1> DEFINE L == Len(motif)
<1>1. /\ Taille \in Nat /\ L \in Nat /\ pointeur \in 0 .. Taille
      /\ m \in Occurrences(0) /\ m >= pointeur
      /\ \A q \in Occurrences(0) : q >= pointeur => m <= q
  BY OctetType, OccurrencesDans DEF InvCount
<1>2. L > 0
  BY <1>1 DEF OctetsTypes
<1> HIDE DEF L
<1>3. PICK R \in SUBSET Nat : /\ Disjoint(R) /\ IsFiniteSet(R) /\ Cardinality(R) = recherches
                              /\ \A r \in R : r + L <= pointeur
  BY DEF InvCount, L
<1>4. \A r \in R : r \in Nat /\ r < m /\ r + L <= m
  BY <1>1, <1>2, <1>3
<1>5. Disjoint(R \cup {m})
  <2>1. R \subseteq Occurrences(0) /\ \A q, r \in R : q < r => q + L <= r
    BY <1>3 DEF Disjoint, L
  <2>2. ASSUME NEW q \in R \cup {m}, NEW r \in R \cup {m}, q < r PROVE q + L <= r
    <3>1. ~(m < m) /\ \A u \in R : ~(m < u)
      BY <1>4
    <3>2. q \in R
      BY <2>2, <3>1
    <3>3. CASE r = m
      BY <1>4, <3>2, <3>3
    <3>4. CASE r \in R
      BY <2>1, <2>2, <3>2, <3>4
    <3>5. QED
      BY <3>3, <3>4
  <2>3. QED
    BY <1>1, <2>1, <2>2 DEF Disjoint, L
<1>6. IsFiniteSet(R \cup {m}) /\ Cardinality(R \cup {m}) = recherches + 1 /\ m \notin R
  <2>1. m \notin R
    <3>1. ~(m < m)
      OBVIOUS
    <3>2. QED
      BY <1>4, <3>1
  <2>2. /\ IsFiniteSet(R \cup {m})
        /\ Cardinality(R \cup {m}) = IF m \in R THEN Cardinality(R) ELSE Cardinality(R) + 1
    BY <1>3, FS_AddElement
  <2>3. QED
    BY <1>3, <2>1, <2>2
<1>7. \A r \in R \cup {m} : r + L <= m + L
  BY <1>1, <1>4
<1>8. R \cup {m} \in SUBSET Nat
  OBVIOUS
<1>9. ASSUME NEW T \in SUBSET Nat, Disjoint(T)
      PROVE  Cardinality({r \in T : r < m + L}) <= recherches + 1
  <2> DEFINE A == {r \in T : r < pointeur}
             B == {r \in T : r < m + L}
  <2>1. Cardinality(A) <= recherches
    BY <1>9 DEF InvCount
  <2>2. IsFiniteSet(A) /\ IsFiniteSet(B) /\ Cardinality(A) \in Nat
    <3>1. A \in SUBSET Occurrences(0) /\ B \in SUBSET Occurrences(0)
      BY <1>9 DEF Disjoint
    <3>2. QED
      BY <3>1, OccurrencesFinies, FS_CardinalityType
  \* Two disjoint occurrences do not both start in front of m + L and after pointeur.
  <2>3. ASSUME NEW x \in B, x \notin A PROVE B \subseteq A \cup {x}
    <3>1. x \in T /\ x \in Nat /\ x >= m /\ x < m + L
      BY <1>1, <1>9, <2>3 DEF Disjoint
    <3>2. ASSUME NEW y \in B, y \notin A PROVE y = x
      <4>1. y \in T /\ y \in Nat /\ y >= m /\ y < m + L
        BY <1>1, <1>9, <3>2 DEF Disjoint
      <4>2. ~(x < y) /\ ~(y < x)
        BY <1>1, <1>9, <3>1, <4>1 DEF Disjoint, L
      <4>3. QED
        BY <3>1, <4>1, <4>2
    <3>3. QED
      BY <3>2
  <2>4. A \subseteq B
    <3>1. \A r \in T : r \in Nat /\ (r < pointeur => r < m + L)
      <4>1. pointeur <= m + L /\ pointeur \in Int
        BY <1>1
      <4>2. QED
        BY <1>1, <4>1
    <3>2. QED
      BY <3>1
  <2>5. CASE B \subseteq A
    <3>1. A = B
      BY <2>4, <2>5
    <3> HIDE DEF A, B
    <3>2. QED
      <4>1. Cardinality(B) <= recherches + 1
        BY <2>1, <2>2, <3>1
      <4>2. QED
        BY <4>1 DEF B
  <2>6. CASE ~(B \subseteq A)
    <3>1. PICK x \in B : x \notin A
      BY <2>6
    <3>2. B = A \cup {x}
      BY <2>3, <2>4, <3>1
    <3> HIDE DEF A, B
    <3>3. Cardinality(B) = Cardinality(A) + 1
      BY <2>2, <3>1, <3>2, FS_AddElement
    <3>4. Cardinality(B) <= recherches + 1
      BY <2>1, <2>2, <3>3
    <3>5. QED
      BY <3>4 DEF B
  <2>7. QED
    BY <2>5, <2>6
<1>10. QED
  <2>1. \E Q \in SUBSET Nat : /\ Disjoint(Q) /\ IsFiniteSet(Q) /\ Cardinality(Q) = recherches + 1
                              /\ \A r \in Q : r + L <= m + L
    BY <1>5, <1>6, <1>7, <1>8
  <2>2. QED
    BY <1>9, <2>1 DEF L

LEMMA CountPas ==
    ASSUME OctetsTypes, InvCount, recherches \in Nat, memcount
    PROVE  InvCount'
<1>0. /\ UNCHANGED <<octets, motif>> /\ Taille \in Nat /\ Taille' = Taille
      /\ Occurrences(0)' = Occurrences(0) /\ \A R : Disjoint(R)' <=> Disjoint(R)
  BY OctetType DEF memcount, Donnees, Taille, Occurrences, Octets, octet, Disjoint
<1>1. CASE memmem(pointeur) = NULL
  <2>1. UNCHANGED <<pointeur, recherches>>
    BY <1>1 DEF memcount, Arret
  <2>2. QED
    BY <1>0, <2>1 DEF InvCount
<1>2. CASE memmem(pointeur) # NULL
  <2>1. PICK m \in Nat : m = memmem(pointeur)
    BY <1>2, OccurrencesDans DEF InvCount
  <2>2. pointeur' = m + Len(motif) /\ recherches' = recherches + 1
    BY <1>2, <2>1 DEF memcount
  <2>3. m + Len(motif) \in 0 .. Taille
    <3>1. pointeur \in Nat /\ Len(motif) \in Nat
      BY <1>0, OctetType DEF InvCount
    <3>2. m \in Occurrences(pointeur)
      BY <1>2, <2>1, <3>1, OccurrencesDans
    <3>3. m + Len(motif) <= Taille
      BY <3>1, <3>2, OccurrencesDans
    <3>4. QED
      BY <1>0, <3>1, <3>3
  <2>4. ASSUME motif # <<>>
        PROVE  /\ \E R \in SUBSET Nat : /\ Disjoint(R) /\ IsFiniteSet(R) /\ Cardinality(R) = recherches + 1
                                        /\ \A r \in R : r + Len(motif) <= m + Len(motif)
               /\ \A R \in SUBSET Nat :
                      Disjoint(R) => Cardinality({r \in R : r < m + Len(motif)}) <= recherches + 1
    BY <1>2, <2>1, <2>4, CountTrouve
  <2>5. QED
    BY <1>0, <2>2, <2>3, <2>4 DEF InvCount
<1>3. QED
  BY <1>1, <1>2

\* What memcount.c has counted when it finds nothing more.
LEMMA CountExact ==
    ASSUME OctetsTypes, InvCount, recherches \in Nat, memmem(pointeur) = NULL
    PROVE  motif # <<>> /\ recherches = Disjointes
<1>1. motif # <<>>
  BY MotifVide DEF InvCount
<1>2. Taille \in Nat /\ Len(motif) \in Nat /\ \A q \in Occurrences(0) : q \in Nat /\ q < pointeur
  BY OctetType, OccurrencesDans DEF InvCount
<1> DEFINE ensembles == {R \in SUBSET Occurrences(0) : \A q, r \in R : q < r => q + Len(motif) <= r}
           tailles == {Cardinality(S) : S \in ensembles}
<1>3. ASSUME NEW R \in ensembles PROVE Cardinality(R) \in Nat /\ Cardinality(R) <= recherches
  <2>1. R \in SUBSET Nat /\ IsFiniteSet(R) /\ Disjoint(R)
    BY OccurrencesFinies DEF Disjoint
  <2>2. {r \in R : r < pointeur} = R
    BY <1>2
  <2>3. QED
    BY <1>1, <2>1, <2>2, FS_CardinalityType DEF InvCount
<1>4. recherches \in tailles
  <2>1. PICK R \in SUBSET Nat : Disjoint(R) /\ Cardinality(R) = recherches
    BY <1>1 DEF InvCount
  <2>2. R \in ensembles
    BY <2>1 DEF Disjoint
  <2> HIDE DEF ensembles
  <2>3. QED
    BY <2>1, <2>2
<1>5. \A x \in tailles : x \in Nat /\ x <= recherches
  <2> HIDE DEF ensembles
  <2> QED
    BY <1>3
<1>6. Max(tailles) = recherches
  <2> HIDE DEF tailles
  <2>1. recherches \in tailles /\ \A y \in tailles : recherches >= y
    BY <1>4, <1>5
  <2>2. Max(tailles) \in tailles /\ \A y \in tailles : Max(tailles) >= y
    BY <2>1 DEF Max
  <2>3. Max(tailles) \in Nat /\ recherches \in Nat /\ Max(tailles) <= recherches /\ Max(tailles) >= recherches
    BY <1>5, <2>1, <2>2
  <2>4. QED
    BY <2>3
<1>7. QED
  BY <1>1, <1>6 DEF Disjointes

-----------------------------------------------------------------------------
\* Projection: memgrep.

\* The bytes to be written that come before p; p follows a line with the motif.
GardesAvant(p) == {g \in Gardes : g < p}
Suivante(p)    == p > 0 /\ \E r \in Occurrences(0) : memchr(r) = p - 1

\* memgrep.c has written what is to be written in front of the line it is at.
LignesEcrites ==
    /\ pointeur = 0 \/ Suivante(pointeur)
    /\ Len(sortie) = Cardinality(GardesAvant(pointeur))
    /\ \A i \in GardesAvant(pointeur) : sortie[Cardinality(GardesAvant(i)) + 1] = octet(i)

\* What follows p only has the motif on a last line that no newline ends.  Once
\* that line has been met the search goes on at Taille - p + 1: if the motif is not
\* found there, the end has come; if it is, the search comes back to p, or to a
\* line in front of it, from where it reaches p, and then that place again.
RetourEnArriere(p) ==
    /\ Suivante(p) /\ Occurrences(p) # {} /\ \A r \in Occurrences(p) : memchr(r) = NULL
    /\ \/ pointeur = Taille - p + 1 /\ LignesDuMotif
       \/ /\ Occurrences(Taille - p + 1) # {}
          /\ pointeur = Taille - p + 1 \/ (pointeur <= p /\ Suivante(pointeur))

InvGrep ==
    /\ pointeur \in 0 .. Taille
    /\ motif # <<>> => LignesEcrites \/ \E p \in 1 .. Taille : RetourEnArriere(p)

LEMMA GardesFinies ==
    ASSUME OctetsTypes, NEW p
    PROVE  /\ IsFiniteSet(Gardes) /\ Gardes \subseteq 0 .. Taille - 1
           /\ IsFiniteSet(GardesAvant(p)) /\ Cardinality(GardesAvant(p)) \in Nat
<1>1. IsFiniteSet(0 .. Taille - 1)
  <2>1. Taille - 1 \in Int
    BY OctetType
  <2>2. QED
    BY <2>1, FS_Interval
<1>2. Gardes \in SUBSET (0 .. Taille - 1) /\ GardesAvant(p) \in SUBSET Gardes
  BY DEF Gardes, GardesAvant
<1>3. IsFiniteSet(Gardes)
  BY <1>1, <1>2, FS_Subset
<1>4. IsFiniteSet(GardesAvant(p))
  BY <1>2, <1>3, FS_Subset
<1>5. QED
  BY <1>2, <1>3, <1>4, FS_CardinalityType

LEMMA FinsDeLigne ==
    ASSUME OctetsTypes, NEW p \in Nat
    PROVE  /\ memchr(p) # NULL => /\ memchr(p) \in p .. Taille - 1 /\ octet(memchr(p)) = NL
                                  /\ \A q \in p .. memchr(p) - 1 : octet(q) # NL
           /\ memchr(p) = NULL => \A q \in p .. Taille - 1 : octet(q) # NL
           /\ memrchr(p) \in -1 .. p - 1
           /\ memrchr(p) # -1 => octet(memrchr(p)) = NL
           /\ \A q \in memrchr(p) + 1 .. p - 1 : octet(q) # NL
<1>0. Taille \in Nat
  BY OctetType
<1>1. /\ memchr(p) # NULL => /\ memchr(p) \in p .. Taille - 1 /\ octet(memchr(p)) = NL
                             /\ \A q \in p .. memchr(p) - 1 : octet(q) # NL
      /\ memchr(p) = NULL => \A q \in p .. Taille - 1 : octet(q) # NL
  <2> DEFINE S == {q \in p .. Taille - 1 : octet(q) = NL}
  <2>1. S \in SUBSET Nat /\ memchr(p) = IF S = {} THEN NULL ELSE Min(S)
    BY DEF memchr
  <2>2. CASE S = {}
    BY <2>1, <2>2
  <2>3. CASE S # {}
    <3>1. Min(S) \in S /\ \A x \in S : Min(S) <= x
      <4> HIDE DEF S
      <4> QED
        BY <2>1, <2>3, PlusPetitEntier
    <3>2. memchr(p) = Min(S) /\ memchr(p) \in p .. Taille - 1 /\ octet(memchr(p)) = NL
      BY <2>1, <2>3, <3>1
    <3>3. memchr(p) # NULL
      BY <3>2 DEF NULL
    <3>4. ASSUME NEW q \in p .. memchr(p) - 1, octet(q) = NL PROVE FALSE
      <4>1. q \in S
        BY <1>0, <3>2, <3>4
      <4>2. Min(S) <= q /\ q < Min(S)
        BY <3>1, <3>2, <4>1
      <4>3. QED
        BY <3>2, <4>2
    <3>5. QED
      BY <3>2, <3>3, <3>4
  <2>4. QED
    BY <2>2, <2>3
<1>2. /\ memrchr(p) \in -1 .. p - 1
      /\ memrchr(p) # -1 => octet(memrchr(p)) = NL
      /\ \A q \in memrchr(p) + 1 .. p - 1 : octet(q) # NL
  <2> DEFINE S == {q \in 0 .. p - 1 : octet(q) = NL}
  <2>1. S \in SUBSET (0 .. p) /\ memrchr(p) = IF S = {} THEN NULL ELSE Max(S)
    BY DEF memrchr
  <2>2. CASE S = {}
    BY <2>1, <2>2 DEF NULL
  <2>3. CASE S # {}
    <3>1. Max(S) \in S /\ \A x \in S : x <= Max(S)
      <4> HIDE DEF S
      <4> QED
        BY <2>1, <2>3, PlusGrand
    <3>2. memrchr(p) = Max(S) /\ memrchr(p) \in 0 .. p - 1 /\ octet(memrchr(p)) = NL
      BY <2>1, <2>3, <3>1
    <3>4. ASSUME NEW q \in memrchr(p) + 1 .. p - 1, octet(q) = NL PROVE FALSE
      <4>1. q \in S
        BY <3>2, <3>4
      <4>2. q <= Max(S) /\ q > Max(S)
        BY <3>1, <3>2, <4>1
      <4>3. QED
        BY <3>2, <4>2
    <3>5. QED
      BY <3>2, <3>4
  <2>4. QED
    BY <2>2, <2>3
<1>3. QED
  BY <1>1, <1>2

\* A newline separates what is in front of it from what follows.
LEMMA LignesSeparees ==
    ASSUME OctetsTypes, NEW r \in Nat, NEW q \in Nat, NEW i \in Nat, r <= q, q < i, octet(q) = NL
    PROVE  Ligne(r) # Ligne(i)
<1>1. r <= i /\ q \in r .. i - 1
  OBVIOUS
<1>2. ~(\A x \in r .. i - 1 : octet(x) # NL)
  BY <1>1
<1>3. QED
  BY <1>1, <1>2, LigneCroissante

LEMMA LigneSuivie ==
    ASSUME OctetsTypes, NEW p \in Int, Suivante(p)
    PROVE  \E r \in Occurrences(0) : /\ r \in Nat /\ p \in 1 .. Taille /\ r < p
                                     /\ octet(p - 1) = NL /\ \A x \in r .. p - 2 : octet(x) # NL
<1>1. PICK r \in Occurrences(0) : p > 0 /\ memchr(r) = p - 1
  BY DEF Suivante
<1>2. r \in Nat /\ Taille \in Nat /\ memchr(r) # NULL /\ (p - 1) - 1 = p - 2
  BY <1>1, OccurrencesDans, OctetType DEF NULL
<1>3. /\ memchr(r) \in r .. Taille - 1 /\ octet(memchr(r)) = NL
      /\ \A q \in r .. memchr(r) - 1 : octet(q) # NL
  BY <1>2, FinsDeLigne
<1>4. QED
  BY <1>1, <1>2, <1>3

\* An occurrence that no newline follows is on a last line that is not ended.
LEMMA SansFinDeLigne ==
    ASSUME OctetsTypes, NEW m \in Occurrences(0), m < Taille, memchr(m) = NULL
    PROVE  LignesTerminees # Gardes
<1>1. m \in Nat /\ Taille \in Nat
  BY OccurrencesDans, OctetType
<1>2. m \in Gardes
  BY <1>1 DEF Gardes
<1>3. m \notin LignesTerminees
  BY <1>1, FinsDeLigne DEF LignesTerminees
<1>4. QED
  BY <1>2, <1>3

LEMMA MotifTrouve ==
    ASSUME OctetsTypes, pointeur \in 0 .. Taille, motif # <<>>, memmem(pointeur) # NULL,
           NEW m \in Nat, m = memmem(pointeur)
    PROVE  /\ Taille \in Nat /\ m \in Occurrences(0) /\ pointeur <= m /\ m < Taille
           /\ \A q \in Occurrences(0) : q \in Nat /\ (q >= pointeur => m <= q)
<1>1. Taille \in Nat /\ Len(motif) \in Nat /\ Len(motif) # 0 /\ pointeur \in Nat
  BY OctetType DEF OctetsTypes
<1>2. /\ m \in Occurrences(0) /\ m >= pointeur /\ m + Len(motif) <= Taille
      /\ \A q \in Occurrences(0) : q \in Nat /\ (q >= pointeur => m <= q)
  BY <1>1, OccurrencesDans
<1>3. QED
  BY <1>1, <1>2

\* Where the line of an occurrence ends.
FinLigne(m) == IF memchr(m) = NULL THEN Taille - 1 ELSE memchr(m)

\* The line of the next occurrence is the next one with an occurrence.
LEMMA GrepLigne ==
    ASSUME OctetsTypes, pointeur \in 0 .. Taille, LignesEcrites, motif # <<>>,
           memmem(pointeur) # NULL, NEW m \in Nat, m = memmem(pointeur),
           NEW debut \in Nat, debut = memrchr(m) + 1, NEW a \in Int, a = FinLigne(m)
    PROVE  /\ pointeur <= debut /\ debut <= m /\ m <= a /\ a \in 0 .. Taille - 1
           /\ \A q \in debut .. a - 1 : octet(q) # NL
           /\ GardesAvant(a + 1) = GardesAvant(pointeur) \cup (debut .. a)
<1>1. /\ Taille \in Nat /\ pointeur \in Nat
      /\ pointeur = 0 \/ octet(pointeur - 1) = NL
  BY OctetType, LigneSuivie DEF LignesEcrites
<1>2. m \in Occurrences(0) /\ pointeur <= m /\ m < Taille
      /\ \A q \in Occurrences(0) : q \in Nat /\ (q >= pointeur => m <= q)
  BY MotifTrouve
<1>3. a \in m .. Taille - 1 /\ \A q \in m .. a - 1 : octet(q) # NL
  <2>1. CASE memchr(m) = NULL
    <3>1. a = Taille - 1 /\ \A q \in m .. Taille - 1 : octet(q) # NL
      BY <2>1, FinsDeLigne DEF FinLigne
    <3>2. QED
      BY <1>1, <1>2, <3>1
  <2>2. CASE memchr(m) # NULL
    BY <2>2, FinsDeLigne DEF FinLigne
  <2>3. QED
    BY <2>1, <2>2
<1>4. /\ debut - 1 \in -1 .. m - 1 /\ (debut # 0 => octet(debut - 1) = NL)
      /\ \A q \in debut .. m - 1 : octet(q) # NL
  <2>1. /\ memrchr(m) \in -1 .. m - 1 /\ (memrchr(m) # -1 => octet(memrchr(m)) = NL)
        /\ \A q \in memrchr(m) + 1 .. m - 1 : octet(q) # NL
    BY FinsDeLigne
  <2>2. debut - 1 = memrchr(m) /\ (debut # 0 => memrchr(m) # -1)
    BY <2>1
  <2>3. QED
    BY <2>1, <2>2
<1>5. pointeur <= debut
  <2>1. CASE pointeur = 0
    BY <2>1
  <2>2. CASE pointeur # 0
    <3>1. ~(pointeur - 1 \in debut .. m - 1)
      BY <1>1, <1>4, <2>2
    <3>2. QED
      BY <1>1, <1>2, <1>4, <3>1
  <2>3. QED
    BY <2>1, <2>2
<1>6. ASSUME NEW i \in debut .. a PROVE i \in Gardes
  <2>1. i \in Nat /\ i \in 0 .. Taille - 1
    BY <1>1, <1>3
  <2>2. Ligne(m) = Ligne(i)
    <3>1. CASE i <= m
      <4>1. \A q \in i .. m - 1 : octet(q) # NL
        BY <1>4, <2>1
      <4>2. QED
        BY <2>1, <3>1, <4>1, LigneCroissante
    <3>2. CASE m <= i
      <4>1. \A q \in m .. i - 1 : octet(q) # NL
        BY <1>3, <2>1
      <4>2. QED
        BY <2>1, <3>2, <4>1, LigneCroissante
    <3>3. QED
      BY <2>1, <3>1, <3>2
  <2>3. QED
    BY <1>2, <2>1, <2>2 DEF Gardes
<1>7. ASSUME NEW i \in Gardes, pointeur <= i, i < debut PROVE FALSE
  <2>1. i \in Nat
    BY <1>1 DEF Gardes
  <2>2. PICK r \in Occurrences(0) : Ligne(r) = Ligne(i)
    BY DEF Gardes
  <2>3. CASE r >= pointeur
    <3>1. m <= r /\ r \in Nat /\ debut # 0 /\ octet(debut - 1) = NL /\ debut - 1 \in Nat
          /\ i <= debut - 1 /\ debut - 1 < r
      BY <1>2, <1>4, <1>7, <2>1, <2>3
    <3>2. QED
      BY <2>1, <2>2, <3>1, LignesSeparees
  <2>4. CASE r < pointeur
    <3>1. r \in Nat /\ octet(pointeur - 1) = NL /\ pointeur - 1 \in Nat /\ r <= pointeur - 1
          /\ pointeur - 1 < i
      BY <1>1, <1>2, <1>7, <2>1, <2>4
    <3>2. QED
      BY <2>1, <2>2, <3>1, LignesSeparees
  <2>5. QED
    BY <1>1, <1>2, <2>3, <2>4
<1>8. GardesAvant(a + 1) = GardesAvant(pointeur) \cup (debut .. a)
  <2>1. ASSUME NEW i \in Gardes
        PROVE  i < a + 1 <=> i < pointeur \/ i \in debut .. a
    <3>1. i \in Nat
      BY <1>1 DEF Gardes
    <3>2. ~(pointeur <= i /\ i < debut)
      BY <1>7
    <3>3. QED
      BY <1>1, <1>2, <1>3, <1>4, <1>5, <3>1, <3>2
  <2>2. QED
    BY <1>6, <2>1 DEF GardesAvant
<1>9. \A q \in debut .. a - 1 : octet(q) # NL
  BY <1>1, <1>3, <1>4
<1>10. QED
  BY <1>1, <1>3, <1>4, <1>5, <1>8, <1>9

\* The rank of a byte among those to be written.
LEMMA RangGarde ==
    ASSUME OctetsTypes, NEW p \in Nat, NEW i \in GardesAvant(p)
    PROVE  /\ Cardinality(GardesAvant(i)) \in Nat /\ Cardinality(GardesAvant(p)) \in Nat
           /\ Cardinality(GardesAvant(i)) + 1 <= Cardinality(GardesAvant(p))
<1>1. i \in Nat /\ i < p /\ \A g \in Gardes : g \in Nat
  <2>1. Gardes \subseteq 0 .. Taille - 1 /\ Taille \in Nat
    BY GardesFinies, OctetType
  <2>2. QED
    BY <2>1 DEF GardesAvant
<1>2. GardesAvant(i) \in SUBSET GardesAvant(p) /\ GardesAvant(i) # GardesAvant(p)
  <2>1. \A g \in GardesAvant(i) : g \in GardesAvant(p)
    BY <1>1 DEF GardesAvant
  <2>2. i \notin GardesAvant(i)
    BY <1>1 DEF GardesAvant
  <2>3. QED
    BY <2>1, <2>2
<1>3. IsFiniteSet(GardesAvant(p))
  BY GardesFinies
<1>4. /\ Cardinality(GardesAvant(i)) <= Cardinality(GardesAvant(p))
      /\ Cardinality(GardesAvant(i)) # Cardinality(GardesAvant(p))
  BY <1>2, <1>3, FS_Subset
<1>5. Cardinality(GardesAvant(i)) \in Nat /\ Cardinality(GardesAvant(p)) \in Nat
  BY GardesFinies
<1>6. QED
  BY <1>4, <1>5

\* The first n bytes of the line are written.
LEMMA GrepOctets ==
    ASSUME OctetsTypes, LignesEcrites, pointeur \in Nat, NEW debut \in Nat, NEW a \in Nat,
           pointeur <= debut, debut <= a,
           GardesAvant(a + 1) = GardesAvant(pointeur) \cup (debut .. a),
           NEW n \in Nat, n <= a - debut + 1, sortie' = sortie \o Octets(debut, n)
    PROVE  /\ sortie' \in Seq(Nat) /\ Len(sortie') = Cardinality(GardesAvant(pointeur)) + n
           /\ Cardinality(GardesAvant(a + 1)) = Cardinality(GardesAvant(pointeur)) + (a - debut + 1)
           /\ \A i \in GardesAvant(a + 1) :
                  Cardinality(GardesAvant(i)) + 1 <= Len(sortie') =>
                      sortie'[Cardinality(GardesAvant(i)) + 1] = octet(i)
<1>0. PICK G : G = GardesAvant(pointeur)
  OBVIOUS
<1>1. /\ sortie' \in Seq(Nat) /\ Len(sortie') = Len(sortie) + n
      /\ \A k \in 1 .. Len(sortie) : sortie'[k] = sortie[k]
      /\ \A k \in 1 .. n : sortie'[Len(sortie) + k] = octet(debut + k - 1)
  <2>1. PICK s : s = sortie \o Octets(debut, n)
    OBVIOUS
  <2>2. /\ s \in Seq(Nat) /\ Len(s) = Len(sortie) + n
        /\ \A k \in 1 .. Len(sortie) : s[k] = sortie[k]
        /\ \A k \in 1 .. n : s[Len(sortie) + k] = octet(debut + k - 1)
    BY <2>1, Ecrit
  <2>3. sortie' = s
    BY <2>1
  <2>4. QED
    BY <2>2, <2>3
<1>2. \A i \in Gardes : i \in Nat
  <2>1. Gardes \subseteq 0 .. Taille - 1 /\ Taille \in Nat
    BY GardesFinies, OctetType
  <2>2. QED
    BY <2>1
<1>3. /\ Len(sortie) = Cardinality(G) /\ IsFiniteSet(G) /\ Cardinality(G) \in Nat
      /\ \A i \in G : sortie[Cardinality(GardesAvant(i)) + 1] = octet(i)
  BY <1>0, GardesFinies DEF LignesEcrites
<1>4. /\ \A i \in G : i \in Gardes /\ i < pointeur
      /\ \A i \in Gardes : i < a + 1 <=> i \in G \cup (debut .. a)
      /\ \A i \in G \cup (debut .. a) : i \in Gardes
  BY <1>0 DEF GardesAvant
<1>5. \A i \in G : i \in Nat /\ i < debut
  BY <1>2, <1>4
<1>6. ASSUME NEW b \in Int, b >= debut - 1, b <= a
      PROVE  /\ IsFiniteSet(G \cup (debut .. b))
             /\ Cardinality(G \cup (debut .. b)) = Cardinality(G) + (b - debut + 1)
  <2>1. G \cap (debut .. b) = {}
    BY <1>5
  <2>2. debut \in Int
    OBVIOUS
  <2>3. /\ IsFiniteSet(G \cup (debut .. b))
        /\ Cardinality(G \cup (debut .. b)) = Cardinality(G) + (IF debut > b THEN 0 ELSE b - debut + 1)
    BY <1>3, <1>6, <2>1, <2>2, Intervalles
  <2>4. (IF debut > b THEN 0 ELSE b - debut + 1) = b - debut + 1
    BY <1>6
  <2>5. QED
    BY <2>3, <2>4
<1>7. Cardinality(GardesAvant(a + 1)) = Cardinality(G) + (a - debut + 1)
  <2>1. a \in Int /\ a >= debut - 1 /\ a <= a
    OBVIOUS
  <2>2. Cardinality(G \cup (debut .. a)) = Cardinality(G) + (a - debut + 1)
    BY <1>6, <2>1
  <2>3. QED
    BY <1>0, <2>2
<1>8. ASSUME NEW i \in G \cup (debut .. a), Cardinality(GardesAvant(i)) + 1 <= Len(sortie')
      PROVE  sortie'[Cardinality(GardesAvant(i)) + 1] = octet(i)
  <2>1. CASE i \in G
    <3>1. PICK c : c = Cardinality(GardesAvant(i))
      OBVIOUS
    <3>2. c \in Nat /\ c + 1 <= Cardinality(G)
      BY <1>0, <2>1, <3>1, RangGarde
    <3>3. c + 1 \in 1 .. Len(sortie)
      BY <1>3, <3>2
    <3>4. sortie'[c + 1] = sortie[c + 1]
      BY <1>1, <3>3
    <3>5. QED
      BY <1>3, <2>1, <3>1, <3>4
  <2>2. CASE i \in debut .. a
    <3>0. i \in Nat /\ debut <= i /\ i <= a
      BY <2>2
    <3>1. GardesAvant(i) = G \cup (debut .. i - 1)
      <4>1. ASSUME NEW g \in Gardes, g < i PROVE g \in G \cup (debut .. i - 1)
        <5>1. g \in G \cup (debut .. a)
          BY <1>2, <1>4, <3>0, <4>1
        <5>2. g \in debut .. a => g \in debut .. i - 1
          BY <3>0, <4>1
        <5>3. QED
          BY <5>1, <5>2
      <4>2. ASSUME NEW g \in G \cup (debut .. i - 1) PROVE g \in Gardes /\ g < i
        <5>1. CASE g \in G
          BY <1>4, <1>5, <3>0, <5>1
        <5>2. CASE g \in debut .. i - 1
          <6>1. g \in debut .. a /\ g < i
            BY <3>0, <5>2
          <6>2. QED
            BY <1>4, <6>1
        <5>3. QED
          BY <5>1, <5>2
      <4>3. QED
        BY <4>1, <4>2 DEF GardesAvant
    <3>2. Cardinality(GardesAvant(i)) = Cardinality(G) + (i - debut)
      <4>1. PICK b \in Int : b = i - 1
        BY <3>0
      <4>2. b >= debut - 1 /\ b <= a /\ b - debut + 1 = i - debut
        BY <3>0, <4>1
      <4>3. Cardinality(G \cup (debut .. b)) = Cardinality(G) + (b - debut + 1)
        BY <1>6, <4>1, <4>2
      <4>4. QED
        BY <3>1, <4>1, <4>2, <4>3
    <3>3. PICK k \in Int : k = i - debut + 1
      BY <3>0
    <3>4. /\ Cardinality(GardesAvant(i)) + 1 = Len(sortie) + k
          /\ k >= 1 /\ debut + k - 1 = i
      BY <1>3, <3>0, <3>2, <3>3
    <3>5. k \in 1 .. n
      BY <1>1, <1>3, <1>8, <3>4
    <3>6. QED
      BY <1>1, <3>4, <3>5
  <2>3. QED
    BY <2>1, <2>2
<1>9. QED
  BY <1>0, <1>1, <1>3, <1>7, <1>8

\* The line that a newline ends has been written.
LEMMA GrepEcrit ==
    ASSUME OctetsTypes, UNCHANGED Donnees, NEW m \in Occurrences(0), NEW a \in Nat, a = memchr(m),
           pointeur' = a + 1, Len(sortie') = Cardinality(GardesAvant(a + 1)),
           \A i \in GardesAvant(a + 1) :
               Cardinality(GardesAvant(i)) + 1 <= Len(sortie') =>
                   sortie'[Cardinality(GardesAvant(i)) + 1] = octet(i)
    PROVE  LignesEcrites'
<1>1. a + 1 \in Nat /\ a + 1 > 0 /\ (a + 1) - 1 = a
  OBVIOUS
<1>2. \A i \in GardesAvant(a + 1) : sortie'[Cardinality(GardesAvant(i)) + 1] = octet(i)
  BY <1>1, RangGarde
<1>3. /\ \A i : GardesAvant(i)' = GardesAvant(i) /\ octet(i)' = octet(i)
      /\ GardesAvant(pointeur)' = GardesAvant(a + 1)
  BY OctetsInchanges DEF GardesAvant
<1>4. Suivante(pointeur)'
  <2>1. Occurrences(0)' = Occurrences(0) /\ memchr(m)' = memchr(m)
    BY OctetsInchanges
  <2>2. QED
    BY <1>1, <2>1 DEF Suivante
<1>5. QED
  BY <1>2, <1>3, <1>4 DEF LignesEcrites

\* The last line, that no newline ends: what precedes it is all that a newline
\* ends, and it may be cut.
LEMMA GrepCoupe ==
    ASSUME OctetsTypes, pointeur \in 1 .. Taille, LignesEcrites, motif # <<>>, UNCHANGED Donnees,
           memmem(pointeur) # NULL, NEW m \in Nat, m = memmem(pointeur), memchr(m) = NULL,
           NEW debut \in Nat, debut = memrchr(m) + 1,
           NEW longueur \in Int, longueur = (Taille - pointeur) - debut + 1,
           sortie' = IF longueur > 0 THEN sortie \o Octets(debut, longueur) ELSE sortie
    PROVE  LignesDuMotif'
<1>0. Taille \in Nat /\ pointeur \in Nat /\ pointeur >= 1
  BY OctetType
<1>1. PICK a \in Nat : a = Taille - 1
  BY <1>0
<1>2. /\ pointeur <= debut /\ debut <= m /\ m <= a
      /\ \A q \in debut .. a - 1 : octet(q) # NL
      /\ GardesAvant(a + 1) = GardesAvant(pointeur) \cup (debut .. a)
  <2>1. a = FinLigne(m) /\ pointeur \in 0 .. Taille /\ a \in Int
    BY <1>0, <1>1 DEF FinLigne
  <2>2. QED
    BY <2>1, GrepLigne
<1>3. PICK n \in Nat : n = IF longueur > 0 THEN longueur ELSE 0
  OBVIOUS
<1>4. n <= a - debut + 1 /\ sortie' = sortie \o Octets(debut, n)
  <2>1. CASE longueur > 0
    BY <1>0, <1>1, <1>3, <2>1
  <2>2. CASE ~(longueur > 0)
    <3>1. Octets(debut, 0) = <<>> /\ sortie \in Seq(Nat)
      BY OctetsSuite DEF OctetsTypes
    <3>2. QED
      BY <1>0, <1>1, <1>2, <1>3, <2>2, <3>1
  <2>3. QED
    BY <2>1, <2>2
<1>5. /\ Len(sortie') = Cardinality(GardesAvant(pointeur)) + n
      /\ Cardinality(GardesAvant(a + 1)) = Cardinality(GardesAvant(pointeur)) + (a - debut + 1)
      /\ \A i \in GardesAvant(a + 1) :
             Cardinality(GardesAvant(i)) + 1 <= Len(sortie') =>
                 sortie'[Cardinality(GardesAvant(i)) + 1] = octet(i)
  <2>1. debut <= a
    BY <1>2
  <2>2. QED
    BY <1>0, <1>2, <1>4, <2>1, GrepOctets
<1>6. GardesAvant(a + 1) = Gardes
  <2>1. Gardes \subseteq 0 .. Taille - 1
    BY GardesFinies
  <2>2. \A i \in Gardes : i < a + 1
    BY <1>0, <1>1, <2>1
  <2>3. QED
    BY <2>2 DEF GardesAvant
<1>7. GardesAvant(pointeur) = LignesTerminees
  <2>1. octet(pointeur - 1) = NL
    BY <1>0, LigneSuivie DEF LignesEcrites
  <2>2. ASSUME NEW i \in GardesAvant(pointeur) PROVE i \in LignesTerminees
    <3>0. Gardes \subseteq 0 .. Taille - 1
      BY GardesFinies
    <3>1. i \in Gardes /\ i \in Nat /\ i < pointeur
      BY <1>0, <3>0 DEF GardesAvant
    <3>2. pointeur - 1 \in i .. Taille - 1
      BY <1>0, <3>1
    <3>3. QED
      BY <2>1, <3>1, <3>2 DEF LignesTerminees
  <2>3. ASSUME NEW i \in LignesTerminees PROVE i \in GardesAvant(pointeur)
    <3>1. i \in Gardes /\ i \in GardesAvant(pointeur) \cup (debut .. a)
      BY <1>2, <1>6 DEF LignesTerminees
    <3>2. ASSUME i \in debut .. a PROVE FALSE
      <4>1. PICK q \in i .. Taille - 1 : octet(q) = NL
        BY DEF LignesTerminees
      <4>2. q \notin debut .. a - 1 /\ q \in debut .. a
        BY <1>1, <1>2, <3>2, <4>1
      <4>3. q = a /\ a \in m .. Taille - 1
        BY <1>1, <1>2, <4>2
      <4>4. QED
        BY <4>1, <4>3, FinsDeLigne
    <3>3. QED
      BY <3>1, <3>2
  <2>4. QED
    BY <2>2, <2>3
<1>8. Len(sortie') \in Cardinality(LignesTerminees) .. Cardinality(Gardes)
  <2>1. PICK c \in Nat : c = Cardinality(GardesAvant(pointeur))
    BY GardesFinies
  <2>2. /\ Len(sortie') = c + n /\ Cardinality(LignesTerminees) = c
        /\ Cardinality(Gardes) = c + (a - debut + 1)
    BY <1>5, <1>6, <1>7, <2>1
  <2>3. n >= 0 /\ n <= a - debut + 1 /\ a - debut + 1 \in Int
    BY <1>4
  <2>4. QED
    BY <2>2, <2>3
<1>9. /\ Gardes' = Gardes /\ LignesTerminees' = LignesTerminees
      /\ \A i : octet(i)' = octet(i)
  BY OctetsInchanges
<1>10. \A i \in Gardes : LET place == Cardinality({g \in Gardes : g < i}) + 1
                         IN  place <= Len(sortie') => sortie'[place] = octet(i)
  BY <1>5, <1>6 DEF GardesAvant
<1>11. QED
  BY <1>8, <1>9, <1>10 DEF LignesDuMotif

\* From the last line to the one that precedes it, and back: the end never comes.
LEMMA GrepBoucle ==
    ASSUME OctetsTypes, pointeur \in 0 .. Taille, motif # <<>>, UNCHANGED Donnees,
           memmem(pointeur) # NULL, NEW m \in Nat, m = memmem(pointeur),
           pointeur' = (IF memchr(m) = NULL THEN Taille - pointeur ELSE memchr(m)) + 1,
           NEW p \in 1 .. Taille, RetourEnArriere(p)
    PROVE  RetourEnArriere(p)'
<1>1. /\ Taille \in Nat /\ m \in Occurrences(0) /\ pointeur <= m /\ m < Taille
      /\ \A q \in Occurrences(0) : q \in Nat /\ (q >= pointeur => m <= q)
  BY MotifTrouve
<1>2. p \in Nat /\ p >= 1 /\ p <= Taille /\ pointeur \in Nat
  BY <1>1
<1>3. /\ Suivante(p) /\ Occurrences(p) # {} /\ \A r \in Occurrences(p) : memchr(r) = NULL
      /\ pointeur = Taille - p + 1 \/ (pointeur <= p /\ Suivante(pointeur))
      /\ Occurrences(Taille - p + 1) # {}
  <2>1. CASE pointeur = Taille - p + 1
    <3>1. Occurrences(pointeur) # {}
      BY <1>2, OccurrencesDans
    <3>2. QED
      BY <2>1, <3>1 DEF RetourEnArriere
  <2>2. CASE pointeur # Taille - p + 1
    BY <2>2 DEF RetourEnArriere
  <2>3. QED
    BY <2>1, <2>2
<1>4. \A r \in Occurrences(0) : r >= p => memchr(r) = NULL
  BY <1>2, <1>3, OccurrencesDans
<1>5. PICK r \in Occurrences(0) : /\ r \in Nat /\ r < p /\ octet(p - 1) = NL
                                  /\ \A x \in r .. p - 2 : octet(x) # NL
  BY <1>2, <1>3, LigneSuivie
<1>6. \/ pointeur' = Taille - p + 1
      \/ pointeur' \in Nat /\ pointeur' <= p /\ Suivante(pointeur')
  <2>1. CASE memchr(m) # NULL
    <3>1. memchr(m) \in m .. Taille - 1 /\ \A q \in m .. memchr(m) - 1 : octet(q) # NL
      BY <2>1, FinsDeLigne
    <3>2. m < p
      BY <1>1, <1>2, <1>4, <2>1
    <3>3. memchr(m) <= p - 1
      <4>1. ~(p - 1 \in m .. memchr(m) - 1)
        BY <1>5, <3>1
      <4>2. QED
        BY <1>2, <3>1, <3>2, <4>1
    <3>4. pointeur' = memchr(m) + 1 /\ pointeur' > 0 /\ pointeur' - 1 = memchr(m) /\ pointeur' \in Nat
      BY <2>1, <3>1
    <3>5. Suivante(pointeur')
      BY <1>1, <3>4 DEF Suivante
    <3>6. QED
      BY <1>2, <3>1, <3>3, <3>4, <3>5
  <2>2. CASE memchr(m) = NULL /\ pointeur = Taille - p + 1
    <3>1. pointeur' = p
      BY <1>1, <1>2, <2>2
    <3>2. QED
      BY <1>2, <1>3, <3>1
  <2>3. CASE memchr(m) = NULL /\ pointeur <= p /\ Suivante(pointeur)
    <3>1. pointeur > 0 /\ octet(pointeur - 1) = NL
      BY <1>2, <2>3, LigneSuivie
    <3>2. ASSUME pointeur < p PROVE FALSE
      <4>1. ~(pointeur - 1 \in r .. p - 2)
        BY <1>5, <3>1
      <4>2. r >= pointeur
        BY <1>2, <1>5, <3>1, <3>2, <4>1
      <4>3. m <= r /\ p - 1 \in m .. Taille - 1
        BY <1>1, <1>2, <1>5, <4>2
      <4>4. QED
        BY <1>5, <2>3, <4>3, FinsDeLigne
    <3>3. pointeur = p
      BY <1>2, <2>3, <3>2
    <3>4. QED
      BY <2>3, <3>3
  <2>4. QED
    BY <1>3, <2>1, <2>2, <2>3
<1>7. /\ Taille' = Taille /\ \A q : Occurrences(q)' = Occurrences(q)
      /\ \A q : memchr(q)' = memchr(q) /\ Suivante(q)' = Suivante(q)
  BY OctetsInchanges DEF Suivante
<1>8. Suivante(pointeur') => Suivante(pointeur)'
  BY <1>7 DEF Suivante
<1>9. QED
  BY <1>3, <1>6, <1>7, <1>8 DEF RetourEnArriere

LEMMA GrepPas ==
    ASSUME OctetsTypes, InvGrep, Taille > 0, memgrep
    PROVE  /\ OctetsTypes' /\ pointeur' \in 0 .. Taille + 1
           /\ avancement' # "indefini" => InvGrep'
           /\ avancement' = "indefini" => LignesTerminees # Gardes
<1>1. /\ Taille \in Nat /\ Len(motif) \in Nat /\ pointeur \in 0 .. Taille /\ UNCHANGED Donnees
      /\ Taille' = Taille /\ motif' = motif /\ avancement = "boucle"
  BY OctetType, OctetsInchanges DEF InvGrep, memgrep, Donnees
<1>2. CASE memmem(pointeur) = NULL
  <2>1. UNCHANGED <<octets, motif, pointeur, sortie>> /\ avancement' = "fini"
    BY <1>1, <1>2 DEF memgrep, Arret, Donnees
  <2>2. OctetsTypes' /\ pointeur' \in 0 .. Taille + 1
    BY <1>1, <2>1 DEF OctetsTypes
  <2>3. InvGrep' = InvGrep
    BY <2>1 DEF InvGrep, LignesEcrites, RetourEnArriere, LignesDuMotif, Suivante, GardesAvant,
                LignesTerminees, Gardes, Ligne, Occurrences, Octets, octet, Taille, memchr
  <2>4. QED
    BY <2>1, <2>2, <2>3
<1>3. CASE memmem(pointeur) # NULL
  <2>1. PICK m \in Nat : m = memmem(pointeur)
    BY <1>1, <1>3, OccurrencesDans
  <2>2. /\ m \in Occurrences(0) /\ m + Len(motif) <= Taille /\ pointeur <= m
        /\ \A q \in Occurrences(pointeur) : m <= q
    BY <1>1, <1>3, <2>1, OccurrencesDans
  <2>3. PICK debut \in Nat : debut = memrchr(m) + 1
    <3>1. memrchr(m) \in -1 .. m - 1
      BY FinsDeLigne
    <3>2. QED
      BY <3>1
  <2> DEFINE adresse == IF memchr(m) = NULL THEN Taille - pointeur ELSE memchr(m)
             longueur == adresse - debut + 1
  <2>4. /\ adresse \in Nat /\ adresse <= Taille /\ longueur \in Int
        /\ memchr(m) # NULL => memchr(m) \in m .. Taille - 1 /\ adresse + 1 <= Taille
    <3>1. memchr(m) # NULL => memchr(m) \in m .. Taille - 1
      BY FinsDeLigne
    <3>2. CASE memchr(m) = NULL
      BY <1>1, <3>2
    <3>3. CASE memchr(m) # NULL
      <4>1. adresse = memchr(m) /\ memchr(m) \in Nat /\ memchr(m) + 1 <= Taille
        BY <1>1, <3>1, <3>3
      <4>2. QED
        BY <1>1, <3>1, <4>1
    <3>4. QED
      BY <3>2, <3>3
  <2>5. \/ /\ pointeur' = adresse + 1
           /\ sortie' = IF longueur > 0 THEN sortie \o Octets(debut, longueur) ELSE sortie
           /\ avancement' = IF pointeur' > Taille THEN "indefini" ELSE avancement
        \/ /\ memchr(m) = NULL /\ m > pointeur /\ avancement' = "indefini"
           /\ UNCHANGED <<pointeur, sortie>>
    BY <1>3, <2>1, <2>3 DEF memgrep
  <2>6. OctetsTypes'
    <3>1. CASE sortie' = sortie \o Octets(debut, longueur) /\ longueur > 0
      <4>1. longueur \in Nat
        BY <2>4, <3>1
      <4> HIDE DEF longueur
      <4>2. sortie' \in Seq(Nat)
        BY <3>1, <4>1, Ecrit
      <4>3. QED
        BY <1>1, <4>2 DEF OctetsTypes, Donnees
    <3>2. CASE sortie' = sortie
      BY <1>1, <3>2 DEF OctetsTypes, Donnees
    <3>3. QED
      BY <2>5, <3>1, <3>2
  <2>7. pointeur' \in 0 .. Taille + 1
    <3> HIDE DEF adresse
    <3> QED
      BY <1>1, <2>4, <2>5
  <2>8. ASSUME avancement' = "indefini" PROVE LignesTerminees # Gardes
    <3>1. memchr(m) = NULL /\ (pointeur = 0 \/ m > pointeur)
      <4>1. memchr(m) = NULL
        <5> HIDE DEF adresse
        <5> QED
          BY <1>1, <2>4, <2>5, <2>8
      <4>2. adresse = Taille - pointeur
        BY <4>1
      <4> HIDE DEF adresse
      <4>3. QED
        BY <1>1, <2>5, <2>8, <4>1, <4>2
    <3>2. m < Taille
      <4>1. CASE motif # <<>>
        BY <1>1, <1>3, <2>1, <4>1, MotifTrouve
      <4>2. CASE motif = <<>>
        <5>1. Len(motif) = 0 /\ Octets(pointeur, 0) = <<>>
          BY <1>1, <4>2, OctetsSuite
        <5>2. pointeur \in Occurrences(pointeur)
          BY <1>1, <4>2, <5>1 DEF Occurrences
        <5>3. QED
          BY <1>1, <2>2, <3>1, <5>2
      <4>3. QED
        BY <4>1, <4>2
    <3>3. QED
      BY <2>2, <3>1, <3>2, SansFinDeLigne
  <2>9. ASSUME avancement' # "indefini", motif # <<>>
        PROVE  LignesEcrites' \/ \E p \in 1 .. Taille : RetourEnArriere(p)'
    <3>1. /\ pointeur' = adresse + 1 /\ ~(pointeur' > Taille)
          /\ sortie' = IF longueur > 0 THEN sortie \o Octets(debut, longueur) ELSE sortie
      <4> HIDE DEF adresse
      <4> QED
        BY <2>5, <2>9
    <3>2. CASE LignesEcrites /\ memchr(m) # NULL
      <4>1. PICK a \in Nat : a = memchr(m)
        BY <2>4, <3>2
      <4>2. /\ pointeur <= debut /\ debut <= a /\ pointeur \in Nat
            /\ GardesAvant(a + 1) = GardesAvant(pointeur) \cup (debut .. a)
        <5>1. a = FinLigne(m) /\ a \in Int
          BY <3>2, <4>1 DEF FinLigne
        <5>2. /\ pointeur <= debut /\ debut <= m /\ m <= a
              /\ GardesAvant(a + 1) = GardesAvant(pointeur) \cup (debut .. a)
          BY <1>1, <1>3, <2>1, <2>3, <2>9, <3>2, <5>1, GrepLigne
        <5>3. QED
          BY <1>1, <5>2
      <4>3. PICK n \in Nat : n = a - debut + 1
        BY <4>2
      <4>4. pointeur' = a + 1 /\ sortie' = sortie \o Octets(debut, n) /\ n <= a - debut + 1
        BY <3>1, <3>2, <4>1, <4>2, <4>3
      <4>5. /\ Len(sortie') = Cardinality(GardesAvant(pointeur)) + n
            /\ Cardinality(GardesAvant(a + 1)) = Cardinality(GardesAvant(pointeur)) + (a - debut + 1)
            /\ \A i \in GardesAvant(a + 1) :
                   Cardinality(GardesAvant(i)) + 1 <= Len(sortie') =>
                       sortie'[Cardinality(GardesAvant(i)) + 1] = octet(i)
        BY <3>2, <4>2, <4>4, GrepOctets
      <4>6. Len(sortie') = Cardinality(GardesAvant(a + 1))
        BY <4>3, <4>5
      <4>7. QED
        BY <1>1, <2>2, <4>1, <4>4, <4>5, <4>6, GrepEcrit
    <3>3. CASE LignesEcrites /\ memchr(m) = NULL
      <4>1. pointeur' = Taille - pointeur + 1 /\ pointeur \in 1 .. Taille
        BY <1>1, <3>1, <3>3
      <4>2. PICK l \in Int : l = (Taille - pointeur) - debut + 1
        BY <1>1
      <4>3. LignesDuMotif'
        <5>1. sortie' = IF l > 0 THEN sortie \o Octets(debut, l) ELSE sortie
          BY <3>1, <3>3, <4>2
        <5>2. QED
          BY <1>1, <1>3, <2>1, <2>3, <2>9, <3>3, <4>1, <4>2, <5>1, GrepCoupe
      <4>4. Suivante(pointeur) /\ m \in Occurrences(pointeur)
        BY <1>1, <2>2, <3>3, <4>1, OccurrencesDans DEF LignesEcrites
      <4>5. ASSUME NEW r \in Occurrences(pointeur) PROVE memchr(r) = NULL
        <5>1. r \in Nat /\ m <= r
          BY <1>1, <2>2, OccurrencesDans
        <5>2. memchr(r) # NULL => memchr(r) \in m .. Taille - 1 /\ octet(memchr(r)) = NL
          BY <1>1, <5>1, FinsDeLigne
        <5>3. QED
          BY <3>3, <5>2, FinsDeLigne
      <4>6. PICK p \in 1 .. Taille : p = pointeur
        BY <4>1
      <4>7. /\ Taille' = Taille /\ \A q : Occurrences(q)' = Occurrences(q)
            /\ \A q : memchr(q)' = memchr(q) /\ Suivante(q)' = Suivante(q)
        BY <1>1, OctetsInchanges DEF Suivante
      <4>8. RetourEnArriere(p)'
        BY <4>1, <4>3, <4>4, <4>5, <4>6, <4>7 DEF RetourEnArriere
      <4>9. QED
        BY <4>8
    <3>4. CASE \E p \in 1 .. Taille : RetourEnArriere(p)
      <4>1. PICK p \in 1 .. Taille : RetourEnArriere(p)
        BY <3>4
      <4>2. RetourEnArriere(p)'
        BY <1>1, <1>3, <2>1, <2>9, <3>1, <4>1, GrepBoucle
      <4>3. QED
        BY <4>2
    <3>5. QED
      BY <2>9, <3>2, <3>3, <3>4 DEF InvGrep
  <2>10. ASSUME avancement' # "indefini" PROVE InvGrep'
    <3>1. pointeur' \in 0 .. Taille
      <4> HIDE DEF adresse
      <4> QED
        BY <1>1, <2>4, <2>5, <2>10
    <3>2. QED
      BY <1>1, <2>9, <2>10, <3>1 DEF InvGrep
  <2>11. QED
    BY <2>6, <2>7, <2>8, <2>10
<1>4. QED
  BY <1>2, <1>3

-----------------------------------------------------------------------------
\* Projection: the four programs.

LEMMA PasProjection ==
    ASSUME [Next]_vars
    PROVE  \/ programme \in ProgrammesProjection /\ NextProjection /\ UNCHANGED programme
           \/ UNCHANGED <<programme, varsProjection>>
BY DEF Next, VersLaFin, Exterieur, Hors, Labos1, Labos2, Labos3, vars

TypeProjection ==
    /\ programme \in ProgrammesProjection /\ OctetsTypes
    /\ avancement \in {"projeter", "boucle", "fini", "erreur", "indefini"}
    /\ pointeur \in -2 .. Taille + 1 /\ fin \in 0 .. Taille /\ recherches \in 0 .. MAXTOURS
    /\ avancement = "projeter" => sortie = <<>> /\ recherches = 0
    /\ avancement \in {"boucle", "fini"} => Taille > 0
    /\ avancement = "indefini" => programme = "memgrep" /\ LignesTerminees # Gardes

\* What the loop of each program keeps, and where it ends.
Boucles ==
    /\ programme = "memcat" /\ avancement = "fini" => IsPrefix(sortie, octets)
    /\ avancement \in {"boucle", "fini"} =>
           /\ programme = "memtac"   => InvTac
           /\ programme = "memcount" => InvCount
           /\ programme = "memgrep"  => InvGrep
    /\ avancement = "fini" =>
           /\ programme = "memtac" => pointeur < 0
           /\ programme \in {"memcount", "memgrep"} => memmem(pointeur) = NULL

InvProjection ==
    /\ programme \notin ProgrammesProjection => ReposProjection
    /\ programme \in ProgrammesProjection => TypeProjection /\ Boucles

LEMMA ProjectionInitiale ==
    ASSUME Init
    PROVE  InvProjection
<1>1. CASE programme \notin ProgrammesProjection
  BY <1>1 DEF Init, InvProjection
<1>2. CASE programme \in ProgrammesProjection
  <2>1. InitProjection
    BY <1>2 DEF Init
  <2>2. octets \in Seq(Nat)
    BY <2>1, ProjectionAssumption DEF InitProjection, SeqOf, NL, Lettres
  <2>3. motif \in Seq(Nat)
    <3>1. motif \in SeqOf(Lettres, 2) \/ motif = <<>>
      BY <2>1 DEF InitProjection
    <3>2. CASE motif = <<>>
      BY <3>2
    <3>3. CASE motif \in SeqOf(Lettres, 2)
      <4>1. PICK k \in 0 .. 2 : motif \in [1 .. k -> Lettres]
        BY <3>3 DEF SeqOf
      <4>2. k \in Nat /\ motif \in [1 .. k -> Nat]
        BY <4>1 DEF Lettres
      <4>3. QED
        BY <4>2
    <3>4. QED
      BY <3>1, <3>2, <3>3
  <2>4. Taille \in Nat
    BY <2>2 DEF Taille
  <2>5. /\ avancement = "projeter" /\ pointeur = 0 /\ fin = 0 /\ recherches = 0 /\ sortie = <<>>
        /\ programme \in ProgrammesProjection
    BY <2>1 DEF InitProjection
  <2>6. /\ pointeur \in -2 .. Taille + 1 /\ fin \in 0 .. Taille /\ recherches \in 0 .. MAXTOURS
    BY <2>4, <2>5, ProjectionAssumption
  <2>7. QED
    BY <1>2, <2>2, <2>3, <2>5, <2>6 DEF InvProjection, TypeProjection, Boucles, OctetsTypes
<1>3. QED
  BY <1>1, <1>2

\* What the loops start from.
LEMMA ProjeterPas ==
    ASSUME TypeProjection, Projeter, UNCHANGED programme
    PROVE  TypeProjection' /\ Boucles'
<1>1. /\ UNCHANGED <<programme, octets, motif, sortie, recherches>> /\ Taille \in Nat
      /\ Taille' = Taille /\ UNCHANGED Donnees
      /\ sortie = <<>> /\ Len(sortie) = 0 /\ recherches = 0 /\ fin' = Taille
      /\ pointeur' = IF programme = "memtac" THEN Taille - 2 ELSE 0
      /\ avancement' \in {"boucle", "erreur"} /\ (avancement' = "boucle" => Taille > 0)
  BY OctetType DEF TypeProjection, Projeter, Donnees, Taille
<1>2. OctetsTypes'
  BY <1>1 DEF TypeProjection, OctetsTypes
<1>3. pointeur' \in -2 .. Taille + 1
  BY <1>1
<1>4. TypeProjection'
  BY <1>1, <1>2, <1>3 DEF TypeProjection, ProgrammesProjection
<1>5. ASSUME avancement' = "boucle", programme = "memtac" PROVE InvTac'
  <2>1. pointeur' = Taille - 2 /\ Taille > 0
    BY <1>1, <1>5
  <2>2. /\ pointeur' \in -1 .. Taille' - 2 /\ fin' \in Nat /\ pointeur' + 2 <= fin' /\ fin' <= Taille'
        /\ fin' = Taille'
    BY <1>1, <2>1
  <2>3. \A q \in pointeur' + 1 .. fin' - 2 : octet(q)' # NL
    BY <1>1, <2>1
  <2>4. ~(pointeur' = -1 /\ Taille > 1)
    BY <1>1, <2>1
  <2>5. Retournes(fin)'
    BY <1>1, <2>2 DEF Retournes
  <2>6. QED
    BY <1>1, <2>2, <2>3, <2>4, <2>5 DEF InvTac
<1>6. ASSUME programme = "memcount" PROVE InvCount'
  <2>1. pointeur' = 0
    BY <1>1, <1>6
  <2>2. pointeur' \in 0 .. Taille'
    BY <1>1, <2>1
  <2>3. \E R \in SUBSET Nat : /\ Disjoint(R)' /\ IsFiniteSet(R) /\ Cardinality(R) = recherches'
                              /\ \A r \in R : r + Len(motif') <= pointeur'
    <3> WITNESS {} \in SUBSET Nat
    <3> QED
      BY <1>1, FS_EmptySet DEF Disjoint
  <2>4. ASSUME NEW R \in SUBSET Nat PROVE Cardinality({r \in R : r < pointeur'}) <= recherches'
    <3>1. \A r \in R : ~(r < 0)
      OBVIOUS
    <3>2. {r \in R : r < pointeur'} = {}
      BY <2>1, <3>1
    <3>3. QED
      BY <1>1, <3>2, FS_EmptySet
  <2>5. QED
    BY <2>2, <2>3, <2>4 DEF InvCount
<1>7. ASSUME programme = "memgrep" PROVE InvGrep'
  <2>1. pointeur' = 0
    BY <1>1, <1>7
  <2>2. \A g \in Gardes' : g \in Nat
    <3>1. Gardes' = Gardes /\ Gardes \subseteq 0 .. Taille - 1
      BY <1>1, OctetsInchanges, GardesFinies DEF TypeProjection
    <3>2. QED
      BY <1>1, <3>1
  <2>3. GardesAvant(pointeur)' = {}
    BY <2>1, <2>2 DEF GardesAvant
  <2>4. Len(sortie)' = Cardinality(GardesAvant(pointeur)')
    BY <1>1, <2>3, FS_EmptySet
  <2>5. LignesEcrites'
    BY <2>1, <2>3, <2>4 DEF LignesEcrites
  <2>6. QED
    BY <1>1, <2>1, <2>5 DEF InvGrep
<1>8. QED
  BY <1>1, <1>4, <1>5, <1>6, <1>7 DEF Boucles

LEMMA CatPas ==
    ASSUME TypeProjection, memcat, UNCHANGED programme
    PROVE  TypeProjection' /\ Boucles'
<1>1. /\ UNCHANGED <<programme, octets, motif, pointeur, fin, recherches>> /\ Taille \in Nat
      /\ Taille' = Taille /\ programme = "memcat" /\ Taille > 0
      /\ OctetsTypes /\ pointeur \in -2 .. Taille + 1 /\ fin \in 0 .. Taille
      /\ recherches \in 0 .. MAXTOURS
  BY OctetType, OctetsInchanges DEF TypeProjection, memcat, Donnees
<1>2. CASE avancement' = "erreur" /\ UNCHANGED sortie
  BY <1>1, <1>2 DEF TypeProjection, Boucles, OctetsTypes
<1>3. CASE avancement' = "fini" /\ \E n \in 1 .. Taille : sortie' = Octets(0, n)
  <2>1. PICK n \in 1 .. Taille : sortie' = Octets(0, n)
    BY <1>3
  <2>2. n \in Nat /\ n <= Taille
    BY <1>1
  <2>3. /\ sortie' \in Seq(Nat) /\ Len(sortie') = n
        /\ \A k \in 1 .. n : sortie'[k] = octet(0 + k - 1)
    BY <1>1, <2>1, <2>2, OctetsSuite
  <2>4. \A k \in 1 .. n : sortie'[k] = octets[k]
    <3> SUFFICES ASSUME NEW k \in 1 .. n PROVE sortie'[k] = octets[k]
      OBVIOUS
    <3>1. 0 + k - 1 \in Nat /\ 0 + k - 1 < Taille /\ (0 + k - 1) + 1 = k
      BY <1>1, <2>2
    <3>2. octet(0 + k - 1) = octets[k]
      BY <1>1, <3>1, OctetType
    <3>3. QED
      BY <2>3, <3>2
  <2>5. IsPrefix(sortie', octets)
    <3>1. octets \in Seq(Nat) /\ Len(octets) = Taille
      BY <1>1 DEF OctetsTypes, Taille
    <3>2. SubSeq(sortie', 1, n) = SubSeq(octets, 1, n)
      BY <2>2, <2>3, <2>4, <3>1
    <3>3. QED
      BY <2>2, <2>3, <3>1, <3>2 DEF IsPrefix
  <2>6. OctetsTypes'
    BY <1>1, <2>3 DEF OctetsTypes
  <2>7. QED
    BY <1>1, <1>3, <2>5, <2>6 DEF TypeProjection, Boucles
<1>4. QED
  BY <1>2, <1>3 DEF memcat

LEMMA MemtacPas ==
    ASSUME TypeProjection, Boucles, memtac, UNCHANGED programme
    PROVE  TypeProjection' /\ Boucles'
<1>1. /\ avancement = "boucle" /\ programme = "memtac" /\ OctetsTypes /\ InvTac /\ Taille > 0
      /\ Taille' = Taille /\ recherches' = recherches /\ programme' = programme /\ Taille \in Nat
      /\ recherches \in 0 .. MAXTOURS
  BY OctetType, OctetsInchanges DEF TypeProjection, Boucles, memtac, Arret
<1>2. InvTac' /\ OctetsTypes'
  BY <1>1, TacPas
<1>3. pointeur' \in -2 .. Taille + 1 /\ fin' \in 0 .. Taille
  <2>1. pointeur' \in -1 .. Taille - 2 /\ fin' \in Nat /\ fin' <= Taille
    BY <1>1, <1>2 DEF InvTac
  <2>2. QED
    BY <1>1, <2>1
<1>4. avancement' = "boucle" \/ (avancement' = "fini" /\ pointeur' < 0)
  BY <1>1 DEF memtac, Arret
<1>5. QED
  BY <1>1, <1>2, <1>3, <1>4 DEF TypeProjection, Boucles

LEMMA MemcountPas ==
    ASSUME TypeProjection, Boucles, memcount, UNCHANGED programme
    PROVE  TypeProjection' /\ Boucles'
<1>1. /\ avancement = "boucle" /\ programme = "memcount" /\ OctetsTypes /\ InvCount /\ Taille > 0
      /\ Taille' = Taille /\ programme' = programme /\ Taille \in Nat /\ fin \in 0 .. Taille
      /\ recherches \in 0 .. MAXTOURS /\ recherches < MAXTOURS
      /\ UNCHANGED <<octets, motif, fin, sortie>>
  BY OctetType, OctetsInchanges DEF TypeProjection, Boucles, memcount, Arret, Donnees
<1>2. recherches \in Nat
  BY <1>1
<1>3. InvCount' /\ OctetsTypes'
  BY <1>1, <1>2, CountPas DEF OctetsTypes
<1>4. pointeur' \in -2 .. Taille + 1
  <2>1. pointeur' \in 0 .. Taille
    BY <1>1, <1>3 DEF InvCount
  <2>2. QED
    BY <1>1, <2>1
<1>5. \/ avancement' = "boucle" /\ recherches' = recherches + 1
      \/ avancement' = "fini" /\ recherches' = recherches /\ memmem(pointeur)' = NULL
  <2>1. CASE memmem(pointeur) = NULL
    <3>1. avancement' = "fini" /\ UNCHANGED <<octets, motif, pointeur, recherches>>
      BY <1>1, <2>1 DEF memcount, Arret
    <3>2. memmem(pointeur)' = memmem(pointeur)
      BY <3>1 DEF memmem, Occurrences, Octets, octet, Taille
    <3>3. QED
      BY <2>1, <3>1, <3>2
  <2>2. CASE memmem(pointeur) # NULL
    BY <1>1, <2>2 DEF memcount
  <2>3. QED
    BY <2>1, <2>2
<1>6. recherches' \in 0 .. MAXTOURS
  BY <1>1, <1>5, ProjectionAssumption
<1>7. QED
  BY <1>1, <1>3, <1>4, <1>5, <1>6 DEF TypeProjection, Boucles

LEMMA MemgrepPas ==
    ASSUME TypeProjection, Boucles, memgrep, UNCHANGED programme
    PROVE  TypeProjection' /\ Boucles'
<1>1. /\ avancement = "boucle" /\ programme = "memgrep" /\ OctetsTypes /\ InvGrep /\ Taille > 0
      /\ Taille' = Taille /\ Gardes' = Gardes /\ LignesTerminees' = LignesTerminees
      /\ programme' = programme /\ Taille \in Nat
      /\ fin \in 0 .. Taille /\ recherches \in 0 .. MAXTOURS /\ recherches < MAXTOURS
      /\ UNCHANGED <<octets, motif, fin>>
  BY OctetType, OctetsInchanges DEF TypeProjection, Boucles, memgrep, Arret, Donnees
<1>2. /\ OctetsTypes' /\ pointeur' \in 0 .. Taille + 1
      /\ avancement' # "indefini" => InvGrep'
      /\ avancement' = "indefini" => LignesTerminees # Gardes
  BY <1>1, GrepPas
<1>3. pointeur' \in -2 .. Taille + 1
  BY <1>1, <1>2
<1>4. /\ avancement' \in {"boucle", "fini", "indefini"} /\ recherches' \in {recherches, recherches + 1}
      /\ avancement' = "fini" => memmem(pointeur)' = NULL
  <2>1. CASE memmem(pointeur) = NULL
    <3>1. avancement' = "fini" /\ UNCHANGED <<octets, motif, pointeur, recherches>>
      BY <1>1, <2>1 DEF memgrep, Arret
    <3>2. memmem(pointeur)' = memmem(pointeur)
      BY <3>1 DEF memmem, Occurrences, Octets, octet, Taille
    <3>3. QED
      BY <2>1, <3>1, <3>2
  <2>2. CASE memmem(pointeur) # NULL
    BY <1>1, <2>2 DEF memgrep
  <2>3. QED
    BY <2>1, <2>2
<1>5. recherches' \in 0 .. MAXTOURS
  BY <1>1, <1>4, ProjectionAssumption
<1>6. QED
  BY <1>1, <1>2, <1>3, <1>4, <1>5 DEF TypeProjection, Boucles

\* The invariant of the projections: the loop of each program, and its end.
THEOREM ProjectionInvariant == Spec => []InvProjection
<1>1. InvProjection /\ [Next]_vars => InvProjection'
  <2> SUFFICES ASSUME InvProjection, [Next]_vars PROVE InvProjection'
    OBVIOUS
  <2>1. CASE UNCHANGED <<programme, varsProjection>>
    <3>1. UNCHANGED <<programme, octets, motif, avancement, pointeur, fin, recherches, sortie>>
      BY <2>1 DEF varsProjection
    <3>2. /\ Taille' = Taille /\ memmem(pointeur)' = memmem(pointeur)
          /\ Gardes' = Gardes /\ LignesTerminees' = LignesTerminees
      BY <3>1 DEF Taille, memmem, Occurrences, Octets, octet, Gardes, LignesTerminees, Ligne
    <3>3. ReposProjection' = ReposProjection /\ OctetsTypes' = OctetsTypes
      BY <3>1 DEF ReposProjection, OctetsTypes
    <3>4. InvTac' = InvTac
      BY <3>1 DEF InvTac, Retournes, Precedents, Ligne, octet, Taille
    <3>5. InvCount' = InvCount
      BY <3>1 DEF InvCount, Disjoint, Occurrences, Octets, octet, Taille
    <3>6. InvGrep' = InvGrep
      BY <3>1 DEF InvGrep, LignesEcrites, RetourEnArriere, LignesDuMotif, Suivante, GardesAvant,
                  LignesTerminees, Gardes, Ligne, Occurrences, Octets, octet, Taille, memchr
    <3>7. TypeProjection' = TypeProjection
      BY <3>1, <3>2, <3>3 DEF TypeProjection
    <3>8. Boucles' = Boucles
      BY <3>1, <3>2, <3>4, <3>5, <3>6 DEF Boucles
    <3>9. QED
      BY <3>1, <3>3, <3>7, <3>8 DEF InvProjection
  <2>2. CASE programme \in ProgrammesProjection /\ NextProjection /\ UNCHANGED programme
    <3>1. TypeProjection /\ Boucles
      BY <2>2 DEF InvProjection
    <3>2. TypeProjection' /\ Boucles'
      BY <2>2, <3>1, ProjeterPas, CatPas, MemtacPas, MemcountPas, MemgrepPas DEF NextProjection
    <3>3. QED
      BY <2>2, <3>2 DEF InvProjection
  <2>3. QED
    BY <2>1, <2>2, PasProjection
<1>2. QED
  BY <1>1, ProjectionInitiale, PTL DEF Spec

\* What the lines of the motif are when no occurrence is left.
LEMMA GrepExact ==
    ASSUME OctetsTypes, InvGrep, memmem(pointeur) = NULL
    PROVE  motif # <<>> /\ LignesDuMotif
<1>1. motif # <<>>
  BY MotifVide DEF InvGrep
<1>2. CASE \E p \in 1 .. Taille : RetourEnArriere(p)
  <2>1. PICK p \in 1 .. Taille : RetourEnArriere(p)
    BY <1>2
  <2>2. pointeur \in Nat /\ p \in Nat /\ Taille \in Nat /\ Occurrences(pointeur) = {}
    BY OccurrencesDans, OctetType DEF InvGrep
  <2>3. ~(pointeur <= p)
    BY <2>1, <2>2, OccurrencesDans DEF RetourEnArriere
  <2>4. QED
    BY <1>1, <2>1, <2>2, <2>3 DEF RetourEnArriere
<1>3. CASE LignesEcrites
  <2>1. /\ pointeur \in 0 .. Taille /\ Taille \in Nat /\ pointeur \in Nat
        /\ pointeur = 0 \/ octet(pointeur - 1) = NL
        /\ Len(sortie) = Cardinality(GardesAvant(pointeur))
        /\ \A i \in GardesAvant(pointeur) : sortie[Cardinality(GardesAvant(i)) + 1] = octet(i)
    BY <1>3, OctetType, LigneSuivie DEF InvGrep, LignesEcrites
  <2>2. \A q \in Occurrences(0) : q \in Nat /\ q < pointeur
    BY <2>1, OccurrencesDans
  <2>3. ASSUME NEW i \in Gardes, ~(i < pointeur) PROVE FALSE
    <3>1. i \in Nat
      BY <2>1 DEF Gardes
    <3>2. PICK r \in Occurrences(0) : Ligne(r) = Ligne(i)
      BY DEF Gardes
    <3>3. /\ r \in Nat /\ pointeur - 1 \in Nat /\ r <= pointeur - 1 /\ pointeur - 1 < i
          /\ octet(pointeur - 1) = NL
      BY <2>1, <2>2, <2>3, <3>1
    <3>4. QED
      BY <3>1, <3>2, <3>3, LignesSeparees
  <2>4. GardesAvant(pointeur) = Gardes
    BY <2>3 DEF GardesAvant
  <2>5. Cardinality(LignesTerminees) \in Nat /\ Cardinality(LignesTerminees) <= Cardinality(Gardes)
    <3>1. LignesTerminees \in SUBSET Gardes /\ IsFiniteSet(Gardes)
      BY GardesFinies DEF LignesTerminees
    <3>2. IsFiniteSet(LignesTerminees)
      BY <3>1, FS_Subset
    <3>3. QED
      BY <3>1, <3>2, FS_Subset, FS_CardinalityType
  <2>6. Cardinality(Gardes) \in Nat
    BY GardesFinies, FS_CardinalityType
  <2>7. QED
    BY <1>1, <2>1, <2>4, <2>5, <2>6 DEF LignesDuMotif, GardesAvant
<1>4. QED
  BY <1>1, <1>2, <1>3 DEF InvGrep

\* Whatever the file and the motif: memcat.c has written a prefix of the file,
\* memtac.c its lines from the last to the first but for the newline it starts
\* with, memcount.c has counted the largest number of occurrences that do not
\* overlap, and memgrep.c, which never ends for an empty motif, has written
\* the lines of the motif in the order of the file, each once; only a last line
\* with the motif that no newline ends may be cut, or let it leave the file.
THEOREM ProjectionExacteToujours == Spec => []ProjectionExacte
<1>1. InvProjection => ProjectionExacte
  <2> SUFFICES ASSUME InvProjection PROVE ProjectionExacte
    OBVIOUS
  <2>1. CASE programme \notin ProgrammesProjection
    <3>1. /\ octets = <<>> /\ avancement = "fini" /\ pointeur = 0 /\ fin = 0 /\ recherches = 0
      BY <2>1 DEF InvProjection, ReposProjection
    <3>2. Taille = 0
      BY <3>1 DEF Taille
    <3>3. TypeOKProjection
      BY <3>1, <3>2, ProjectionAssumption DEF TypeOKProjection
    <3>4. QED
      BY <2>1, <3>1, <3>3 DEF ProjectionExacte, ProgrammesProjection
  <2>2. CASE programme \in ProgrammesProjection
    <3>1. TypeProjection /\ Boucles /\ OctetsTypes
      BY <2>2 DEF InvProjection, TypeProjection
    <3>2. TypeOKProjection
      BY <3>1 DEF TypeProjection, TypeOKProjection
    <3>3. ASSUME avancement = "fini", programme = "memtac"
          PROVE  Retourne(IF octets[1] = NL \/ Taille = 1 THEN Taille - 1 ELSE Taille)
      BY <3>1, <3>3, TacExact DEF Boucles
    <3>4. ASSUME avancement = "fini", programme = "memcount"
          PROVE  motif # <<>> /\ recherches = Disjointes
      <4>1. recherches \in Nat
        BY <3>1 DEF TypeProjection
      <4>2. QED
        BY <3>1, <3>4, <4>1, CountExact DEF Boucles
    <3>5. ASSUME avancement = "fini", programme = "memgrep"
          PROVE  motif # <<>> /\ LignesDuMotif
      BY <3>1, <3>5, GrepExact DEF Boucles
    <3>6. QED
      BY <3>1, <3>2, <3>3, <3>4, <3>5 DEF ProjectionExacte, Boucles, TypeProjection
  <2>3. QED
    BY <2>1, <2>2
<1>2. QED
  BY <1>1, ProjectionInvariant, PTL

-----------------------------------------------------------------------------
\* The mini_ls: what has been listed so far.

LEMMA PasListe ==
    ASSUME [Next]_vars
    PROVE  \/ programme \in ProgrammesListe /\ NextListe /\ UNCHANGED programme
           \/ UNCHANGED <<programme, varsListe>>
BY DEF Next, VersLaFin, Exterieur, Hors, Labos1, Labos2, Labos3, vars

Couleurs     == {"bleu", "vert", "rouge", "cyan", "normal", "indefini", "sans"}
LignesListe == [nom : Sortes, droits : {"exacts", "decales", "indefinis"}, couleur : Couleurs,
                cible : Seq(Sortes)]

LEMMA AttendusType ==
    ASSUME NEW f \in Sortes, NEW c \in BOOLEAN
    PROVE  /\ Attendus(f, c) \in Seq(Sortes) /\ Contenu(f) \in Seq(Sortes \ {"absent"})
           /\ Cible(f) \in Seq(Sortes) /\ Longueur(f) \in Nat /\ Len(Cible(f)) = Longueur(f)
<1>1. Contenu(f) \in Seq(Sortes \ {"absent"})
  <2> DEFINE T == Sortes \ {"absent"}
  <2>1. /\ "programme" \in T /\ "lienCourt" \in T /\ "masque" \in T
        /\ "texte" \in T /\ "partage" \in T /\ "lienCasse" \in T
    BY DEF Sortes, Repertoires, Liens
  <2> HIDE DEF T
  <2>2. <<"programme", "lienCourt", "masque">> \in Seq(T)
    BY <2>1
  <2>3. <<"texte", "partage", "lienCasse">> \in Seq(T)
    BY <2>1
  <2>4. << >> \in Seq(T)
    OBVIOUS
  <2>5. \/ Contenu(f) = <<"programme", "lienCourt", "masque">>
        \/ Contenu(f) = <<"texte", "partage", "lienCasse">> \/ Contenu(f) = << >>
    BY DEF Contenu
  <2>6. Contenu(f) \in Seq(T)
    BY <2>2, <2>3, <2>4, <2>5
  <2>7. QED
    BY <2>6 DEF T
<1>2. Attendus(f, c) \in Seq(Sortes)
  <2>1. /\ <<"texte", "partage">> \in Seq(Sortes) /\ <<"texte">> \in Seq(Sortes)
        /\ << >> \in Seq(Sortes) /\ <<f>> \in Seq(Sortes)
    <3>1. "texte" \in Sortes /\ "partage" \in Sortes
      BY DEF Sortes
    <3>2. QED
      BY <3>1
  <2>2. Contenu(f) \in Seq(Sortes)
    BY <1>1
  <2>3. Attendus(f, c) \in {<<"texte", "partage">>, <<"texte">>, << >>, <<f>>, Contenu(f)}
    BY DEF Attendus
  <2>4. QED
    BY <2>1, <2>2, <2>3
<1>3. Longueur(f) \in Nat
  BY DEF Longueur
<1>4. Cible(f) \in Seq(Sortes) /\ Len(Cible(f)) = Longueur(f)
  BY <1>3 DEF Cible
<1>5. QED
  BY <1>1, <1>2, <1>3, <1>4

ArgumentsTypes == arguments \in Seq(Sortes)

\* The names of one more argument.
LEMMA PlacesPlus ==
    ASSUME ArgumentsTypes, NEW coupe \in [DOMAIN arguments -> BOOLEAN], NEW n \in Nat,
           n < Len(arguments)
    PROVE  LET noms == Attendus(arguments[n + 1], coupe[n + 1]) IN
           /\ noms \in Seq(Sortes)
           /\ IsFiniteSet(Places(n, coupe)) =>
                  /\ IsFiniteSet(Places(n + 1, coupe))
                  /\ Cardinality(Places(n, coupe)) \in Nat
                  /\ Cardinality(Places(n + 1, coupe)) = Cardinality(Places(n, coupe)) + Len(noms)
<1> DEFINE noms == Attendus(arguments[n + 1], coupe[n + 1])
           S == {n + 1} \X DOMAIN noms
<1>1. n + 1 \in 1 .. Len(arguments) /\ DOMAIN arguments = 1 .. Len(arguments)
  BY DEF ArgumentsTypes
<1>2. arguments[n + 1] \in Sortes /\ coupe[n + 1] \in BOOLEAN
  BY <1>1 DEF ArgumentsTypes
<1>3. noms \in Seq(Sortes)
  BY <1>2, AttendusType
<1>4. PICK L \in Nat : L = Len(noms) /\ DOMAIN noms = 1 .. L
  BY <1>3
<1>5. IsFiniteSet(1 .. L) /\ Cardinality(1 .. L) = L
  <2>1. IsFiniteSet(1 .. L) /\ Cardinality(1 .. L) = IF 1 > L THEN 0 ELSE L - 1 + 1
    <3>1. \A a, b \in Int : /\ IsFiniteSet(a .. b)
                             /\ Cardinality(a .. b) = IF a > b THEN 0 ELSE b - a + 1
      BY FS_Interval
    <3>2. L \in Int /\ 1 \in Int
      OBVIOUS
    <3>3. QED
      BY <3>1, <3>2, Zenon
  <2>2. QED
    BY <2>1
<1>6. IsFiniteSet(S) /\ Cardinality(S) = L
  <2>1. IsFiniteSet({n + 1}) /\ Cardinality({n + 1}) = 1
    BY FS_Singleton
  <2>2. IsFiniteSet({n + 1} \X (1 .. L)) /\ Cardinality({n + 1} \X (1 .. L)) = 1 * L
    BY <1>5, <2>1, FS_Product
  <2>3. 1 * L = L
    OBVIOUS
  <2>4. S = {n + 1} \X (1 .. L)
    BY <1>4
  <2>5. QED
    BY <2>2, <2>3, <2>4
<1>7. Places(n + 1, coupe) = Places(n, coupe) \cup S
  <2>1. 1 .. n + 1 = (1 .. n) \cup {n + 1}
    OBVIOUS
  <2>2. QED
    BY <2>1 DEF Places
<1>8. Places(n, coupe) \cap S = {}
  BY DEF Places
<1>9. ASSUME IsFiniteSet(Places(n, coupe))
      PROVE  /\ IsFiniteSet(Places(n + 1, coupe))
             /\ Cardinality(Places(n, coupe)) \in Nat
             /\ Cardinality(Places(n + 1, coupe)) = Cardinality(Places(n, coupe)) + Len(noms)
  <2> HIDE DEF S, noms
  <2>1. Cardinality(Places(n, coupe) \cap S) = 0
    BY <1>8, FS_EmptySet
  <2>2. PICK c \in Nat : c = Cardinality(Places(n, coupe))
    BY <1>9, FS_CardinalityType
  <2>3. /\ IsFiniteSet(Places(n, coupe) \cup S)
        /\ Cardinality(Places(n, coupe) \cup S) = c + L - 0
    BY <1>6, <1>9, <2>1, <2>2, FS_Union
  <2>4. c + L - 0 = c + L
    OBVIOUS
  <2>5. QED
    BY <1>4, <1>7, <2>2, <2>3, <2>4
<1>10. QED
  BY <1>3, <1>9

\* In the lines l the first n arguments have been listed in full, and the first p
\* names of the next.
Listees(l, n, coupe, p) ==
    /\ IsFiniteSet(Places(n, coupe)) /\ p \in Nat
    /\ Len(l) = Cardinality(Places(n, coupe)) + p
    /\ \A i \in 1 .. n : /\ IsFiniteSet(Places(i - 1, coupe))
                         /\ Cardinality(Places(i, coupe)) <= Cardinality(Places(n, coupe))
    /\ \A i \in 1 .. n : \A k \in DOMAIN Attendus(arguments[i], coupe[i]) :
           l[Cardinality(Places(i - 1, coupe)) + k].nom = Attendus(arguments[i], coupe[i])[k]
    /\ \A k \in 1 .. p :
           l[Cardinality(Places(n, coupe)) + k].nom = Attendus(arguments[n + 1], coupe[n + 1])[k]

LEMMA ListeInchangee ==
    ASSUME UNCHANGED <<programme, arguments>>
    PROVE  /\ \A f, c : Attendus(f, c)' = Attendus(f, c)
           /\ \A n, c : Places(n, c)' = Places(n, c)
           /\ \A l, n, c, p : Listees(l, n, c, p)' = Listees(l, n, c, p)
BY DEF Attendus, Places, Listees

LEMMA ListeesSuite ==
    ASSUME ArgumentsTypes, NEW coupe \in [DOMAIN arguments -> BOOLEAN], NEW n \in Nat,
           n < Len(arguments), NEW p, NEW l, Listees(l, n, coupe, p),
           p = Len(Attendus(arguments[n + 1], coupe[n + 1]))
    PROVE  Listees(l, n + 1, coupe, 0)
<1> DEFINE noms == Attendus(arguments[n + 1], coupe[n + 1])
<1>1. /\ IsFiniteSet(Places(n + 1, coupe)) /\ Cardinality(Places(n, coupe)) \in Nat
      /\ noms \in Seq(Sortes) /\ p \in Nat
      /\ Cardinality(Places(n + 1, coupe)) = Cardinality(Places(n, coupe)) + p
  BY PlacesPlus DEF Listees
<1>2. Len(l) = Cardinality(Places(n + 1, coupe)) + 0
  BY <1>1 DEF Listees
<1>3. ASSUME NEW i \in 1 .. n + 1
      PROVE  /\ IsFiniteSet(Places(i - 1, coupe))
             /\ Cardinality(Places(i, coupe)) <= Cardinality(Places(n + 1, coupe))
  <2>1. CASE i = n + 1
    BY <1>1, <2>1 DEF Listees
  <2>2. CASE i \in 1 .. n
    <3>1. /\ IsFiniteSet(Places(i - 1, coupe))
          /\ Cardinality(Places(i, coupe)) <= Cardinality(Places(n, coupe))
      BY <2>2 DEF Listees
    <3>2. Cardinality(Places(i, coupe)) \in Nat
      <4>1. CASE i = n
        BY <1>1, <4>1
      <4>2. CASE i # n
        <5>1. i + 1 \in 1 .. n /\ (i + 1) - 1 = i
          BY <2>2, <4>2
        <5>2. IsFiniteSet(Places((i + 1) - 1, coupe))
          BY <5>1 DEF Listees
        <5>3. QED
          BY <5>1, <5>2, FS_CardinalityType
      <4>3. QED
        BY <4>1, <4>2
    <3>3. QED
      BY <1>1, <3>1, <3>2
  <2>3. QED
    BY <2>1, <2>2
<1>4. ASSUME NEW i \in 1 .. n + 1, NEW k \in DOMAIN Attendus(arguments[i], coupe[i])
      PROVE  l[Cardinality(Places(i - 1, coupe)) + k].nom = Attendus(arguments[i], coupe[i])[k]
  <2>1. CASE i = n + 1
    <3>1. k \in 1 .. p /\ i - 1 = n
      BY <1>1, <2>1
    <3>2. l[Cardinality(Places(n, coupe)) + k].nom = noms[k]
      BY <3>1 DEF Listees
    <3>3. QED
      BY <2>1, <3>1, <3>2
  <2>2. CASE i \in 1 .. n
    BY <2>2 DEF Listees
  <2>3. QED
    BY <2>1, <2>2
<1>5. QED
  BY <1>1, <1>2, <1>3, <1>4 DEF Listees

\* A line is printed.
LEMMA ListeesLigne ==
    ASSUME ArgumentsTypes, NEW coupe \in [DOMAIN arguments -> BOOLEAN], NEW n \in Nat,
           n < Len(arguments), NEW p, NEW l \in Seq(LignesListe), Listees(l, n, coupe, p),
           NEW x \in LignesListe, x.nom = Attendus(arguments[n + 1], coupe[n + 1])[p + 1]
    PROVE  Listees(Append(l, x), n, coupe, p + 1)
<1> DEFINE m == Append(l, x)
<1>1. /\ IsFiniteSet(Places(n, coupe)) /\ Cardinality(Places(n, coupe)) \in Nat /\ p \in Nat
      /\ Len(l) = Cardinality(Places(n, coupe)) + p
  BY FS_CardinalityType DEF Listees
<1>2. /\ Len(m) = Len(l) + 1 /\ m[Len(l) + 1] = x
      /\ \A k \in 1 .. Len(l) : m[k] = l[k]
  OBVIOUS
<1> HIDE DEF m
<1>4. ASSUME NEW i \in 1 .. n, NEW k \in DOMAIN Attendus(arguments[i], coupe[i])
      PROVE  m[Cardinality(Places(i - 1, coupe)) + k].nom = Attendus(arguments[i], coupe[i])[k]
  <2>1. l[Cardinality(Places(i - 1, coupe)) + k].nom = Attendus(arguments[i], coupe[i])[k]
    BY DEF Listees
  <2>2. Cardinality(Places(i - 1, coupe)) + k \in 1 .. Len(l)
    <3> DEFINE j == i - 1
               noms == Attendus(arguments[i], coupe[i])
    <3>1. j \in Nat /\ j < Len(arguments) /\ j + 1 = i /\ IsFiniteSet(Places(j, coupe))
          /\ Cardinality(Places(i, coupe)) <= Cardinality(Places(n, coupe))
      BY DEF Listees
    <3>2. /\ noms \in Seq(Sortes) /\ Cardinality(Places(j, coupe)) \in Nat
          /\ Cardinality(Places(i, coupe)) = Cardinality(Places(j, coupe)) + Len(noms)
      <4> HIDE DEF j
      <4> QED
        BY <3>1, PlacesPlus
    <3> HIDE DEF noms, j
    <3>3. k \in 1 .. Len(noms) /\ Len(noms) \in Nat
      BY <3>2 DEF noms
    <3>4. Cardinality(Places(j, coupe)) + k \in 1 .. Len(l)
      BY <1>1, <3>1, <3>2, <3>3
    <3>5. QED
      BY <3>4 DEF j
  <2>3. QED
    BY <1>2, <2>1, <2>2
<1>5. ASSUME NEW k \in 1 .. p + 1
      PROVE  m[Cardinality(Places(n, coupe)) + k].nom = Attendus(arguments[n + 1], coupe[n + 1])[k]
  <2>1. CASE k = p + 1
    <3>1. Cardinality(Places(n, coupe)) + k = Len(l) + 1
      BY <1>1, <2>1
    <3>2. QED
      BY <1>2, <2>1, <3>1
  <2>2. CASE k \in 1 .. p
    <3>1. Cardinality(Places(n, coupe)) + k \in 1 .. Len(l)
      BY <1>1, <2>2
    <3>2. QED
      BY <1>2, <2>2, <3>1 DEF Listees
  <2>3. QED
    BY <1>1, <2>1, <2>2
<1>6. /\ p + 1 \in Nat /\ Len(m) = Cardinality(Places(n, coupe)) + (p + 1)
  BY <1>1, <1>2
<1>7. \A i \in 1 .. n : /\ IsFiniteSet(Places(i - 1, coupe))
                        /\ Cardinality(Places(i, coupe)) <= Cardinality(Places(n, coupe))
  BY DEF Listees
<1>8. QED
  BY <1>1, <1>4, <1>5, <1>6, <1>7 DEF Listees, m

\* Where the next directory is cut makes no difference to what comes before.
LEMMA ListeesCoupe ==
    ASSUME ArgumentsTypes, NEW c1 \in [DOMAIN arguments -> BOOLEAN],
           NEW c2 \in [DOMAIN arguments -> BOOLEAN], NEW n \in Nat, NEW p, NEW l,
           Listees(l, n, c1, p),
           \A i \in 1 .. n : c1[i] = c2[i],
           \A k \in 1 .. p : Attendus(arguments[n + 1], c1[n + 1])[k]
                                 = Attendus(arguments[n + 1], c2[n + 1])[k]
    PROVE  Listees(l, n, c2, p)
<1>1. \A i \in 0 .. n : Places(i, c1) = Places(i, c2)
  BY DEF Places
<1>2. \A i \in 1 .. n : i - 1 \in 0 .. n /\ i \in 0 .. n
  OBVIOUS
<1>3. n \in 0 .. n
  OBVIOUS
<1>4. QED
  BY <1>1, <1>2, <1>3 DEF Listees

TypeListe ==
    /\ programme \in ProgrammesListe /\ ArgumentsTypes /\ liste \in Seq(LignesListe)
    /\ option \in BOOLEAN /\ rang \in 0 .. Len(arguments)
    /\ entrees \in Seq(Sortes \ {"absent"}) /\ lien_sym \in Seq(Sortes) /\ color \in Couleurs
    /\ retour \in {"enCours", "0", "1", "SIGSEGV", "indefini"}
    /\ programme \notin Recursifs => entrees = <<>>
    /\ programme \in Simples => Len(arguments) <= 1

\* The buffer of readlink has the length of a target that has been printed.
TamponListe ==
    lien_sym = <<>> \/ \E j \in 1 .. Len(liste) : Longueur(liste[j].nom) = Len(lien_sym)

LignesJustes == \A k \in DOMAIN liste : LigneExacte(k)

\* The arguments that have been treated are listed, but for the entries that are
\* left of the directory that is open.
DejaListes ==
    \E coupe \in [DOMAIN arguments -> BOOLEAN] :
        IF entrees = <<>> THEN Listees(liste, rang, coupe, 0)
        ELSE LET noms == Contenu(arguments[rang]) IN
             /\ rang > 0 /\ coupe[rang] = FALSE /\ arguments[rang] \in Repertoires
             /\ Len(entrees) <= Len(noms)
             /\ \A k \in 1 .. Len(entrees) : entrees[k] = noms[Len(noms) - Len(entrees) + k]
             /\ Listees(liste, rang - 1, coupe, Len(noms) - Len(entrees))

UneLigneParFichier ==
    programme \notin Patients =>
        Len(liste) = rang /\ \A i \in 1 .. rang : arguments[i] # "absent"

\* The names and the targets printed by mini_ls_fichierspointes.c fit its buffers.
NomsTenus ==
    programme = "mini_ls_fichierspointes" =>
        \A i \in 1 .. rang : liste[i].nom = arguments[i] /\ ~Deborde(arguments[i])

FinsListe ==
    /\ retour = "0" => rang = Len(arguments) /\ entrees = <<>> /\ (arguments # <<>> \/ option)
    /\ retour \in {"1", "SIGSEGV"} => programme \notin Patients \/ arguments = <<>>
    /\ retour = "1" /\ arguments # <<>> =>
           rang < Len(arguments) /\ arguments[rang + 1] \in {"absent", "lienCasse"}
    /\ retour = "enCours" /\ programme \in Simples => rang = 0
    /\ retour = "indefini" => programme = "mini_ls_fichierspointes" /\ Deborde(arguments[rang + 1])

ParListe == /\ TypeListe /\ TamponListe /\ LignesJustes /\ DejaListes
            /\ UneLigneParFichier /\ NomsTenus /\ FinsListe

InvListe ==
    /\ programme \notin ProgrammesListe => ReposListe
    /\ programme \in ProgrammesListe => ParListe

\* What a line must be.
NouvelleLigne(x) ==
    /\ x.droits = "exacts" \/ (x.nom = "masque" /\ programme \notin Patients)
    /\ programme \in AvecTampon \cup Patients =>
           \/ x.cible = Cible(x.nom)
           \/ /\ programme \in AvecTampon /\ x.nom \in Liens
              /\ \E j \in 1 .. Len(liste) : Longueur(liste[j].nom) > Longueur(x.nom)
    /\ programme \in Patients \cup {"mini_ls_couleurs"} =>
           \/ x.couleur = couleurFichier(x.nom)
           \/ programme \in Patients /\ x.nom \in {"texte", "masque", "partage", "anonyme", "nomLong"}

LEMMA LigneAjoutee ==
    ASSUME liste \in Seq(LignesListe), LignesJustes, UNCHANGED programme, NEW x \in LignesListe,
           liste' = Append(liste, x), NouvelleLigne(x)
    PROVE  LignesJustes' /\ liste' \in Seq(LignesListe)
<1>1. /\ Len(liste') = Len(liste) + 1 /\ liste'[Len(liste) + 1] = x /\ Len(liste) \in Nat
      /\ \A k \in 1 .. Len(liste) : liste'[k] = liste[k]
      /\ DOMAIN liste' = 1 .. Len(liste) + 1 /\ DOMAIN liste = 1 .. Len(liste)
      /\ liste' \in Seq(LignesListe)
  OBVIOUS
<1>2. ASSUME NEW k \in DOMAIN liste' PROVE LigneExacte(k)'
  <2>1. CASE k \in DOMAIN liste
    <3>1. LigneExacte(k) /\ liste'[k] = liste[k]
      BY <1>1, <2>1 DEF LignesJustes
    <3>2. \A j \in 1 .. k - 1 : liste'[j] = liste[j]
      BY <1>1, <2>1
    <3>3. QED
      BY <3>1, <3>2 DEF LigneExacte
  <2>2. CASE k = Len(liste) + 1
    <3>1. liste'[k] = x /\ \A j \in 1 .. k - 1 : liste'[j] = liste[j]
      BY <1>1, <2>2
    <3>2. 1 .. k - 1 = 1 .. Len(liste)
      BY <1>1, <2>2
    <3>3. QED
      BY <3>1, <3>2 DEF LigneExacte, NouvelleLigne, couleurFichier
  <2>3. QED
    BY <1>1, <2>1, <2>2
<1>3. QED
  BY <1>1, <1>2 DEF LignesJustes

\* A line for the current argument.
LEMMA ListerCourant ==
    ASSUME ParListe, UNCHANGED <<programme, arguments, entrees>>, entrees = <<>>, rang < Len(arguments),
           rang' = rang + 1, Courant # "absent",
           NEW x \in LignesListe, liste' = Append(liste, x), NouvelleLigne(x),
           \A c \in BOOLEAN : Attendus(Courant, c) = <<x.nom>>,
           programme = "mini_ls_fichierspointes" => x.nom = Courant /\ ~Deborde(Courant)
    PROVE  /\ DejaListes' /\ UneLigneParFichier' /\ NomsTenus' /\ LignesJustes' /\ liste' \in Seq(LignesListe)
           /\ rang' \in 0 .. Len(arguments)
<1>1. /\ ArgumentsTypes /\ liste \in Seq(LignesListe) /\ rang \in Nat /\ Len(arguments) \in Nat
      /\ DOMAIN arguments = 1 .. Len(arguments)
  BY DEF ParListe, TypeListe, ArgumentsTypes
<1>2. PICK coupe \in [DOMAIN arguments -> BOOLEAN] : Listees(liste, rang, coupe, 0)
  BY DEF ParListe, DejaListes
<1>3. coupe[rang + 1] \in BOOLEAN
  BY <1>1
<1>4. Attendus(arguments[rang + 1], coupe[rang + 1]) = <<x.nom>>
  BY <1>3 DEF Courant
<1>5. /\ x.nom = Attendus(arguments[rang + 1], coupe[rang + 1])[0 + 1]
      /\ 0 + 1 = Len(Attendus(arguments[rang + 1], coupe[rang + 1]))
  BY <1>4
<1>6. Listees(liste', rang, coupe, 0 + 1)
  BY <1>1, <1>2, <1>5, ListeesLigne
<1>7. Listees(liste', rang + 1, coupe, 0)
  BY <1>1, <1>5, <1>6, ListeesSuite
<1>8. DejaListes'
  <2>1. PICK n : n = rang + 1
    OBVIOUS
  <2>2. PICK m : m = liste'
    OBVIOUS
  <2>3. Listees(m, n, coupe, 0)'
    BY <1>7, <2>1, <2>2, ListeInchangee
  <2>4. Listees(liste, rang, coupe, 0)'
    BY <2>1, <2>2, <2>3
  <2>5. coupe \in [DOMAIN arguments' -> BOOLEAN] /\ entrees' = <<>>
    OBVIOUS
  <2>6. QED
    BY <2>4, <2>5 DEF DejaListes
<1>9. UneLigneParFichier'
  <2>1. Len(liste') = Len(liste) + 1
    BY <1>1
  <2>2. \A i \in 1 .. rang + 1 : i \in 1 .. rang \/ arguments[i] # "absent"
    BY <1>1 DEF Courant
  <2>3. QED
    BY <1>1, <2>1, <2>2 DEF ParListe, UneLigneParFichier
<1>10. LignesJustes' /\ liste' \in Seq(LignesListe)
  BY <1>1, LigneAjoutee DEF ParListe
<1>11. NomsTenus'
  <2>1. CASE programme = "mini_ls_fichierspointes"
    <3>1. /\ Len(liste) = rang /\ arguments[rang + 1] = x.nom /\ ~Deborde(x.nom)
          /\ \A i \in 1 .. rang : liste[i].nom = arguments[i] /\ ~Deborde(arguments[i])
      BY <2>1 DEF ParListe, UneLigneParFichier, NomsTenus, Patients, Recursifs, Courant
    <3>2. liste'[rang + 1] = x /\ \A i \in 1 .. rang : liste'[i] = liste[i]
      BY <1>1, <3>1
    <3>3. \A i \in 1 .. rang + 1 : i \in 1 .. rang \/ i = rang + 1
      BY <1>1
    <3>4. QED
      BY <3>1, <3>2, <3>3 DEF NomsTenus, Deborde, Longueur
  <2>2. QED
    BY <2>1 DEF NomsTenus
<1>12. QED
  BY <1>1, <1>8, <1>9, <1>10, <1>11

\* Nothing is listed for the current argument: it is absent, or a directory to
\* be read.
LEMMA PasserCourant ==
    ASSUME ParListe, UNCHANGED <<programme, arguments, liste>>, entrees = <<>>, rang < Len(arguments),
           rang' = rang + 1, programme \in Patients,
           \/ Courant = "absent" /\ entrees' = <<>>
           \/ Courant \in Repertoires /\ entrees' = Contenu(Courant) /\ programme \in Recursifs
    PROVE  DejaListes' /\ entrees' \in Seq(Sortes \ {"absent"}) /\ rang' \in 0 .. Len(arguments)
<1>1. /\ ArgumentsTypes /\ rang \in Nat /\ Len(arguments) \in Nat
      /\ DOMAIN arguments = 1 .. Len(arguments)
  BY DEF ParListe, TypeListe, ArgumentsTypes
<1>2. PICK c0 \in [DOMAIN arguments -> BOOLEAN] : Listees(liste, rang, c0, 0)
  BY DEF ParListe, DejaListes
<1>3. PICK coupe \in [DOMAIN arguments -> BOOLEAN] : coupe = [c0 EXCEPT ![rang + 1] = FALSE]
  OBVIOUS
<1>4. coupe[rang + 1] = FALSE /\ \A i \in 1 .. rang : c0[i] = coupe[i]
  <2>1. rang + 1 \in DOMAIN arguments /\ \A i \in 1 .. rang : i # rang + 1 /\ i \in DOMAIN arguments
    BY <1>1
  <2>2. QED
    BY <1>3, <2>1, Zenon
<1>5. Listees(liste, rang, coupe, 0)
  <2>1. 0 \in Nat /\ \A k \in 1 .. 0 : FALSE
    OBVIOUS
  <2>2. QED
    BY <1>1, <1>2, <1>4, <2>1, ListeesCoupe
<1>6. Courant \in Sortes /\ arguments[rang + 1] = Courant
  BY <1>1 DEF ArgumentsTypes, Courant
<1>7. \A n : n = rang' => Listees(liste, n - 1, coupe, 0)' = Listees(liste, rang, coupe, 0)
  <2>1. PICK m : m = liste
    OBVIOUS
  <2>2. \A n : Listees(m, n - 1, coupe, 0)' = Listees(m, n - 1, coupe, 0)
    BY ListeInchangee
  <2>3. \A n : n = rang' => n - 1 = rang
    BY <1>1
  <2>4. QED
    BY <2>1, <2>2, <2>3
<1>8. ASSUME Attendus(Courant, FALSE) = <<>>, entrees' = <<>> PROVE DejaListes'
  <2>1. Len(Attendus(arguments[rang + 1], coupe[rang + 1])) = 0
    <3>1. Attendus(arguments[rang + 1], coupe[rang + 1]) = <<>>
      BY <1>4, <1>6, <1>8
    <3>2. QED
      BY <3>1
  <2>2. Listees(liste, rang + 1, coupe, 0)
    BY <1>1, <1>5, <2>1, ListeesSuite
  <2>3. PICK n, m : n = rang + 1 /\ m = liste
    OBVIOUS
  <2>4. Listees(m, n, coupe, 0)'
    BY <2>2, <2>3, ListeInchangee
  <2>5. Listees(liste, rang, coupe, 0)'
    BY <2>3, <2>4
  <2>6. coupe \in [DOMAIN arguments' -> BOOLEAN]
    OBVIOUS
  <2>7. QED
    BY <1>8, <2>5, <2>6 DEF DejaListes
<1>9. CASE Courant = "absent" /\ entrees' = <<>>
  <2>1. Attendus(Courant, FALSE) = <<>>
    BY <1>9 DEF Attendus, Repertoires, Liens
  <2>2. QED
    BY <1>1, <1>8, <1>9, <2>1
<1>10. CASE Courant \in Repertoires /\ entrees' = Contenu(Courant) /\ programme \in Recursifs
  <2>1. Attendus(Courant, FALSE) = Contenu(Courant) /\ Contenu(Courant) \in Seq(Sortes \ {"absent"})
    <3>1. Courant # "absent"
      BY <1>10 DEF Repertoires
    <3>2. Attendus(Courant, FALSE) = Contenu(Courant)
      BY <1>10, <3>1 DEF Attendus, Recursifs
    <3>3. Contenu(Courant) \in Seq(Sortes \ {"absent"})
      BY <1>6, AttendusType
    <3>4. QED
      BY <3>2, <3>3
  <2>2. CASE Contenu(Courant) = <<>>
    BY <1>1, <1>8, <1>10, <2>1, <2>2
  <2>3. CASE Contenu(Courant) # <<>>
    <3>1. PICK n \in Nat : n = rang'
      BY <1>1
    <3>2. arguments'[n] = Courant /\ n - 1 = rang /\ n > 0 /\ coupe[n] = FALSE
      BY <1>1, <1>4, <1>6, <3>1
    <3>3. entrees' # <<>>
      BY <1>10, <2>3
    <3>4. Contenu(arguments[rang])' = entrees'
      BY <1>10, <3>1, <3>2 DEF Contenu
    <3>5. PICK L \in Nat : L = Len(entrees')
      BY <1>10, <2>1
    <3>6. L - L = 0 /\ L <= L /\ \A k \in 1 .. L : L - L + k = k
      BY <3>5
    <3>7. Listees(liste, n - 1, coupe, L - L)'
      BY <1>5, <1>7, <3>1, <3>6
    <3>8. coupe \in [DOMAIN arguments' -> BOOLEAN]
      OBVIOUS
    <3>9. arguments'[n] \in Repertoires
      BY <1>10, <3>2
    <3>10. DejaListes'
      BY <3>1, <3>2, <3>3, <3>4, <3>5, <3>6, <3>7, <3>8, <3>9 DEF DejaListes
    <3>11. QED
      BY <1>1, <1>10, <2>1, <3>10
  <2>4. QED
    BY <2>2, <2>3
<1>11. QED
  BY <1>9, <1>10

\* An entry of the directory that is open.
LEMMA ListerEntree ==
    ASSUME ParListe, UNCHANGED <<programme, arguments, rang>>, entrees # <<>>,
           programme \in Recursifs, NEW x \in LignesListe, x.nom = Head(entrees),
           liste' = Append(liste, x), NouvelleLigne(x),
           entrees' = Tail(entrees) \/ (Head(entrees) = "partage" /\ entrees' = <<>>)
    PROVE  /\ DejaListes' /\ LignesJustes' /\ liste' \in Seq(LignesListe)
           /\ entrees' \in Seq(Sortes \ {"absent"})
<1>1. /\ ArgumentsTypes /\ liste \in Seq(LignesListe) /\ rang \in 0 .. Len(arguments)
      /\ Len(arguments) \in Nat /\ DOMAIN arguments = 1 .. Len(arguments)
      /\ entrees \in Seq(Sortes \ {"absent"})
  BY DEF ParListe, TypeListe, ArgumentsTypes
<1>2. PICK coupe \in [DOMAIN arguments -> BOOLEAN] :
          LET noms == Contenu(arguments[rang]) IN
          /\ rang > 0 /\ coupe[rang] = FALSE /\ arguments[rang] \in Repertoires
          /\ Len(entrees) <= Len(noms)
          /\ \A k \in 1 .. Len(entrees) : entrees[k] = noms[Len(noms) - Len(entrees) + k]
          /\ Listees(liste, rang - 1, coupe, Len(noms) - Len(entrees))
  BY DEF ParListe, DejaListes
<1>3. PICK f : f = arguments[rang]
  OBVIOUS
<1>4. f \in Sortes /\ f \in Repertoires /\ f # "absent" /\ Contenu(f) \in Seq(Sortes)
  <2>1. f \in Sortes /\ f \in Repertoires
    BY <1>1, <1>2, <1>3 DEF ArgumentsTypes
  <2>2. Contenu(f) \in Seq(Sortes \ {"absent"})
    BY <2>1, AttendusType
  <2>3. QED
    BY <2>1, <2>2 DEF Repertoires
<1>5. PICK n \in Nat : n = rang - 1
  BY <1>1, <1>2
<1>6. n < Len(arguments) /\ n + 1 = rang /\ arguments[n + 1] = f
  BY <1>1, <1>2, <1>3, <1>5
<1>7. PICK L \in Nat, e \in Nat : /\ L = Len(Contenu(f)) /\ e = Len(entrees) /\ e > 0 /\ e <= L
                                  /\ \A k \in 1 .. e : entrees[k] = Contenu(f)[L - e + k]
  <2>1. Len(Contenu(f)) \in Nat /\ Len(entrees) \in Nat /\ Len(entrees) > 0
    BY <1>1, <1>4
  <2>2. QED
    BY <1>2, <1>3, <2>1
<1>a. e <= L /\ e > 0 /\ e = Len(entrees) /\ L = Len(Contenu(f))
  BY <1>7
<1>8. PICK p \in Nat : p = L - e
  <2>1. L - e \in Nat
    BY <1>a
  <2>2. QED
    BY <2>1
<1>9. Listees(liste, n, coupe, p) /\ coupe[n + 1] = FALSE
  BY <1>2, <1>3, <1>5, <1>6, <1>7, <1>8
<1>10. Attendus(f, FALSE) = Contenu(f)
  BY <1>4 DEF Attendus, Recursifs
<1>11. Head(entrees) = Contenu(f)[p + 1] /\ p + 1 <= L
  <2>1. 1 \in 1 .. e /\ L - e + 1 = p + 1
    BY <1>7, <1>8
  <2>2. Head(entrees) = entrees[1]
    BY <1>1
  <2>3. QED
    BY <1>7, <1>8, <2>1, <2>2
<1>12. Listees(liste', n, coupe, p + 1)
  <2>1. x.nom = Attendus(arguments[n + 1], coupe[n + 1])[p + 1]
    BY <1>6, <1>9, <1>10, <1>11
  <2>2. QED
    BY <1>1, <1>6, <1>9, <2>1, ListeesLigne
<1>13. ASSUME NEW c \in [DOMAIN arguments -> BOOLEAN], entrees' = <<>>, Listees(liste', n + 1, c, 0)
       PROVE  DejaListes'
  <2>1. PICK m, r : m = liste' /\ r = rang
    OBVIOUS
  <2>2. Listees(m, r, c, 0)'
    BY <1>6, <1>13, <2>1, ListeInchangee
  <2>3. Listees(liste, rang, c, 0)'
    BY <2>1, <2>2
  <2>4. c \in [DOMAIN arguments' -> BOOLEAN]
    OBVIOUS
  <2>5. QED
    BY <1>13, <2>3, <2>4 DEF DejaListes
<1>b. /\ Tail(entrees) \in Seq(Sortes \ {"absent"}) /\ Len(Tail(entrees)) = e - 1
      /\ \A k \in 1 .. e - 1 : Tail(entrees)[k] = entrees[k + 1]
  BY <1>1, <1>a
<1>14. ASSUME entrees' = Tail(entrees), e = 1 PROVE DejaListes'
  <2>1. entrees' = <<>>
    BY <1>b, <1>14
  <2>2. p + 1 = Len(Attendus(arguments[n + 1], coupe[n + 1]))
    <3>1. Attendus(arguments[n + 1], coupe[n + 1]) = Contenu(f)
      BY <1>6, <1>9, <1>10
    <3>2. p + 1 = L
      BY <1>8, <1>14
    <3>3. QED
      BY <1>a, <3>1, <3>2
  <2>3. Listees(liste', n + 1, coupe, 0)
    BY <1>1, <1>6, <1>12, <2>2, ListeesSuite
  <2>4. QED
    BY <1>13, <2>1, <2>3
<1>15. ASSUME entrees' = Tail(entrees), e > 1 PROVE DejaListes'
  <2>1. PICK d \in Nat : d = e - 1
    <3>1. e - 1 \in Nat
      BY <1>15
    <3>2. QED
      BY <3>1
  <2>2. /\ Len(entrees') = d /\ d > 0 /\ d <= L /\ entrees' # <<>>
        /\ \A k \in 1 .. d : entrees'[k] = entrees[k + 1]
    BY <1>a, <1>b, <1>15, <2>1
  <2>3. \A k \in 1 .. d : entrees'[k] = Contenu(f)[L - d + k]
    <3>1. \A k \in 1 .. d : k + 1 \in 1 .. e /\ L - e + (k + 1) = L - d + k
      BY <1>a, <2>1
    <3>2. QED
      BY <1>7, <2>2, <3>1
  <2>4. L - d = p + 1
    BY <1>a, <1>8, <2>1
  <2>5. PICK m, r : m = liste' /\ r = rang - 1
    OBVIOUS
  <2>6. Listees(m, r, coupe, L - d)'
    BY <1>5, <1>12, <2>4, <2>5, ListeInchangee
  <2>7. Listees(liste, rang - 1, coupe, L - d)'
    BY <2>5, <2>6
  <2>8. /\ coupe \in [DOMAIN arguments' -> BOOLEAN] /\ rang' > 0 /\ coupe[rang'] = FALSE
        /\ arguments'[rang'] = f /\ f \in Repertoires
    BY <1>2, <1>3
  <2>9. Contenu(arguments[rang])' = Contenu(f)
    BY <2>8 DEF Contenu
  <2>10. DejaListes'
    BY <1>a, <2>2, <2>3, <2>7, <2>8, <2>9 DEF DejaListes
  <2>11. QED
    BY <2>10
<1>16. ASSUME Head(entrees) = "partage", entrees' = <<>> PROVE DejaListes'
  <2>1. f = "dossierPartage" /\ Contenu(f) = <<"texte", "partage", "lienCasse">> /\ p + 1 = 2
    <3>1. f # "dossier" /\ f # "dossierFerme"
      <4>1. CASE f = "dossier"
        <5>1. Contenu(f) = <<"programme", "lienCourt", "masque">> /\ L = 3
          BY <1>7, <4>1 DEF Contenu
        <5>2. p + 1 = 1 \/ p + 1 = 2 \/ p + 1 = 3
          BY <1>11, <5>1
        <5>3. QED
          BY <1>11, <1>16, <5>1, <5>2
      <4>2. CASE f = "dossierFerme"
        BY <1>7, <4>2 DEF Contenu
      <4>3. QED
        BY <4>1, <4>2
    <3>2. f = "dossierPartage"
      BY <1>4, <3>1 DEF Repertoires
    <3>3. Contenu(f) = <<"texte", "partage", "lienCasse">> /\ L = 3
      BY <1>7, <3>2 DEF Contenu
    <3>4. p + 1 = 1 \/ p + 1 = 2 \/ p + 1 = 3
      BY <1>11, <3>3
    <3>5. QED
      BY <1>11, <1>16, <3>2, <3>3, <3>4
  <2>2. PICK c \in [DOMAIN arguments -> BOOLEAN] : c = [coupe EXCEPT ![n + 1] = TRUE]
    OBVIOUS
  <2>3. c[n + 1] = TRUE /\ \A i \in 1 .. n : coupe[i] = c[i]
    <3>1. n + 1 \in DOMAIN arguments /\ \A i \in 1 .. n : i # n + 1 /\ i \in DOMAIN arguments
      BY <1>1, <1>6
    <3>2. QED
      BY <2>2, <3>1, Zenon
  <2>4. Attendus(f, TRUE) = <<"texte", "partage">>
    BY <1>4, <2>1 DEF Attendus, Recursifs
  <2>5. \A k \in 1 .. p + 1 : Attendus(arguments[n + 1], coupe[n + 1])[k]
                                  = Attendus(arguments[n + 1], c[n + 1])[k]
    <3>1. \A k \in 1 .. 2 : k = 1 \/ k = 2
      OBVIOUS
    <3>2. /\ Attendus(arguments[n + 1], coupe[n + 1]) = <<"texte", "partage", "lienCasse">>
          /\ Attendus(arguments[n + 1], c[n + 1]) = <<"texte", "partage">>
      BY <1>6, <1>9, <1>10, <2>1, <2>3, <2>4
    <3>3. QED
      BY <2>1, <3>1, <3>2
  <2>6. Listees(liste', n, c, p + 1)
    BY <1>1, <1>12, <2>3, <2>5, ListeesCoupe
  <2>7. p + 1 = Len(Attendus(arguments[n + 1], c[n + 1]))
    <3>1. Attendus(arguments[n + 1], c[n + 1]) = <<"texte", "partage">>
      BY <1>6, <2>3, <2>4
    <3>2. QED
      BY <2>1, <3>1
  <2>8. Listees(liste', n + 1, c, 0)
    BY <1>1, <1>6, <2>6, <2>7, ListeesSuite
  <2>9. QED
    BY <1>13, <1>16, <2>8
<1>17. LignesJustes' /\ liste' \in Seq(LignesListe)
  BY <1>1, LigneAjoutee DEF ParListe
<1>18. entrees' \in Seq(Sortes \ {"absent"})
  <2>1. CASE entrees' = Tail(entrees)
    BY <1>b, <2>1
  <2>2. CASE entrees' = <<>>
    BY <2>2
  <2>3. QED
    BY <2>1, <2>2
<1>19. DejaListes'
  <2>1. e = 1 \/ e > 1
    BY <1>a
  <2>2. QED
    BY <2>1, <1>14, <1>15, <1>16
<1>20. QED
  BY <1>17, <1>18, <1>19

-----------------------------------------------------------------------------
\* The mini_ls: their steps.

\* The program ends and lists nothing more.
LEMMA ArretListe ==
    ASSUME ParListe, UNCHANGED <<programme, arguments, option, liste, VarsBoucle>>,
           retour' \in {"0", "1", "SIGSEGV", "indefini"}, FinsListe'
    PROVE  ParListe'
<1>1. UNCHANGED <<programme, arguments, option, liste, rang, entrees, lien_sym, color>>
  BY DEF VarsBoucle
<1>2. TypeListe'
  BY <1>1 DEF ParListe, TypeListe, ArgumentsTypes
<1>3. TamponListe' /\ UneLigneParFichier' /\ NomsTenus'
  BY <1>1 DEF ParListe, TamponListe, UneLigneParFichier, NomsTenus, Deborde, Longueur
<1>4. LignesJustes'
  BY <1>1 DEF ParListe, LignesJustes, LigneExacte
<1>5. DejaListes'
  <2>1. \A n, coupe, p : Listees(liste, n, coupe, p)' = Listees(liste, n, coupe, p)
    BY <1>1 DEF Listees, Places, Attendus
  <2>2. \A coupe : /\ Listees(liste, rang, coupe, 0)' = Listees(liste, rang, coupe, 0)
                   /\ \A p : Listees(liste, rang - 1, coupe, p)' = Listees(liste, rang - 1, coupe, p)
    BY <1>1 DEF Listees, Places, Attendus
  <2>3. \A f : Contenu(f)' = Contenu(f)
    BY DEF Contenu
  <2>4. Contenu(arguments[rang])' = Contenu(arguments[rang])
    BY <1>1 DEF Contenu
  <2>5. DejaListes
    BY DEF ParListe
  <2>6. QED
    BY <1>1, <2>2, <2>4, <2>5 DEF DejaListes
<1>6. QED
  BY <1>2, <1>3, <1>4, <1>5 DEF ParListe

\* The current argument is listed, or is passed over.
LEMMA SuiteListe ==
    ASSUME ParListe, UNCHANGED <<programme, arguments, option, entrees>>, entrees = <<>>,
           retour = "enCours", rang < Len(arguments), rang' = rang + 1, Courant # "absent",
           NEW x \in LignesListe, liste' = Append(liste, x), NouvelleLigne(x),
           \A c \in BOOLEAN : Attendus(Courant, c) = <<x.nom>>,
           programme = "mini_ls_fichierspointes" => x.nom = Courant /\ ~Deborde(Courant),
           TamponListe', lien_sym' \in Seq(Sortes), color' \in Couleurs,
           retour' = IF programme \in Simples THEN "0" ELSE "enCours"
    PROVE  ParListe'
<1>1. /\ DejaListes' /\ UneLigneParFichier' /\ NomsTenus' /\ LignesJustes'
      /\ liste' \in Seq(LignesListe) /\ rang' \in 0 .. Len(arguments)
  BY ListerCourant
<1>2. TypeListe'
  BY <1>1 DEF ParListe, TypeListe, ArgumentsTypes
<1>3. FinsListe'
  <2>1. CASE programme \in Simples
    <3>1. rang' = Len(arguments) /\ arguments # <<>>
      <4>1. arguments \in Seq(Sortes) /\ Len(arguments) <= 1 /\ rang \in Nat
        BY <2>1 DEF ParListe, TypeListe, ArgumentsTypes
      <4>2. Len(arguments) \in Nat /\ (arguments = <<>> => Len(arguments) = 0)
        BY <4>1
      <4>3. QED
        BY <4>1, <4>2
    <3>2. QED
      BY <2>1, <3>1 DEF FinsListe
  <2>2. CASE programme \notin Simples
    BY <2>2 DEF FinsListe
  <2>3. QED
    BY <2>1, <2>2
<1>4. QED
  BY <1>1, <1>2, <1>3 DEF ParListe

\* The buffer is long enough for what it had before.
LEMMA TamponGarde ==
    ASSUME liste \in Seq(LignesListe), TamponListe, UNCHANGED lien_sym,
           NEW x, liste' = Append(liste, x)
    PROVE  TamponListe'
<1>1. /\ Len(liste) \in Nat /\ Len(liste') = Len(liste) + 1
      /\ \A j \in 1 .. Len(liste) : liste'[j] = liste[j] /\ j \in 1 .. Len(liste) + 1
  BY DEF LignesListe
<1>2. \A f : Longueur(f)' = Longueur(f)
  BY DEF Longueur
<1>3. CASE lien_sym = <<>>
  BY <1>3 DEF TamponListe
<1>4. ASSUME NEW j \in 1 .. Len(liste), Longueur(liste[j].nom) = Len(lien_sym) PROVE TamponListe'
  <2>1. j \in 1 .. Len(liste') /\ Longueur(liste'[j].nom) = Len(lien_sym')
    BY <1>1, <1>4
  <2>2. QED
    BY <2>1 DEF TamponListe, Longueur
<1>5. QED
  BY <1>3, <1>4 DEF TamponListe

LEMMA DeuxEntiers ==
    ASSUME NEW a \in Nat, NEW b \in Nat
    PROVE  Max({a, b}) = IF a <= b THEN b ELSE a
<1>1. \A m \in {a, b} : (\A y \in {a, b} : y <= m) <=> m = IF a <= b THEN b ELSE a
  OBVIOUS
<1>2. (IF a <= b THEN b ELSE a) \in {a, b}
  OBVIOUS
<1>3. QED
  BY <1>1, <1>2 DEF Max

\* readlink of a link that is printed.
LEMMA ReadlinkTampon ==
    ASSUME liste \in Seq(LignesListe), TamponListe, lien_sym \in Seq(Sortes), NEW f \in Sortes, f \in Liens
    PROVE  /\ readlink(f) \in Seq(Sortes)
           /\ \/ Len(readlink(f)) = Longueur(f) /\ readlink(f) = Cible(f)
              \/ /\ Len(readlink(f)) = Len(lien_sym) /\ Len(lien_sym) > Longueur(f)
                 /\ \E j \in 1 .. Len(liste) : Longueur(liste[j].nom) = Len(lien_sym)
<1>1. Longueur(f) \in Nat /\ Len(lien_sym) \in Nat
  BY DEF Longueur
<1>2. CASE Len(lien_sym) <= Longueur(f)
  <2>1. Max({Len(lien_sym), Longueur(f)}) = Longueur(f)
    BY <1>1, <1>2, DeuxEntiers
  <2>2. readlink(f) = [k \in 1 .. Longueur(f) |-> f]
    <3>1. \A k \in 1 .. Longueur(f) : k <= Longueur(f)
      BY <1>1
    <3>2. QED
      BY <2>1, <3>1 DEF readlink
  <2>3. readlink(f) = Cible(f)
    BY <2>2 DEF Cible
  <2>4. QED
    BY <2>3, AttendusType
<1>3. CASE Len(lien_sym) > Longueur(f)
  <2>1. Max({Len(lien_sym), Longueur(f)}) = Len(lien_sym)
    BY <1>1, <1>3, DeuxEntiers
  <2>2. readlink(f) = [k \in 1 .. Len(lien_sym) |-> IF k <= Longueur(f) THEN f ELSE lien_sym[k]]
    BY <2>1 DEF readlink
  <2>3. \A k \in 1 .. Len(lien_sym) : (IF k <= Longueur(f) THEN f ELSE lien_sym[k]) \in Sortes
    OBVIOUS
  <2>4. readlink(f) \in [1 .. Len(lien_sym) -> Sortes]
    BY <2>2, <2>3
  <2>5. readlink(f) \in Seq(Sortes) /\ Len(readlink(f)) = Len(lien_sym)
    BY <1>1, <2>4
  <2>6. lien_sym # <<>>
    BY <1>1, <1>3
  <2>7. QED
    BY <1>3, <2>5, <2>6 DEF TamponListe
<1>4. QED
  BY <1>1, <1>2, <1>3

\* What a step reads of the invariant.
LEMMA LuListe ==
    ASSUME ParListe, UNCHANGED programme
    PROVE  /\ arguments \in Seq(Sortes) /\ liste \in Seq(LignesListe) /\ rang \in Nat
           /\ Len(arguments) \in Nat /\ rang <= Len(arguments) /\ TamponListe
           /\ lien_sym \in Seq(Sortes) /\ color \in Couleurs /\ option \in BOOLEAN
           /\ arguments = <<>> <=> Len(arguments) = 0
           /\ ~Fini => rang < Len(arguments) /\ Courant \in Sortes
BY DEF ParListe, TypeListe, ArgumentsTypes, Fini, Courant

LEMMA ArreterPas ==
    ASSUME ParListe, UNCHANGED <<programme, arguments, option>>, Arreter, programme \notin Simples,
           \/ Fini /\ entrees = <<>>
           \/ ~Fini /\ Courant = "absent" /\ programme \notin Patients
    PROVE  ParListe'
<1>1. UNCHANGED <<liste, VarsBoucle>> /\ UNCHANGED <<rang, entrees>>
      /\ retour' = IF Fini /\ (arguments # <<>> \/ option) THEN "0" ELSE "1"
  BY DEF Arreter, Rendre, VarsBoucle
<1>2. ~Fini => rang < Len(arguments)
  BY LuListe
<1>3. FinsListe'
  BY <1>1, <1>2 DEF FinsListe, Fini, Courant
<1>4. QED
  BY <1>1, <1>3, ArretListe

LEMMA PlantePas ==
    ASSUME ParListe, UNCHANGED <<programme, arguments, option>>, Plante(Courant), programme \notin Patients
    PROVE  ParListe'
<1>1. UNCHANGED <<liste, VarsBoucle>> /\ retour' = "SIGSEGV"
  BY DEF Plante, Rendre
<1>2. FinsListe'
  BY <1>1 DEF FinsListe
<1>3. QED
  BY <1>1, <1>2, ArretListe

\* A line of a program that knows neither the targets nor the colours.
LEMMA LigneNue ==
    ASSUME ParListe, UNCHANGED <<programme, arguments, option, entrees, lien_sym, color>>, ~Fini,
           retour = "enCours", rang' = rang + 1, Courant # "absent",
           programme \in Simples \cup {"mini_ls_plusieurs"},
           NEW f \in Sortes, f = IF programme = "mini_ls_uid_gid" /\ Courant \in Liens THEN "texte" ELSE Courant,
           NEW i \in BOOLEAN, NEW d \in DroitsOctaux(f, i), AfficherLigne(f, d, "sans", <<>>),
           retour' = IF programme \in Simples THEN "0" ELSE "enCours"
    PROVE  ParListe'
<1>1. PICK x : x = [nom |-> f, droits |-> d, couleur |-> "sans", cible |-> <<>>]
  OBVIOUS
<1>2. x \in LignesListe /\ liste' = Append(liste, x)
  BY <1>1 DEF LignesListe, DroitsOctaux, AfficherLigne, Couleurs
<1>3. /\ programme \notin AvecTampon \cup Patients /\ programme # "mini_ls_couleurs"
      /\ programme \notin Recursifs /\ programme # "mini_ls_fichierspointes"
  BY DEF AvecTampon, Patients, Recursifs, Simples
<1>4. NouvelleLigne(x)
  BY <1>1, <1>3 DEF NouvelleLigne, DroitsOctaux
<1>5. \A c \in BOOLEAN : Attendus(Courant, c) = <<x.nom>>
  BY <1>1, <1>3 DEF Attendus
<1>6. TamponListe' /\ lien_sym' \in Seq(Sortes) /\ color' \in Couleurs /\ entrees = <<>> /\ rang < Len(arguments)
  BY <1>2, <1>3, LuListe, TamponGarde DEF ParListe, TypeListe
<1>7. QED
  BY <1>2, <1>3, <1>4, <1>5, <1>6, SuiteListe

LEMMA NamePas ==
    ASSUME ParListe, mini_ls_name, UNCHANGED programme
    PROVE  ParListe'
<1>1. /\ programme = "mini_ls_name" /\ retour = "enCours" /\ UNCHANGED <<arguments, option>> /\ rang = 0
      /\ programme \in Simples /\ programme \notin Patients
  BY DEF mini_ls_name, Tour, ParListe, FinsListe, Simples, Patients, Recursifs
<1>2. CASE Fini \/ Courant = "absent"
  <2>1. UNCHANGED <<liste, VarsBoucle>> /\ UNCHANGED <<rang, entrees>> /\ retour' = "1"
    BY <1>2 DEF mini_ls_name, Rendre, VarsBoucle
  <2>2. FinsListe'
    BY <1>1, <1>2, <2>1, LuListe DEF FinsListe, Fini, Courant
  <2>3. QED
    BY <1>1, <2>1, <2>2, ArretListe
<1>3. CASE ~Fini /\ Courant # "absent"
  <2>1. CASE Plante(Courant)
    BY <1>1, <2>1, PlantePas
  <2>2. CASE /\ \E d \in DroitsOctaux(Courant, FALSE) : AfficherLigne(Courant, d, "sans", <<>>)
             /\ Rendre("0") /\ Avancer /\ UNCHANGED <<entrees, lien_sym, color>>
    <3>1. PICK d \in DroitsOctaux(Courant, FALSE) : AfficherLigne(Courant, d, "sans", <<>>)
      BY <2>2
    <3>2. rang' = rang + 1 /\ retour' = "0" /\ UNCHANGED <<entrees, lien_sym, color>>
      BY <2>2 DEF Rendre, Avancer
    <3>3. Courant \in Sortes
      BY <1>3, LuListe
    <3>4. QED
      BY <1>1, <1>3, <3>1, <3>2, <3>3, LigneNue
  <2>3. QED
    BY <1>3, <2>1, <2>2 DEF mini_ls_name
<1>4. QED
  BY <1>2, <1>3

LEMMA UidGidPas ==
    ASSUME ParListe, mini_ls_uid_gid, UNCHANGED programme
    PROVE  ParListe'
<1>1. /\ programme = "mini_ls_uid_gid" /\ retour = "enCours" /\ UNCHANGED <<arguments, option>> /\ rang = 0
      /\ programme \in Simples /\ programme \notin Patients
  BY DEF mini_ls_uid_gid, Tour, ParListe, FinsListe, Simples, Patients, Recursifs
<1>2. CASE Fini \/ Courant \in {"absent", "lienCasse"}
  <2>1. UNCHANGED <<liste, VarsBoucle>> /\ UNCHANGED <<rang, entrees>> /\ retour' = "1"
    BY <1>2 DEF mini_ls_uid_gid, Rendre, VarsBoucle
  <2>2. FinsListe'
    BY <1>1, <1>2, <2>1, LuListe DEF FinsListe, Fini, Courant
  <2>3. QED
    BY <1>1, <2>1, <2>2, ArretListe
<1>3. CASE ~Fini /\ Courant \notin {"absent", "lienCasse"}
  <2>1. PICK f : f = IF Courant \in Liens THEN "texte" ELSE Courant
    OBVIOUS
  <2>2. PICK d \in DroitsOctaux(f, FALSE) : AfficherLigne(f, d, "sans", <<>>)
    BY <1>3, <2>1 DEF mini_ls_uid_gid
  <2>3. rang' = rang + 1 /\ retour' = "0" /\ UNCHANGED <<entrees, lien_sym, color>>
    BY <1>3 DEF mini_ls_uid_gid, Rendre, Avancer
  <2>4. Courant \in Sortes
    BY <1>3, LuListe
  <2>5. f \in Sortes
    BY <2>1, <2>4 DEF Sortes
  <2>6. QED
    BY <1>1, <1>3, <2>1, <2>2, <2>3, <2>5, LigneNue
<1>4. QED
  BY <1>2, <1>3

LEMMA PlusieursPas ==
    ASSUME ParListe, mini_ls_plusieurs, UNCHANGED programme
    PROVE  ParListe'
<1>1. /\ programme = "mini_ls_plusieurs" /\ retour = "enCours" /\ UNCHANGED <<arguments, option>>
      /\ programme \notin Simples /\ programme \notin Patients /\ entrees = <<>>
  BY DEF mini_ls_plusieurs, Tour, ParListe, TypeListe, Simples, Patients, Recursifs
<1>2. CASE Fini \/ Courant = "absent"
  BY <1>1, <1>2, ArreterPas DEF mini_ls_plusieurs
<1>3. CASE ~Fini /\ Courant # "absent"
  <2>1. CASE Plante(Courant)
    BY <1>1, <2>1, PlantePas
  <2>2. CASE /\ \E d \in DroitsOctaux(Courant, TRUE) : AfficherLigne(Courant, d, "sans", <<>>)
             /\ Avancer /\ UNCHANGED <<retour, entrees, lien_sym, color>>
    <3>1. PICK d \in DroitsOctaux(Courant, TRUE) : AfficherLigne(Courant, d, "sans", <<>>)
      BY <2>2
    <3>2. rang' = rang + 1 /\ UNCHANGED <<retour, entrees, lien_sym, color>>
      BY <2>2 DEF Avancer
    <3>3. Courant \in Sortes
      BY <1>3, LuListe
    <3>4. QED
      BY <1>1, <1>3, <3>1, <3>2, <3>3, LigneNue
  <2>3. QED
    BY <1>3, <2>1, <2>2 DEF mini_ls_plusieurs
<1>4. QED
  BY <1>2, <1>3

\* A line of a program that keeps the buffer of readlink.
LEMMA LigneTampon ==
    ASSUME ParListe, UNCHANGED <<programme, arguments, option, entrees, retour, color>>, ~Fini,
           retour = "enCours", rang' = rang + 1, Courant # "absent", programme \in AvecTampon,
           lien_sym' = IF Courant \in Liens THEN readlink(Courant) ELSE lien_sym,
           NEW d \in DroitsOctaux(Courant, TRUE), NEW couleur \in Couleurs,
           programme = "mini_ls_couleurs" => couleur = couleurFichier(Courant),
           programme = "mini_ls_fichierspointes" => ~Deborde(Courant),
           AfficherLigne(Courant, d, couleur, IF Courant \in Liens THEN lien_sym' ELSE <<>>)
    PROVE  ParListe'
<1>1. /\ programme \notin Patients /\ programme \notin Recursifs /\ programme \notin Simples
      /\ programme # "mini_ls_uid_gid" /\ entrees = <<>>
  BY DEF AvecTampon, Patients, Recursifs, Simples, ParListe, TypeListe
<1>2. /\ Courant \in Sortes /\ liste \in Seq(LignesListe) /\ TamponListe /\ lien_sym \in Seq(Sortes)
      /\ color \in Couleurs /\ rang < Len(arguments)
  BY LuListe
<1>3. PICK f, cible : f = Courant /\ cible = IF Courant \in Liens THEN lien_sym' ELSE <<>>
  OBVIOUS
<1>4. f \in Liens => /\ lien_sym' = readlink(f) /\ readlink(f) \in Seq(Sortes)
                     /\ \/ Len(readlink(f)) = Longueur(f) /\ readlink(f) = Cible(f)
                        \/ /\ Len(readlink(f)) = Len(lien_sym) /\ Len(lien_sym) > Longueur(f)
                           /\ \E j \in 1 .. Len(liste) : Longueur(liste[j].nom) = Len(lien_sym)
  BY <1>2, <1>3, ReadlinkTampon
<1>5. lien_sym' \in Seq(Sortes) /\ cible \in Seq(Sortes)
  <2>1. CASE f \in Liens
    BY <1>3, <1>4, <2>1
  <2>2. CASE f \notin Liens
    BY <1>2, <1>3, <2>2
  <2>3. QED
    BY <2>1, <2>2
<1>6. PICK x : x = [nom |-> f, droits |-> d, couleur |-> couleur, cible |-> cible]
  OBVIOUS
<1>7. /\ x \in LignesListe /\ liste' = Append(liste, x)
      /\ x.nom = f /\ x.droits = d /\ x.couleur = couleur /\ x.cible = cible
  BY <1>2, <1>3, <1>5, <1>6 DEF LignesListe, DroitsOctaux, AfficherLigne
<1>8. x.cible = Cible(f) \/ (f \in Liens /\ \E j \in 1 .. Len(liste) : Longueur(liste[j].nom) > Longueur(f))
  <2>1. CASE f \in Liens
    BY <1>3, <1>4, <1>7, <2>1
  <2>2. CASE f \notin Liens
    <3>1. Longueur(f) = 0 /\ cible = <<>>
      BY <1>3, <2>2 DEF Longueur, Liens
    <3>2. Cible(f) = <<>>
      BY <3>1 DEF Cible
    <3>3. QED
      BY <1>7, <3>1, <3>2
  <2>3. QED
    BY <2>1, <2>2
<1>9. NouvelleLigne(x)
  <2>1. x.droits = "exacts" \/ (x.nom = "masque" /\ programme \notin Patients)
    BY <1>1, <1>3, <1>7 DEF DroitsOctaux
  <2>2. programme \in Patients \cup {"mini_ls_couleurs"} => x.couleur = couleurFichier(x.nom)
    BY <1>1, <1>3, <1>7
  <2>3. QED
    BY <1>7, <1>8, <2>1, <2>2 DEF NouvelleLigne
<1>10. \A c \in BOOLEAN : Attendus(Courant, c) = <<x.nom>>
  BY <1>1, <1>3, <1>7 DEF Attendus
<1>11. TamponListe'
  <2>0. /\ Len(liste) \in Nat /\ Len(liste') = Len(liste) + 1 /\ liste'[Len(liste) + 1] = x
        /\ \A j \in 1 .. Len(liste) : liste'[j] = liste[j] /\ j \in 1 .. Len(liste')
    BY <1>2, <1>7
  <2>1. CASE f \notin Liens
    BY <1>2, <1>3, <1>7, <2>1, TamponGarde
  <2>2. ASSUME f \in Liens, Len(lien_sym') = Longueur(f) PROVE TamponListe'
    <3>1. Len(liste) + 1 \in 1 .. Len(liste') /\ Longueur(liste'[Len(liste) + 1].nom) = Len(lien_sym')
      BY <1>7, <2>0, <2>2
    <3>2. QED
      BY <3>1 DEF TamponListe, Longueur
  <2>3. ASSUME NEW j \in 1 .. Len(liste), Longueur(liste[j].nom) = Len(lien_sym') PROVE TamponListe'
    <3>1. j \in 1 .. Len(liste') /\ Longueur(liste'[j].nom) = Len(lien_sym')
      BY <2>0, <2>3
    <3>2. QED
      BY <3>1 DEF TamponListe, Longueur
  <2>4. QED
    BY <1>4, <2>1, <2>2, <2>3
<1>12. UNCHANGED <<programme, arguments, option, entrees>> /\ color' \in Couleurs
       /\ retour' = IF programme \in Simples THEN "0" ELSE "enCours"
  BY <1>1, <1>2
<1>13. QED
  BY <1>1, <1>2, <1>3, <1>5, <1>7, <1>9, <1>10, <1>11, <1>12, SuiteListe

LEMMA FichiersPointesPas ==
    ASSUME ParListe, mini_ls_fichierspointes, UNCHANGED programme
    PROVE  ParListe'
<1>1. /\ programme = "mini_ls_fichierspointes" /\ retour = "enCours" /\ UNCHANGED <<arguments, option>>
      /\ programme \notin Simples /\ programme \notin Patients /\ entrees = <<>> /\ programme \in AvecTampon
  BY DEF mini_ls_fichierspointes, Tour, ParListe, TypeListe, Simples, Patients, Recursifs, AvecTampon
<1>2. CASE Fini \/ Courant = "absent"
  BY <1>1, <1>2, ArreterPas DEF mini_ls_fichierspointes
<1>3. CASE ~Fini /\ Courant # "absent"
  <2>1. CASE Plante(Courant)
    BY <1>1, <2>1, PlantePas
  <2>2. CASE Deborde(Courant) /\ Rendre("indefini") /\ UNCHANGED <<liste, VarsBoucle>>
    <3>1. retour' = "indefini" /\ UNCHANGED rang
      BY <2>2 DEF Rendre, VarsBoucle
    <3>2. FinsListe'
      BY <1>1, <2>2, <3>1 DEF FinsListe, Courant, Deborde, Longueur
    <3>3. QED
      BY <1>1, <2>2, <3>1, <3>2, ArretListe
  <2>3. CASE /\ ~Deborde(Courant) /\ Avancer
             /\ lien_sym' = IF Courant \in Liens THEN readlink(Courant) ELSE lien_sym
             /\ \E d \in DroitsOctaux(Courant, TRUE) :
                    AfficherLigne(Courant, d, "sans", IF Courant \in Liens THEN lien_sym' ELSE <<>>)
             /\ UNCHANGED <<retour, entrees, color>>
    <3>1. /\ rang' = rang + 1 /\ UNCHANGED <<retour, entrees, color>>
          /\ lien_sym' = IF Courant \in Liens THEN readlink(Courant) ELSE lien_sym
      BY <2>3 DEF Avancer
    <3>2. PICK d \in DroitsOctaux(Courant, TRUE) :
              AfficherLigne(Courant, d, "sans", IF Courant \in Liens THEN lien_sym' ELSE <<>>)
      BY <2>3
    <3>3. "sans" \in Couleurs
      BY DEF Couleurs
    <3>4. QED
      BY <1>1, <1>3, <2>3, <3>1, <3>2, <3>3, LigneTampon
  <2>4. QED
    BY <1>3, <2>1, <2>2, <2>3 DEF mini_ls_fichierspointes
<1>4. QED
  BY <1>2, <1>3

LEMMA CouleursPas ==
    ASSUME ParListe, mini_ls_couleurs, UNCHANGED programme
    PROVE  ParListe'
<1>1. /\ programme = "mini_ls_couleurs" /\ retour = "enCours" /\ UNCHANGED <<arguments, option>>
      /\ programme \notin Simples /\ programme \notin Patients /\ entrees = <<>> /\ programme \in AvecTampon
  BY DEF mini_ls_couleurs, Tour, ParListe, TypeListe, Simples, Patients, Recursifs, AvecTampon
<1>2. CASE Fini \/ Courant = "absent"
  BY <1>1, <1>2, ArreterPas DEF mini_ls_couleurs
<1>3. CASE ~Fini /\ Courant # "absent"
  <2>1. CASE Plante(Courant)
    BY <1>1, <2>1, PlantePas
  <2>2. ASSUME ~Plante(Courant) PROVE ParListe'
    <3>1. /\ rang' = rang + 1 /\ UNCHANGED <<retour, entrees, color>>
          /\ lien_sym' = IF Courant \in Liens THEN readlink(Courant) ELSE lien_sym
      BY <1>3, <2>2 DEF mini_ls_couleurs, Avancer
    <3>2. PICK d \in DroitsOctaux(Courant, TRUE) :
              AfficherLigne(Courant, d, couleurFichier(Courant), IF Courant \in Liens THEN lien_sym' ELSE <<>>)
      BY <1>3, <2>2 DEF mini_ls_couleurs
    <3>3. PICK couleur \in Couleurs : couleur = couleurFichier(Courant)
      BY DEF Couleurs, couleurFichier
    <3>4. AfficherLigne(Courant, d, couleur, IF Courant \in Liens THEN lien_sym' ELSE <<>>)
      BY <3>2, <3>3
    <3>5. QED
      BY <1>1, <1>3, <3>1, <3>3, <3>4, LigneTampon
  <2>3. QED
    BY <2>1, <2>2
<1>4. QED
  BY <1>2, <1>3

\* The line of a file for the programs that go on after an absent one.
LEMMA LignePatiente ==
    ASSUME ParListe, programme \in Patients, NEW f \in Sortes, f # "absent",
           NEW avant \in Couleurs, NEW x,
           x = [nom |-> f, droits |-> "exacts", couleur |-> couleurAcl(f, avant), cible |-> Cible(f)]
    PROVE  x \in LignesListe /\ NouvelleLigne(x) /\ couleurAcl(f, avant) \in Couleurs
<1>1. couleurFichier(f) \in Couleurs /\ couleurAcl(f, avant) \in Couleurs
  BY DEF couleurFichier, couleurAcl, Couleurs
<1>2. Cible(f) \in Seq(Sortes)
  BY AttendusType
<1>3. x \in LignesListe
  BY <1>1, <1>2 DEF LignesListe
<1>4. couleurFichier(f) = "normal" => f \in {"texte", "masque", "partage", "anonyme", "nomLong"}
  BY DEF couleurFichier, Sortes, Liens, Repertoires
<1>5. /\ x.nom = f /\ x.droits = "exacts" /\ x.cible = Cible(f)
      /\ x.couleur = couleurFichier(f) \/ f \in {"texte", "masque", "partage", "anonyme", "nomLong"}
  BY <1>4 DEF couleurAcl
<1>6. QED
  BY <1>1, <1>3, <1>5 DEF NouvelleLigne

\* An argument that is passed over.
LEMMA PassePas ==
    ASSUME ParListe, UNCHANGED <<programme, arguments, option, liste, retour, lien_sym, color>>,
           retour = "enCours", entrees = <<>>, ~Fini, rang' = rang + 1, programme \in Patients,
           \/ Courant = "absent" /\ entrees' = <<>>
           \/ Courant \in Repertoires /\ entrees' = Contenu(Courant) /\ programme \in Recursifs
    PROVE  ParListe'
<1>0. rang < Len(arguments)
  BY LuListe
<1>1. DejaListes' /\ entrees' \in Seq(Sortes \ {"absent"}) /\ rang' \in 0 .. Len(arguments)
  BY <1>0, PasserCourant
<1>2. programme \notin Simples
  BY DEF Simples, Patients, Recursifs
<1>3. TypeListe'
  BY <1>1, <1>2 DEF ParListe, TypeListe, ArgumentsTypes
<1>4. TamponListe' /\ UneLigneParFichier' /\ NomsTenus'
  BY DEF ParListe, TamponListe, UneLigneParFichier, NomsTenus, Patients, Recursifs
<1>5. LignesJustes'
  BY DEF ParListe, LignesJustes, LigneExacte
<1>6. FinsListe'
  BY <1>2 DEF FinsListe
<1>7. QED
  BY <1>1, <1>3, <1>4, <1>5, <1>6 DEF ParListe

\* An argument that is listed by a program that goes on after an absent one.
LEMMA SuitePatiente ==
    ASSUME ParListe, UNCHANGED <<programme, arguments, option, entrees, retour, lien_sym>>,
           retour = "enCours", entrees = <<>>, ~Fini, rang' = rang + 1, programme \in Patients,
           Courant # "absent", ~(programme \in Recursifs /\ Courant \in Repertoires),
           NEW avant \in Couleurs, color' \in Couleurs,
           AfficherLigne(Courant, "exacts", couleurAcl(Courant, avant), Cible(Courant))
    PROVE  ParListe'
<1>1. Courant \in Sortes /\ rang < Len(arguments) /\ liste \in Seq(LignesListe) /\ TamponListe
      /\ lien_sym \in Seq(Sortes)
  BY LuListe
<1>2. PICK f : f = Courant
  OBVIOUS
<1>3. PICK x : x = [nom |-> f, droits |-> "exacts", couleur |-> couleurAcl(f, avant), cible |-> Cible(f)]
  OBVIOUS
<1>4. x \in LignesListe /\ NouvelleLigne(x)
  BY <1>1, <1>2, <1>3, LignePatiente
<1>5. liste' = Append(liste, x) /\ x.nom = Courant
  BY <1>2, <1>3 DEF AfficherLigne
<1>6. programme \notin Simples \cup {"mini_ls_uid_gid", "mini_ls_fichierspointes"}
  BY DEF Simples, Patients, Recursifs
<1>7. \A c \in BOOLEAN : Attendus(Courant, c) = <<x.nom>>
  BY <1>5, <1>6 DEF Attendus
<1>8. TamponListe'
  BY <1>1, <1>5, TamponGarde
<1>9. QED
  BY <1>1, <1>4, <1>5, <1>6, <1>7, <1>8, SuiteListe

LEMMA AclPas ==
    ASSUME ParListe, mini_ls_acl, UNCHANGED programme
    PROVE  ParListe'
<1>1. /\ programme = "mini_ls_acl" /\ retour = "enCours" /\ UNCHANGED <<arguments, option>>
      /\ programme \notin Simples /\ programme \in Patients /\ programme \notin Recursifs /\ entrees = <<>>
  BY DEF mini_ls_acl, Tour, ParListe, TypeListe, Simples, Patients, Recursifs
<1>2. CASE Fini
  BY <1>1, <1>2, ArreterPas DEF mini_ls_acl
<1>3. CASE ~Fini
  <2>1. rang' = rang + 1 /\ UNCHANGED <<retour, entrees, lien_sym>>
    BY <1>3 DEF mini_ls_acl, Avancer
  <2>2. CASE Courant = "absent"
    <3>1. UNCHANGED <<liste, color>>
      BY <1>3, <2>2 DEF mini_ls_acl
    <3>2. QED
      BY <1>1, <1>3, <2>1, <2>2, <3>1, PassePas
  <2>3. CASE Courant # "absent"
    <3>1. /\ color' = couleurAcl(Courant, color)
          /\ AfficherLigne(Courant, "exacts", color', Cible(Courant))
      BY <1>3, <2>3 DEF mini_ls_acl
    <3>2. PICK avant \in Couleurs : avant = color
      BY LuListe
    <3>3. AfficherLigne(Courant, "exacts", couleurAcl(Courant, avant), Cible(Courant))
      BY <3>1, <3>2
    <3>4. couleurAcl(Courant, avant) \in Couleurs
      BY DEF couleurAcl, couleurFichier, Couleurs
    <3>5. color' \in Couleurs
      BY <3>1, <3>2, <3>4
    <3>6. QED
      BY <1>1, <1>3, <2>1, <2>3, <3>3, <3>5, SuitePatiente
  <2>4. QED
    BY <2>2, <2>3
<1>4. QED
  BY <1>2, <1>3

LEMMA DirPas ==
    ASSUME ParListe, NEW q \in Recursifs, main_dir(q), UNCHANGED programme
    PROVE  ParListe'
<1>1. /\ programme \in Recursifs /\ retour = "enCours"
      /\ UNCHANGED <<arguments, option, lien_sym, color>>
      /\ programme \notin Simples /\ programme \in Patients
  BY DEF main_dir, Tour, Simples, Patients, Recursifs
<1>2. "indefini" \in Couleurs
  BY DEF Couleurs
<1>3. CASE entrees # <<>>
  <2>1. /\ list_file(Head(entrees)) /\ UNCHANGED <<retour, rang>>
        /\ \E encore \in errnoNonNul(Head(entrees)) : entrees' = IF encore THEN Tail(entrees) ELSE <<>>
    BY <1>3 DEF main_dir
  <2>2. entrees' = Tail(entrees) \/ (Head(entrees) = "partage" /\ entrees' = <<>>)
    BY <2>1 DEF errnoNonNul
  <2>3. PICK f : f = Head(entrees)
    OBVIOUS
  <2>4. f \in Sortes /\ f # "absent"
    <3>1. entrees \in Seq(Sortes \ {"absent"})
      BY DEF ParListe, TypeListe
    <3>2. QED
      BY <1>3, <2>3, <3>1
  <2>5. PICK x : x = [nom |-> f, droits |-> "exacts", couleur |-> couleurAcl(f, "indefini"), cible |-> Cible(f)]
    OBVIOUS
  <2>6. x \in LignesListe /\ NouvelleLigne(x)
    BY <1>1, <1>2, <2>4, <2>5, LignePatiente
  <2>7. liste' = Append(liste, x) /\ x.nom = Head(entrees)
    BY <2>1, <2>3, <2>5 DEF list_file, AfficherLigne
  <2>8. /\ DejaListes' /\ LignesJustes' /\ liste' \in Seq(LignesListe)
        /\ entrees' \in Seq(Sortes \ {"absent"})
    BY <1>1, <1>3, <2>1, <2>2, <2>6, <2>7, ListerEntree
  <2>9. TypeListe'
    BY <1>1, <2>1, <2>8 DEF ParListe, TypeListe, ArgumentsTypes
  <2>10. TamponListe'
    BY <1>1, <2>7, LuListe, TamponGarde
  <2>11. UneLigneParFichier' /\ NomsTenus' /\ FinsListe'
    BY <1>1, <2>1 DEF UneLigneParFichier, NomsTenus, FinsListe, Recursifs
  <2>12. QED
    BY <2>8, <2>9, <2>10, <2>11 DEF ParListe
<1>4. CASE entrees = <<>> /\ Fini
  BY <1>1, <1>4, ArreterPas DEF main_dir
<1>5. CASE entrees = <<>> /\ ~Fini
  <2>1. /\ rang' = rang + 1 /\ UNCHANGED retour
        /\ entrees' = IF Courant \in Repertoires THEN Contenu(Courant) ELSE <<>>
    BY <1>5 DEF main_dir, Avancer
  <2>2. CASE Courant \in {"absent"} \cup Repertoires
    <3>1. UNCHANGED liste
      BY <1>5, <2>2 DEF main_dir
    <3>2. \/ Courant = "absent" /\ entrees' = <<>>
          \/ Courant \in Repertoires /\ entrees' = Contenu(Courant) /\ programme \in Recursifs
      BY <1>1, <2>1, <2>2
    <3>3. QED
      BY <1>1, <1>5, <2>1, <3>1, <3>2, PassePas
  <2>3. CASE Courant \notin {"absent"} \cup Repertoires
    <3>1. AfficherLigne(Courant, "exacts", couleurAcl(Courant, "indefini"), Cible(Courant))
      BY <1>5, <2>3 DEF main_dir, list_file
    <3>2. UNCHANGED entrees /\ color' \in Couleurs
      BY <1>1, <1>5, <2>1, <2>3, LuListe
    <3>3. QED
      BY <1>1, <1>2, <1>5, <2>1, <2>3, <3>1, <3>2, SuitePatiente
  <2>4. QED
    BY <2>2, <2>3
<1>6. QED
  BY <1>3, <1>4, <1>5

LEMMA ListeInitiale ==
    ASSUME Init
    PROVE  InvListe
<1>1. CASE programme \notin ProgrammesListe
  BY <1>1 DEF Init, InvListe
<1>2. CASE programme \in ProgrammesListe
  <2>1. InitListe
    BY <1>2 DEF Init
  <2>2. /\ option \in BOOLEAN /\ rang = 0 /\ entrees = <<>> /\ lien_sym = <<>> /\ color = "indefini"
        /\ liste = <<>> /\ retour = "enCours"
    BY <2>1 DEF InitListe
  <2>3. PICK m \in Nat : arguments \in [1 .. m -> Sortes] /\ (programme \in Simples => m <= 1)
    BY <2>1, ListeAssumption DEF InitListe, SeqOf
  <2>4. arguments \in Seq(Sortes) /\ Len(arguments) = m
    BY <2>3
  <2>5. /\ rang \in 0 .. Len(arguments) /\ liste \in Seq(LignesListe) /\ lien_sym \in Seq(Sortes)
        /\ entrees \in Seq(Sortes \ {"absent"}) /\ color \in Couleurs
    BY <2>2, <2>4 DEF Couleurs
  <2>6. TypeListe
    BY <1>2, <2>2, <2>3, <2>4, <2>5 DEF TypeListe, ArgumentsTypes
  <2>7. TamponListe /\ LignesJustes /\ FinsListe
    BY <2>2 DEF TamponListe, LignesJustes, FinsListe
  <2>8. UneLigneParFichier /\ NomsTenus
    BY <2>2 DEF UneLigneParFichier, NomsTenus
  <2>9. DejaListes
    <3>1. PICK coupe : coupe = [i \in DOMAIN arguments |-> FALSE]
      OBVIOUS
    <3>2. Places(0, coupe) = {}
      BY DEF Places
    <3>3. IsFiniteSet(Places(0, coupe)) /\ Cardinality(Places(0, coupe)) = 0
      BY <3>2, FS_EmptySet
    <3>4. Listees(liste, rang, coupe, 0)
      <4>1. Listees(<<>>, 0, coupe, 0)
        BY <3>3 DEF Listees
      <4>2. QED
        BY <2>2, <4>1
    <3>5. coupe \in [DOMAIN arguments -> BOOLEAN]
      BY <3>1
    <3>6. QED
      BY <2>2, <3>4, <3>5 DEF DejaListes
  <2>10. QED
    BY <1>2, <2>6, <2>7, <2>8, <2>9 DEF InvListe, ParListe
<1>3. QED
  BY <1>1, <1>2

\* The invariant of the listings: the lines printed, up to the next file.
THEOREM ListeInvariant == Spec => []InvListe
<1>1. InvListe /\ [Next]_vars => InvListe'
  <2> SUFFICES ASSUME InvListe, [Next]_vars PROVE InvListe'
    OBVIOUS
  <2>1. CASE UNCHANGED <<programme, varsListe>> /\ programme \notin ProgrammesListe
    BY <2>1 DEF InvListe, ReposListe, varsListe
  <2>2. CASE UNCHANGED <<programme, varsListe>> /\ programme \in ProgrammesListe
    <3>1. UNCHANGED <<programme, arguments, option, liste, rang, entrees, lien_sym, color, retour>>
      BY <2>2 DEF varsListe
    <3>2. ParListe
      BY <2>2 DEF InvListe
    <3>3. TypeListe'
      BY <3>1, <3>2 DEF ParListe, TypeListe, ArgumentsTypes
    <3>4. TamponListe' /\ UneLigneParFichier' /\ NomsTenus' /\ FinsListe'
      BY <3>1, <3>2 DEF ParListe, TamponListe, UneLigneParFichier, NomsTenus, FinsListe, Deborde, Longueur
    <3>5. LignesJustes'
      BY <3>1, <3>2 DEF ParListe, LignesJustes, LigneExacte
    <3>6. DejaListes'
      <4>1. \A coupe : /\ Listees(liste, rang, coupe, 0)' = Listees(liste, rang, coupe, 0)
                       /\ \A p : Listees(liste, rang - 1, coupe, p)' = Listees(liste, rang - 1, coupe, p)
        BY <3>1 DEF Listees, Places, Attendus
      <4>2. Contenu(arguments[rang])' = Contenu(arguments[rang])
        BY <3>1 DEF Contenu
      <4>3. DejaListes
        BY <3>2 DEF ParListe
      <4>4. QED
        BY <3>1, <4>1, <4>2, <4>3 DEF DejaListes
    <3>7. QED
      BY <2>2, <3>3, <3>4, <3>5, <3>6 DEF InvListe, ParListe
  <2>3. CASE programme \in ProgrammesListe /\ NextListe /\ UNCHANGED programme
    <3>1. ParListe
      BY <2>3 DEF InvListe
    <3>2. /\ mini_ls_dir => ParListe'
          /\ mini_ls_dir2 => ParListe'
      <4>1. "mini_ls_dir" \in Recursifs /\ "mini_ls_dir2" \in Recursifs
        BY DEF Recursifs
      <4>2. QED
        BY <2>3, <3>1, <4>1, DirPas DEF mini_ls_dir, mini_ls_dir2
    <3>3. ParListe'
      BY <2>3, <3>1, <3>2, NamePas, UidGidPas, PlusieursPas, FichiersPointesPas, CouleursPas, AclPas
         DEF NextListe
    <3>4. QED
      BY <2>3, <3>3 DEF InvListe
  <2>4. QED
    BY <2>1, <2>2, <2>3, PasListe
<1>2. QED
  BY <1>1, ListeInitiale, PTL DEF Spec

\* For any number of files of the given kinds: the eight mini_ls list each file
\* that is there once, in order, with its rights, its target and its colour but
\* for what is known to be wrong; a program that goes on after an absent file
\* fails only if it is given nothing, the others at the first one they cannot
\* list.  mini_ls_fichierspointes.c, for a buffer of any size, does so until the
\* first name or target that its buffers have no room for.
THEOREM ListeExacteToujours == Spec => []ListeExacte
<1>1. InvListe => ListeExacte
  <2> SUFFICES ASSUME InvListe PROVE ListeExacte
    OBVIOUS
  <2>1. CASE programme \notin ProgrammesListe
    <3>1. /\ arguments = <<>> /\ rang = 0 /\ entrees = <<>> /\ lien_sym = <<>> /\ liste = <<>>
          /\ retour = "1"
      BY <2>1 DEF InvListe, ReposListe
    <3>2. programme \notin Patients \cup {"mini_ls_fichierspointes"}
      BY <2>1 DEF ProgrammesListe, AvecTampon
    <3>3. TypeOKListe
      BY <3>1 DEF TypeOKListe, ToSet
    <3>4. \A k \in DOMAIN liste : LigneExacte(k)
      BY <3>1
    <3>5. QED
      BY <3>1, <3>2, <3>3, <3>4 DEF ListeExacte
  <2>2. CASE programme \in ProgrammesListe
    <3>1. ParListe /\ TypeListe /\ FinsListe /\ UneLigneParFichier
      BY <2>2 DEF InvListe, ParListe
    <3>2. TypeOKListe
      <4>1. ToSet(entrees) \subseteq Sortes /\ ToSet(lien_sym) \subseteq Sortes
        BY <3>1 DEF TypeListe, ToSet
      <4>2. QED
        BY <3>1, <4>1 DEF TypeListe, TypeOKListe
    <3>3. \A k \in DOMAIN liste : LigneExacte(k)
      BY <3>1 DEF ParListe, LignesJustes
    <3>4. ASSUME retour = "0"
          PROVE  \E coupe \in [DOMAIN arguments -> BOOLEAN] :
                     /\ Len(liste) = Cardinality(Places(Len(arguments), coupe))
                     /\ Listes(Len(arguments), coupe)
      <4>1. rang = Len(arguments) /\ entrees = <<>>
        BY <3>1, <3>4 DEF FinsListe
      <4>2. PICK coupe \in [DOMAIN arguments -> BOOLEAN] : Listees(liste, rang, coupe, 0)
        BY <3>1, <4>1 DEF ParListe, DejaListes
      <4>3. Listes(Len(arguments), coupe)
        BY <4>1, <4>2 DEF Listees, Listes
      <4>4. Len(liste) = Cardinality(Places(Len(arguments), coupe))
        <5>1. IsFiniteSet(Places(rang, coupe)) /\ Len(liste) = Cardinality(Places(rang, coupe)) + 0
          BY <4>2 DEF Listees
        <5>2. Cardinality(Places(rang, coupe)) \in Nat
          BY <5>1, FS_CardinalityType
        <5>3. QED
          BY <4>1, <5>1, <5>2
      <4>5. QED
        BY <4>3, <4>4
    <3>5. retour = "0" /\ programme \notin Patients => "absent" \notin ToSet(arguments)
      BY <3>1 DEF FinsListe, UneLigneParFichier, TypeListe, ArgumentsTypes, ToSet
    <3>6. retour = "1" /\ arguments # <<>> => arguments[Len(liste) + 1] \in {"absent", "lienCasse"}
      BY <3>1 DEF FinsListe, UneLigneParFichier
    <3>7. /\ programme = "mini_ls_fichierspointes" =>
                 \A k \in DOMAIN liste : liste[k].nom = arguments[k] /\ ~Deborde(arguments[k])
          /\ retour = "indefini" =>
                 programme = "mini_ls_fichierspointes" /\ Deborde(arguments[Len(liste) + 1])
      <4>1. programme = "mini_ls_fichierspointes" => Len(liste) = rang
        BY <3>1 DEF UneLigneParFichier, Patients, Recursifs
      <4>2. DOMAIN liste = 1 .. Len(liste)
        BY <3>1 DEF TypeListe
      <4>3. QED
        BY <3>1, <4>1, <4>2 DEF ParListe, NomsTenus, FinsListe
    <3>8. QED
      BY <3>1, <3>2, <3>3, <3>4, <3>5, <3>6, <3>7 DEF ListeExacte, FinsListe
  <2>3. QED
    BY <2>1, <2>2
<1>2. QED
  BY <1>1, ListeInvariant, PTL

-----------------------------------------------------------------------------
\* The trees of processes: what the forks that have been made say of the others.

Finis == {"zombie", "parti"}

Fils(D, p) == {q \in D : q # <<>> /\ Front(q) = p}

\* Every process is the child of another, and the children are numbered.
Filiation(D) ==
    /\ IsFiniteSet(D) /\ D \subseteq Seq(Nat) /\ Ancetre \in D
    /\ \A q \in D : q # Ancetre =>
           /\ Front(q) \in D
           /\ Last(q) \in 1 .. Cardinality(Fils(D, Front(q)))

PointsForks ==
    {"debut", "fork1", "fork2", "fork2nul", "fork3", "fork4", "fork5", "boucle", "getchar",
     "ecrire", "attendre", "finir", "zombie", "parti"}

\* How many processes the forks that remain to a process will make, itself left out.
PoidsForks ==
    [e \in PointsForks |->
        IF e \in {"debut", "fork1"} THEN 10 ELSE IF e = "fork2" THEN 4
        ELSE IF e = "fork2nul" THEN 5 ELSE IF e = "fork4" THEN 2
        ELSE IF e \in {"fork3", "fork5"} THEN 1 ELSE 0]

Futurs(f) == UNION {{p} \X (1 .. PoidsForks[f[p]]) : p \in DOMAIN f}

TermineesForks(f) == {p \in DOMAIN f : f[p] \in Finis}

Aretes(D) == {<<Front(q), q>> : q \in D \ {Ancetre}}

FormeForks ==
    /\ entetes \in Nat
    /\ Filiation(DOMAIN etats)
    /\ etats \in [DOMAIN etats -> PointsForks]
    /\ tampons = [q \in DOMAIN etats |-> tampons[q]]
    /\ \A p \in DOMAIN etats : etats[p] = "debut" =>
           /\ p = Ancetre /\ DOMAIN etats = {Ancetre}
           /\ tampons[Ancetre] = {} /\ entetes = 0 /\ lignes = {}
    /\ \A p \in DOMAIN etats :
           etats[p] \notin IF Mystere THEN {"boucle", "getchar", "finir"}
                           ELSE {"fork1", "fork2", "fork2nul", "fork3", "fork4", "attendre"}

EntetesForks ==
    /\ programme = "mystere" => terminal
    /\ programme = "mystereGraphviz" => ~terminal
    /\ terminal => entetes <= 1 /\ \A p \in DOMAIN etats : tampons[p] = {}
    /\ ~terminal /\ ~Mystere => entetes <= Cardinality(TermineesForks(etats))

MystereForks ==
    Mystere =>
        /\ Cardinality(DOMAIN etats) + Cardinality(Futurs(etats)) = 11
        /\ \A q \in DOMAIN etats :
               q # Ancetre /\ etats[Front(q)] \in Finis => etats[q] \in Finis
        /\ \A l \in lignes : l[2] # Ancetre => l[1] = Front(l[2])

GrapheForks ==
    programme = "mystereGraphviz" =>
        /\ \A p \in DOMAIN etats :
               tampons[p] = IF p # Ancetre /\ etats[p] = "attendre" THEN {<<Front(p), p>>} ELSE {}
        /\ etats[Ancetre] # "debut" => entetes = 1
        /\ lignes \subseteq Aretes(DOMAIN etats) \cup {Accolade}
        /\ \A p \in DOMAIN etats : p # Ancetre /\ etats[p] \in Finis => <<Front(p), p>> \in lignes
        /\ Accolade \in lignes => etats[Ancetre] \in Finis

InvForks == FormeForks /\ EntetesForks /\ MystereForks /\ GrapheForks

LEMMA AjoutFils ==
    ASSUME NEW p \in Seq(Nat), NEW n \in Nat
    PROVE  /\ Append(p, n) \in Seq(Nat) /\ Append(p, n) # <<>>
           /\ Front(Append(p, n)) = p /\ Last(Append(p, n)) = n
<1> DEFINE f == Append(p, n)
<1>1. f \in Seq(Nat) /\ Len(f) = Len(p) + 1 /\ Len(p) \in Nat
  OBVIOUS
<1>2. f[Len(p) + 1] = n /\ \A i \in 1 .. Len(p) : f[i] = p[i]
  OBVIOUS
<1>3. f # <<>>
  BY <1>1
<1>4. Front(f) = SubSeq(f, 1, Len(p))
  BY <1>1 DEF Front
<1>5. SubSeq(f, 1, Len(p)) = p
  <2> HIDE DEF f
  <2>1. SubSeq(f, 1, Len(p)) \in Seq(Nat) /\ Len(SubSeq(f, 1, Len(p))) = Len(p)
    BY <1>1, SubSeqProperties, 1 \in Int, Len(p) <= Len(f)
  <2>2. \A i \in 1 .. Len(p) : SubSeq(f, 1, Len(p))[i] = p[i]
    BY <1>1, <1>2
  <2>3. QED
    BY <2>1, <2>2, SeqEqual
<1>6. QED
  BY <1>1, <1>2, <1>3, <1>4, <1>5 DEF Last

LEMMA FrontSuite ==
    ASSUME NEW q \in Seq(Nat), q # <<>>
    PROVE  /\ Front(q) \in Seq(Nat) /\ Len(Front(q)) + 1 = Len(q)
           /\ \A i \in 1 .. Len(q) - 1 : Front(q)[i] = q[i]
<1>1. Len(q) \in Nat /\ Len(q) # 0
  BY EmptySeq
<1>2. PICK n \in Nat : Len(q) = n + 1
  <2>1. Len(q) - 1 \in Nat /\ Len(q) = (Len(q) - 1) + 1
    BY <1>1
  <2>2. QED
    BY <2>1
<1>3. Front(q) = SubSeq(q, 1, n) /\ Len(q) - 1 = n
  BY <1>2 DEF Front
<1>4. SubSeq(q, 1, n) \in Seq(Nat) /\ Len(SubSeq(q, 1, n)) = n
  BY <1>2
<1>5. \A i \in 1 .. n : SubSeq(q, 1, n)[i] = q[i]
  BY <1>2
<1>6. QED
  BY <1>2, <1>3, <1>4, <1>5

\* A process is the child of another if it is named by one fork more.
LEMMA EstFils ==
    ASSUME NEW p \in Seq(Nat), NEW q \in Seq(Nat)
    PROVE  Len(q) = Len(p) + 1 /\ IsPrefix(p, q) <=> q # <<>> /\ Front(q) = p
<1>1. ASSUME Len(q) = Len(p) + 1, IsPrefix(p, q) PROVE q # <<>> /\ Front(q) = p
  <2>1. Len(p) \in Nat /\ q # <<>>
    BY <1>1
  <2>2. Front(q) = SubSeq(q, 1, Len(p))
    BY <1>1, <2>1 DEF Front
  <2>3. SubSeq(p, 1, Len(p)) = SubSeq(q, 1, Len(p))
    BY <1>1 DEF IsPrefix
  <2>4. SubSeq(p, 1, Len(p)) = p
    OBVIOUS
  <2>5. QED
    BY <2>1, <2>2, <2>3, <2>4
<1>2. ASSUME q # <<>>, Front(q) = p PROVE Len(q) = Len(p) + 1 /\ IsPrefix(p, q)
  <2>1. Len(p) + 1 = Len(q) /\ Len(p) \in Nat /\ Len(q) \in Nat
    BY <1>2, FrontSuite
  <2>2. p = SubSeq(q, 1, Len(p))
    BY <1>2, <2>1 DEF Front
  <2>3. SubSeq(p, 1, Len(p)) = p
    OBVIOUS
  <2>4. QED
    BY <2>1, <2>2, <2>3 DEF IsPrefix
<1>3. QED
  BY <1>1, <1>2

LEMMA EnfantsFils ==
    ASSUME DOMAIN etats \subseteq Seq(Nat), NEW p, p \in DOMAIN etats
    PROVE  EnfantsDe(p) = Fils(DOMAIN etats, p)
<1>1. \A q \in DOMAIN etats :
          Len(q) = Len(p) + 1 /\ IsPrefix(p, q) <=> q # <<>> /\ Front(q) = p
  BY EstFils
<1>2. QED
  BY <1>1 DEF EnfantsDe, Fils

\* A process makes another.
LEMMA FiliationAjout ==
    ASSUME NEW D, Filiation(D), NEW p \in D
    PROVE  LET fils == Append(p, Cardinality(Fils(D, p)) + 1) IN
           /\ fils \notin D /\ fils # <<>> /\ Front(fils) = p
           /\ Filiation(D \cup {fils})
           /\ Cardinality(D \cup {fils}) = Cardinality(D) + 1
<1>1. IsFiniteSet(Fils(D, p)) /\ Cardinality(Fils(D, p)) \in Nat
  BY FS_Subset, FS_CardinalityType DEF Filiation, Fils
<1>2. PICK n \in Nat : n = Cardinality(Fils(D, p)) + 1
  BY <1>1
<1> DEFINE fils == Append(p, n)
           E    == D \cup {fils}
<1>3. /\ fils \in Seq(Nat) /\ fils # <<>> /\ Front(fils) = p /\ Last(fils) = n
  BY AjoutFils DEF Filiation
<1> HIDE DEF fils
<1>4. fils \notin D
  <2>1. ASSUME fils \in D PROVE FALSE
    <3>1. Last(fils) \in 1 .. Cardinality(Fils(D, p))
      BY <1>3, <2>1 DEF Filiation, Ancetre
    <3>2. QED
      BY <3>1, <1>3, <1>2, <1>1
  <2>2. QED
    BY <2>1
<1>5. Fils(E, p) = Fils(D, p) \cup {fils}
  BY <1>3 DEF Fils
<1>6. \A q : q # p => Fils(E, q) = Fils(D, q)
  BY <1>3 DEF Fils
<1>7. Cardinality(Fils(E, p)) = n
  <2>1. fils \notin Fils(D, p)
    BY <1>4 DEF Fils
  <2>2. QED
    BY <2>1, <1>1, <1>2, <1>5, FS_AddElement
<1>8. IsFiniteSet(E) /\ Cardinality(E) = Cardinality(D) + 1
  BY <1>4, FS_AddElement DEF Filiation
<1>9. ASSUME NEW q \in E, q # Ancetre
      PROVE  Front(q) \in E /\ Last(q) \in 1 .. Cardinality(Fils(E, Front(q)))
  <2>1. CASE q = fils
    <3>1. n \in 1 .. n
      BY <1>1, <1>2
    <3>2. QED
      BY <2>1, <3>1, <1>3, <1>7
  <2>2. CASE q \in D
    <3>1. Front(q) \in D /\ Last(q) \in 1 .. Cardinality(Fils(D, Front(q)))
      BY <2>2, <1>9 DEF Filiation
    <3>2. CASE Front(q) = p
      <4>1. Last(q) \in 1 .. n
        BY <3>1, <3>2, <1>1, <1>2
      <4>2. QED
        BY <4>1, <3>1, <3>2, <1>7
    <3>3. CASE Front(q) # p
      BY <3>1, <3>3, <1>6
    <3>4. QED
      BY <3>2, <3>3
  <2>3. QED
    BY <2>1, <2>2
<1>10. E \subseteq Seq(Nat) /\ Ancetre \in E
  BY <1>3 DEF Filiation
<1>11. Filiation(E)
  BY <1>8, <1>9, <1>10 DEF Filiation
<1>12. QED
  BY <1>2, <1>3, <1>4, <1>8, <1>11 DEF fils

LEMMA TailleDisjointe ==
    ASSUME NEW S, NEW T, IsFiniteSet(S), IsFiniteSet(T), S \cap T = {}
    PROVE  IsFiniteSet(S \cup T) /\ Cardinality(S \cup T) = Cardinality(S) + Cardinality(T)
<1>1. /\ IsFiniteSet(S \cup T)
      /\ Cardinality(S \cup T) = Cardinality(S) + Cardinality(T) - Cardinality(S \cap T)
  BY FS_Union
<1>2. Cardinality(S \cap T) = 0 /\ Cardinality(S) \in Nat /\ Cardinality(T) \in Nat
  BY FS_EmptySet, FS_CardinalityType
<1>3. QED
  BY <1>1, <1>2

LEMMA TrancheTaille ==
    ASSUME NEW p, NEW k \in Nat
    PROVE  IsFiniteSet({p} \X (1 .. k)) /\ Cardinality({p} \X (1 .. k)) = k
<1>1. \A a, b \in Int : IsFiniteSet(a .. b) /\ Cardinality(a .. b) = IF a > b THEN 0 ELSE b - a + 1
  BY FS_Interval
<1>2. IsFiniteSet(1 .. k) /\ Cardinality(1 .. k) = IF 1 > k THEN 0 ELSE k - 1 + 1
  BY <1>1, 1 \in Int, k \in Int, Zenon
<1>3. IsFiniteSet(1 .. k) /\ Cardinality(1 .. k) = k
  BY <1>2
<1>4. IsFiniteSet({p}) /\ Cardinality({p}) = 1
  BY FS_Singleton
<1>5. /\ IsFiniteSet({p} \X (1 .. k))
      /\ Cardinality({p} \X (1 .. k)) = Cardinality({p}) * Cardinality(1 .. k)
  BY <1>3, <1>4, FS_Product, Zenon
<1>6. QED
  BY <1>3, <1>4, <1>5

LEMMA FutursFinis ==
    ASSUME NEW f, IsFiniteSet(DOMAIN f), \A p \in DOMAIN f : f[p] \in PointsForks
    PROVE  IsFiniteSet(Futurs(f)) /\ Cardinality(Futurs(f)) \in Nat
<1>1. \A e \in PointsForks : PoidsForks[e] \in 0 .. 10
  BY DEF PoidsForks, PointsForks
<1>2. Futurs(f) \subseteq (DOMAIN f) \X (1 .. 10)
  BY <1>1 DEF Futurs
<1>3. IsFiniteSet(1 .. 10)
  <2>1. \A a, b \in Int : IsFiniteSet(a .. b)
    BY FS_Interval
  <2>2. QED
    BY <2>1, 1 \in Int, 10 \in Int, Zenon
<1>4. IsFiniteSet((DOMAIN f) \X (1 .. 10))
  BY <1>3, FS_Product, Zenon
<1>5. QED
  BY <1>2, <1>4, FS_Subset, FS_CardinalityType, Zenon

LEMMA FutursEgaux ==
    ASSUME NEW f, NEW g, DOMAIN g = DOMAIN f,
           \A p \in DOMAIN f : PoidsForks[g[p]] = PoidsForks[f[p]]
    PROVE  Futurs(g) = Futurs(f)
BY DEF Futurs

\* A fork takes one of the processes that remain to be made.
LEMMA FutursNaitre ==
    ASSUME NEW f, NEW g, IsFiniteSet(DOMAIN f), \A q \in DOMAIN f : f[q] \in PointsForks,
           NEW p \in DOMAIN f, NEW fils, fils \notin DOMAIN f,
           DOMAIN g = DOMAIN f \cup {fils}, \A q \in DOMAIN f \ {p} : g[q] = f[q],
           g[p] \in PointsForks, g[fils] \in PointsForks,
           PoidsForks[f[p]] = PoidsForks[g[p]] + PoidsForks[g[fils]] + 1
    PROVE  Cardinality(Futurs(g)) + 1 = Cardinality(Futurs(f))
<1>0. \A e \in PointsForks : PoidsForks[e] \in Nat
  BY DEF PoidsForks, PointsForks
<1>1. PICK k, k1, k2 \in Nat : /\ k = PoidsForks[f[p]] /\ k1 = PoidsForks[g[p]]
                               /\ k2 = PoidsForks[g[fils]]
  BY <1>0
<1> DEFINE R == UNION {{q} \X (1 .. PoidsForks[f[q]]) : q \in DOMAIN f \ {p}}
<1>2. Futurs(f) = R \cup ({p} \X (1 .. k))
  BY <1>1 DEF Futurs
<1>3. R = UNION {{q} \X (1 .. PoidsForks[g[q]]) : q \in DOMAIN f \ {p}}
  OBVIOUS
<1>4. Futurs(g) = (R \cup ({p} \X (1 .. k1))) \cup ({fils} \X (1 .. k2))
  BY <1>1, <1>3 DEF Futurs
<1>5. IsFiniteSet(R)
  BY <1>2, FutursFinis, FS_Subset
<1>6. \A x \in R : x[1] \in DOMAIN f \ {p}
  OBVIOUS
<1> DEFINE T == {p} \X (1 .. k)
           T1 == {p} \X (1 .. k1)
           T2 == {fils} \X (1 .. k2)
<1>13. /\ IsFiniteSet(T) /\ Cardinality(T) = k /\ IsFiniteSet(T1) /\ Cardinality(T1) = k1
       /\ IsFiniteSet(T2) /\ Cardinality(T2) = k2
  BY TrancheTaille
<1>14. /\ \A x \in T : x[1] = p
       /\ \A x \in T1 : x[1] = p
       /\ \A x \in T2 : x[1] = fils
  OBVIOUS
<1> HIDE DEF R, T, T1, T2
<1>7. Cardinality(R \cup T) = Cardinality(R) + k
  <2>1. R \cap T = {}
    BY <1>6, <1>14
  <2>2. QED
    BY <2>1, <1>5, <1>13, TailleDisjointe
<1>8. IsFiniteSet(R \cup T1) /\ Cardinality(R \cup T1) = Cardinality(R) + k1
  <2>1. R \cap T1 = {}
    BY <1>6, <1>14
  <2>2. QED
    BY <2>1, <1>5, <1>13, TailleDisjointe
<1>9. Cardinality((R \cup T1) \cup T2) = (Cardinality(R) + k1) + k2
  <2>1. (R \cup T1) \cap T2 = {}
    BY <1>6, <1>14
  <2>2. QED
    BY <2>1, <1>8, <1>13, TailleDisjointe
<1>10. Cardinality(R) \in Nat
  BY <1>5, FS_CardinalityType
<1>11. Futurs(f) = R \cup T /\ Futurs(g) = (R \cup T1) \cup T2
  BY <1>2, <1>4 DEF T, T1, T2
<1>12. QED
  BY <1>1, <1>7, <1>9, <1>10, <1>11

LEMMA PasForks ==
    ASSUME [Next]_vars
    PROVE  \/ /\ programme \in ProgrammesForks /\ (VersLaFinForks \/ utilisateurForks)
              /\ UNCHANGED programme
           \/ UNCHANGED <<programme, varsForks>>
BY DEF Next, VersLaFin, Exterieur, Hors, Labos1, Labos2, Labos3, vars

\* What a fork does to the tree, and to the buffers.
LEMMA NaitreEffet ==
    ASSUME FormeForks, NEW p \in DOMAIN etats, NEW suite, Naitre(p, suite)
    PROVE  \E fils :
               /\ fils \notin DOMAIN etats /\ fils # Ancetre /\ Front(fils) = p
               /\ DOMAIN etats' = DOMAIN etats \cup {fils} /\ Filiation(DOMAIN etats')
               /\ Cardinality(DOMAIN etats') = Cardinality(DOMAIN etats) + 1
               /\ etats' = [q \in DOMAIN etats' |-> etats'[q]]
               /\ etats'[p] = suite[1] /\ etats'[fils] = suite[2]
               /\ \A q \in DOMAIN etats : q # p => etats'[q] = etats[q]
               /\ tampons' = [q \in DOMAIN etats' |-> tampons'[q]]
               /\ tampons'[fils] = tampons[p]
               /\ \A q \in DOMAIN etats : tampons'[q] = tampons[q]
               /\ UNCHANGED <<entetes, lignes>>
<1>1. PICK fils : fils = Append(p, Cardinality(Fils(DOMAIN etats, p)) + 1)
  OBVIOUS
<1>2. EnfantsDe(p) = Fils(DOMAIN etats, p)
  BY EnfantsFils DEF FormeForks, Filiation
<1>3. /\ fils \notin DOMAIN etats /\ fils # Ancetre /\ Front(fils) = p
      /\ Filiation(DOMAIN etats \cup {fils})
      /\ Cardinality(DOMAIN etats \cup {fils}) = Cardinality(DOMAIN etats) + 1
  BY <1>1, FiliationAjout DEF FormeForks, Ancetre
<1>4. /\ etats' = [q \in DOMAIN etats \cup {fils} |->
                      IF q = p THEN suite[1] ELSE IF q = fils THEN suite[2] ELSE etats[q]]
      /\ tampons' = [q \in DOMAIN etats \cup {fils} |-> tampons[IF q = fils THEN p ELSE q]]
      /\ UNCHANGED <<entetes, lignes>>
  BY <1>1, <1>2 DEF Naitre
<1>5. QED
  BY <1>3, <1>4

\* The kinds of steps: a fork, the end of a process, the wait of getChar.c for
\* its key.
Avenir(e, suite) ==
    /\ suite[1] \in PointsForks /\ suite[2] \in PointsForks
    /\ {e, suite[1], suite[2]} \cap {"debut", "attendre", "zombie", "parti"} = {}
    /\ IF Mystere
       THEN /\ {suite[1], suite[2]} \cap {"boucle", "getchar", "finir"} = {}
            /\ PoidsForks[e] = PoidsForks[suite[1]] + PoidsForks[suite[2]] + 1
       ELSE {suite[1], suite[2]} \cap {"fork1", "fork2", "fork2nul", "fork3", "fork4"} = {}

NaissanceForks(p) == \E suite : Avenir(etats[p], suite) /\ Naitre(p, suite)

FinForks(p) ==
    \E recoltes \in SUBSET DOMAIN etats :
        /\ Terminer(p, recoltes) /\ etats[p] \notin {"debut", "zombie", "parti"}
        /\ IF Mystere THEN /\ etats[p] = "attendre" /\ recoltes = EnfantsDe(p)
                           /\ \A q \in EnfantsDe(p) : etats[q] = "zombie"
                      ELSE recoltes = {}

AttenteForks(p) ==
    /\ etats[p] = "boucle" /\ etats' = [etats EXCEPT ![p] = "getchar"]
    /\ UNCHANGED <<tampons, entetes, lignes>>

LEMMA FourcheAvenir ==
    ASSUME FormeForks, NEW p \in DOMAIN etats, Fourche(p)
    PROVE  NaissanceForks(p)
<1>1. PICK e : e = etats[p]
  OBVIOUS
<1>2. e \in {"fork1", "fork2", "fork2nul", "fork3", "fork4", "fork5"} /\ Naitre(p, Suite(e))
  BY <1>1 DEF Fourche
<1>3. ~Mystere => e = "fork5"
  BY <1>1, <1>2 DEF FormeForks
<1>4. Avenir(e, Suite(e))
  <2>1. CASE e = "fork1"
    <3>1. Suite(e) = <<"fork2", "fork2nul">>
      BY <2>1 DEF Suite
    <3>2. QED
      BY <2>1, <3>1, <1>3 DEF Avenir, PointsForks, PoidsForks
  <2>2. CASE e = "fork2"
    <3>1. Suite(e) = <<"fork3", "fork4">>
      BY <2>2 DEF Suite
    <3>2. QED
      BY <2>2, <3>1, <1>3 DEF Avenir, PointsForks, PoidsForks
  <2>3. CASE e = "fork2nul"
    <3>1. Suite(e) = <<"fork4", "fork4">>
      BY <2>3 DEF Suite
    <3>2. QED
      BY <2>3, <3>1, <1>3 DEF Avenir, PointsForks, PoidsForks
  <2>4. CASE e = "fork4"
    <3>1. Suite(e) = <<"ecrire", "fork5">>
      BY <2>4 DEF Suite
    <3>2. QED
      BY <2>4, <3>1, <1>3 DEF Avenir, PointsForks, PoidsForks
  <2>5. CASE e \in {"fork3", "fork5"}
    <3>1. Suite(e) = <<"ecrire", "ecrire">>
      BY <2>5 DEF Suite
    <3>2. QED
      BY <2>5, <3>1, <1>3 DEF Avenir, PointsForks, PoidsForks
  <2>6. QED
    BY <1>2, <2>1, <2>2, <2>3, <2>4, <2>5
<1>5. QED
  BY <1>1, <1>2, <1>4 DEF NaissanceForks

LEMMA EtapeForks ==
    ASSUME FormeForks, VersLaFinForks \/ utilisateurForks
    PROVE  /\ UNCHANGED terminal
           /\ \E p \in DOMAIN etats :
                  \/ Presentation(p) \/ NaissanceForks(p) \/ AttenteForks(p)
                  \/ Presenter(p) \/ FinForks(p) \/ Recolter(p)
<1>1. PICK p \in DOMAIN etats : processusForks(p) \/ Recolter(p) \/ Touche(p)
  BY DEF VersLaFinForks, utilisateurForks
<1>2. UNCHANGED terminal
  BY DEF VersLaFinForks, utilisateurForks
<1>3. \/ Presentation(p) \/ NaissanceForks(p) \/ AttenteForks(p)
      \/ Presenter(p) \/ FinForks(p) \/ Recolter(p)
  <2>1. CASE Fourche(p)
    BY <2>1, FourcheAvenir
  <2>2. CASE Boucle(p)
    <3>1. etats[p] = "boucle" /\ ~Mystere
      BY <2>2 DEF Boucle, FormeForks
    <3>2. CASE Naitre(p, <<"boucle", "ecrire">>)
      <4>1. Avenir(etats[p], <<"boucle", "ecrire">>)
        BY <3>1 DEF Avenir, PointsForks
      <4>2. QED
        BY <3>2, <4>1 DEF NaissanceForks
    <3>3. CASE Terminer(p, {})
      BY <3>1, <3>3 DEF FinForks
    <3>4. QED
      BY <2>2, <3>1, <3>2, <3>3 DEF Boucle, AttenteForks
  <2>3. CASE AttendreEnfants(p)
    <3>1. etats[p] = "attendre" /\ Mystere
      BY <2>3 DEF AttendreEnfants, FormeForks
    <3>2. EnfantsDe(p) \subseteq DOMAIN etats
      BY DEF EnfantsDe
    <3>3. QED
      BY <2>3, <3>1, <3>2 DEF AttendreEnfants, FinForks
  <2>4. CASE Finir(p) \/ Touche(p)
    <3>1. etats[p] \in {"finir", "getchar"} /\ ~Mystere /\ Terminer(p, {})
      BY <2>4 DEF Finir, Touche, FormeForks
    <3>2. QED
      BY <3>1 DEF FinForks
  <2>5. QED
    BY <1>1, <2>1, <2>2, <2>3, <2>4 DEF processusForks
<1>4. QED
  BY <1>2, <1>3

LEMMA EmettreNombre ==
    ASSUME entetes \in Nat, NEW s, Emettre(s)
    PROVE  /\ entetes' = entetes + IF Entete \in s THEN 1 ELSE 0
           /\ entetes' \in Nat /\ lignes' = lignes \cup (s \ {Entete})
<1>1. s \cap {Entete} = IF Entete \in s THEN {Entete} ELSE {}
  OBVIOUS
<1>2. Cardinality({}) = 0 /\ Cardinality({Entete}) = 1
  BY FS_EmptySet, FS_Singleton
<1>3. Cardinality(s \cap {Entete}) = IF Entete \in s THEN 1 ELSE 0
  BY <1>1, <1>2
<1>4. QED
  BY <1>3 DEF Emettre

LEMMA FormeForksDebut ==
    ASSUME Init
    PROVE  FormeForks
<1>1. InitForks \/ ReposForks
  BY DEF Init
<1>2. /\ etats = [p \in {Ancetre} |-> etats[Ancetre]] /\ tampons = [p \in {Ancetre} |-> {}]
      /\ entetes = 0 /\ lignes = {} /\ etats[Ancetre] \in {"boucle", "debut", "parti"}
      /\ etats[Ancetre] = "boucle" => ~Mystere
  BY <1>1 DEF InitForks, ReposForks, Mystere
<1>3. Filiation({Ancetre})
  <2>1. IsFiniteSet({Ancetre})
    BY FS_Singleton
  <2>2. {Ancetre} \subseteq Seq(Nat)
    <3>1. <<>> \in Seq(Nat)
      OBVIOUS
    <3>2. QED
      BY <3>1 DEF Ancetre
  <2>3. QED
    BY <2>1, <2>2 DEF Filiation
<1>4. QED
  BY <1>2, <1>3 DEF FormeForks, PointsForks

LEMMA FormeForksPas ==
    ASSUME FormeForks, [Next]_vars
    PROVE  FormeForks'
<1>1. CASE UNCHANGED <<programme, varsForks>>
  BY <1>1 DEF FormeForks, varsForks, Mystere
<1>2. ASSUME VersLaFinForks \/ utilisateurForks, UNCHANGED programme
      PROVE  FormeForks'
  <2>1. PICK p \in DOMAIN etats :
                  \/ Presentation(p) \/ NaissanceForks(p) \/ AttenteForks(p)
                  \/ Presenter(p) \/ FinForks(p) \/ Recolter(p)
    BY <1>2, EtapeForks
  <2>0. Mystere' = Mystere
    BY <1>2 DEF Mystere
  <2>2. CASE Presentation(p)
    <3>1. p = Ancetre /\ DOMAIN etats = {Ancetre} /\ etats[p] = "debut"
      BY <2>2 DEF Presentation, FormeForks
    <3>2. etats' = [etats EXCEPT ![p] = IF Mystere THEN "fork1" ELSE "fork5"]
      BY <2>2 DEF Presentation
    <3>3. /\ entetes' \in Nat
          /\ tampons' = [q \in DOMAIN etats |-> tampons'[q]]
      <4>1. Emettre({Entete}) => entetes' \in Nat
        BY EmettreNombre DEF FormeForks
      <4>2. QED
        BY <2>2, <4>1 DEF Presentation, Imprimer, FormeForks
    <3>4. etats' \in [DOMAIN etats -> PointsForks]
      BY <3>2 DEF PointsForks, FormeForks
    <3>5. DOMAIN etats' = DOMAIN etats /\ Filiation(DOMAIN etats)
      BY <3>2 DEF FormeForks
    <3>6. QED
      BY <3>1, <3>2, <3>3, <3>4, <3>5, <2>0 DEF FormeForks
  <2>3. CASE NaissanceForks(p)
    <3>1. PICK suite : Avenir(etats[p], suite) /\ Naitre(p, suite)
      BY <2>3 DEF NaissanceForks
    <3>2. PICK fils :
               /\ fils \notin DOMAIN etats /\ fils # Ancetre /\ Front(fils) = p
               /\ DOMAIN etats' = DOMAIN etats \cup {fils} /\ Filiation(DOMAIN etats')
               /\ Cardinality(DOMAIN etats') = Cardinality(DOMAIN etats) + 1
               /\ etats' = [q \in DOMAIN etats' |-> etats'[q]]
               /\ etats'[p] = suite[1] /\ etats'[fils] = suite[2]
               /\ \A q \in DOMAIN etats : q # p => etats'[q] = etats[q]
               /\ tampons' = [q \in DOMAIN etats' |-> tampons'[q]]
               /\ tampons'[fils] = tampons[p]
               /\ \A q \in DOMAIN etats : tampons'[q] = tampons[q]
               /\ UNCHANGED <<entetes, lignes>>
      BY <3>1, NaitreEffet
    <3>3. \A q \in DOMAIN etats : q # p => etats[q] # "debut"
      <4>1. ASSUME NEW q \in DOMAIN etats, q # p, etats[q] = "debut" PROVE FALSE
        BY <4>1 DEF FormeForks
      <4>2. QED
        BY <4>1
    <3>4. \A q \in DOMAIN etats' :
             /\ etats'[q] \in PointsForks /\ etats'[q] # "debut"
             /\ etats'[q] \notin IF Mystere THEN {"boucle", "getchar", "finir"}
                           ELSE {"fork1", "fork2", "fork2nul", "fork3", "fork4", "attendre"}
      <4>1. \A q \in DOMAIN etats : /\ etats[q] \in PointsForks
             /\ etats[q] \notin IF Mystere THEN {"boucle", "getchar", "finir"}
                           ELSE {"fork1", "fork2", "fork2nul", "fork3", "fork4", "attendre"}
        BY DEF FormeForks
      <4>2. QED
        BY <3>1, <3>2, <3>3, <4>1 DEF Avenir
    <3>5. etats' \in [DOMAIN etats' -> PointsForks]
      BY <3>2, <3>4
    <3>6. QED
      BY <3>2, <3>4, <3>5, <2>0 DEF FormeForks
  <2>4. ASSUME DOMAIN etats' = DOMAIN etats, etats' = [q \in DOMAIN etats |-> etats'[q]],
               tampons' = [q \in DOMAIN etats |-> tampons'[q]], entetes' \in Nat,
               etats[p] # "debut",
               \A q \in DOMAIN etats : etats'[q] = etats[q] \/ etats'[q] \in
                    {"zombie", "parti", IF Mystere THEN "attendre" ELSE "finir",
                     IF Mystere THEN "zombie" ELSE "getchar"}
        PROVE  FormeForks'
    <3>1. \A q \in DOMAIN etats : etats[q] # "debut"
      <4>1. ASSUME NEW q \in DOMAIN etats, etats[q] = "debut" PROVE FALSE
        BY <4>1, <2>4 DEF FormeForks
      <4>2. QED
        BY <4>1
    <3>2. \A q \in DOMAIN etats :
             /\ etats[q] \in PointsForks
             /\ etats[q] \notin IF Mystere THEN {"boucle", "getchar", "finir"}
                           ELSE {"fork1", "fork2", "fork2nul", "fork3", "fork4", "attendre"}
      BY DEF FormeForks
    <3>3. \A q \in DOMAIN etats :
             /\ etats'[q] \in PointsForks /\ etats'[q] # "debut"
             /\ etats'[q] \notin IF Mystere THEN {"boucle", "getchar", "finir"}
                           ELSE {"fork1", "fork2", "fork2nul", "fork3", "fork4", "attendre"}
      BY <3>1, <3>2, <2>4 DEF PointsForks
    <3>4. etats' \in [DOMAIN etats -> PointsForks]
      BY <2>4, <3>3
    <3>5. Filiation(DOMAIN etats)
      BY DEF FormeForks
    <3>6. QED
      BY <2>4, <3>3, <3>4, <3>5, <2>0 DEF FormeForks
  <2>5. CASE AttenteForks(p)
    <3>1. ~Mystere
      BY <2>5 DEF AttenteForks, FormeForks
    <3>2. QED
      BY <2>5, <3>1, <2>4 DEF AttenteForks, FormeForks
  <2>6. CASE Presenter(p)
    <3>1. etats[p] = "ecrire" /\ etats' = [etats EXCEPT ![p] = IF Mystere THEN "attendre" ELSE "finir"]
      BY <2>6 DEF Presenter
    <3>2. entetes' \in Nat /\ tampons' = [q \in DOMAIN etats |-> tampons'[q]]
      <4>1. Emettre({<<getppid(p), p>>}) => entetes' \in Nat
        BY EmettreNombre DEF FormeForks
      <4>2. QED
        BY <2>6, <4>1 DEF Presenter, Imprimer, FormeForks
    <3>3. /\ DOMAIN etats' = DOMAIN etats /\ etats' = [q \in DOMAIN etats |-> etats'[q]]
          /\ \A q \in DOMAIN etats : etats'[q] = etats[q] \/ etats'[q] =
                    IF Mystere THEN "attendre" ELSE "finir"
      BY <3>1 DEF FormeForks
    <3>4. QED
      BY <3>1, <3>2, <3>3, <2>4
  <2>7. CASE FinForks(p)
    <3>1. PICK recoltes : Terminer(p, recoltes) /\ etats[p] \notin {"debut", "zombie", "parti"}
      BY <2>7 DEF FinForks
    <3>2. etats' = [q \in DOMAIN etats |->
                    IF q = p THEN "zombie" ELSE IF q \in recoltes THEN "parti" ELSE etats[q]]
      BY <3>1 DEF Terminer
    <3>3. entetes' \in Nat
      BY <3>1, EmettreNombre DEF Terminer, FormeForks
    <3>4. tampons' = [q \in DOMAIN etats |-> tampons'[q]]
      BY <3>1 DEF Terminer, FormeForks
    <3>5. QED
      BY <3>1, <3>2, <3>3, <3>4, <2>4
  <2>8. CASE Recolter(p)
    <3>1. etats[p] = "zombie" /\ etats' = [etats EXCEPT ![p] = "parti"]
          /\ UNCHANGED <<tampons, entetes, lignes>>
      BY <2>8 DEF Recolter
    <3>2. QED
      BY <3>1, <2>4 DEF FormeForks
  <2>9. QED
    BY <2>1, <2>2, <2>3, <2>5, <2>6, <2>7, <2>8
<1>3. QED
  BY <1>1, <1>2, PasForks

\* The lines that are not the header.
LEMMA AutresLignes ==
    /\ \A a, p : p # Ancetre => <<a, p>> # Entete /\ <<a, p>> # Accolade
    /\ <<Adoptif, Ancetre>> # Entete /\ Accolade # Entete /\ Accolade[2] = Ancetre
<1>1. <<0>> # <<-1>> /\ <<-2>> # <<-1>>
  OBVIOUS
<1>2. QED
  BY <1>1 DEF Entete, Accolade, Ancetre, Adoptif

LEMMA LignePropre ==
    ASSUME NEW p
    PROVE  <<getppid(p), p>> # Entete
<1>1. CASE p = Ancetre
  <2>1. getppid(p) = Adoptif
    BY <1>1 DEF getppid
  <2>2. QED
    BY <2>1, <1>1, AutresLignes
<1>2. CASE p # Ancetre
  BY <1>2, AutresLignes
<1>3. QED
  BY <1>1, <1>2

LEMMA EntetesForksDebut ==
    ASSUME Init
    PROVE  EntetesForks
<1>1. /\ entetes = 0 /\ tampons = [p \in {Ancetre} |-> {}] /\ DOMAIN etats = {Ancetre}
      /\ terminal \in BOOLEAN
      /\ programme = "mystere" => terminal = TRUE
      /\ programme = "mystereGraphviz" => terminal = FALSE
  BY DEF Init, InitForks, ReposForks, ProgrammesForks
<1>2. Cardinality(TermineesForks(etats)) \in Nat
  <2>1. IsFiniteSet({Ancetre}) /\ TermineesForks(etats) \subseteq {Ancetre}
    BY <1>1, FS_Singleton DEF TermineesForks
  <2>2. QED
    BY <2>1, FS_Subset, FS_CardinalityType
<1>3. QED
  BY <1>1, <1>2 DEF EntetesForks

LEMMA EntetesForksPas ==
    ASSUME FormeForks, EntetesForks, [Next]_vars
    PROVE  EntetesForks'
<1>0. /\ IsFiniteSet(DOMAIN etats) /\ entetes \in Nat
      /\ Cardinality(TermineesForks(etats)) \in Nat /\ IsFiniteSet(TermineesForks(etats))
  <2>1. IsFiniteSet(DOMAIN etats) /\ TermineesForks(etats) \subseteq DOMAIN etats
    BY DEF FormeForks, Filiation, TermineesForks
  <2>2. QED
    BY <2>1, FS_Subset, FS_CardinalityType DEF FormeForks
<1>1. CASE UNCHANGED <<programme, varsForks>>
  BY <1>1 DEF EntetesForks, varsForks, Mystere
<1>2. ASSUME VersLaFinForks \/ utilisateurForks, UNCHANGED programme
      PROVE  EntetesForks'
  <2>1. PICK p \in DOMAIN etats :
                  \/ Presentation(p) \/ NaissanceForks(p) \/ AttenteForks(p)
                  \/ Presenter(p) \/ FinForks(p) \/ Recolter(p)
    BY <1>2, EtapeForks
  <2>0. Mystere' = Mystere /\ UNCHANGED <<programme, terminal>>
    BY <1>2, EtapeForks DEF Mystere
  <2>2. SUFFICES /\ terminal => entetes' <= 1 /\ \A q \in DOMAIN etats' : tampons'[q] = {}
                 /\ ~terminal /\ ~Mystere => entetes' <= Cardinality(TermineesForks(etats'))
    BY <2>0 DEF EntetesForks
  <2>3. CASE Presentation(p)
    <3>1. etats[p] = "debut" /\ p = Ancetre /\ DOMAIN etats = {Ancetre} /\ entetes = 0
      BY <2>3 DEF Presentation, FormeForks
    <3>2. etats' = [etats EXCEPT ![p] = IF Mystere THEN "fork1" ELSE "fork5"]
      BY <2>3 DEF Presentation
    <3>3. TermineesForks(etats') = TermineesForks(etats)
      BY <3>1, <3>2 DEF TermineesForks, Finis
    <3>4. CASE terminal
      <4>1. Emettre({Entete}) /\ UNCHANGED tampons
        BY <2>3, <3>4 DEF Presentation, Imprimer
      <4>2. entetes' = 1
        BY <4>1, <3>1, EmettreNombre DEF FormeForks
      <4>3. QED
        BY <4>1, <4>2, <3>2, <3>4 DEF EntetesForks
    <3>5. CASE ~terminal
      <4>1. ASSUME ~Mystere PROVE UNCHANGED entetes
        BY <4>1, <2>3, <3>5 DEF Presentation, Imprimer, Vide, Mystere
      <4>2. QED
        BY <4>1, <3>3, <3>5 DEF EntetesForks
    <3>6. QED
      BY <3>4, <3>5
  <2>4. CASE NaissanceForks(p)
    <3>1. PICK suite : Avenir(etats[p], suite) /\ Naitre(p, suite)
      BY <2>4 DEF NaissanceForks
    <3>2. PICK fils :
               /\ fils \notin DOMAIN etats /\ fils # Ancetre /\ Front(fils) = p
               /\ DOMAIN etats' = DOMAIN etats \cup {fils} /\ Filiation(DOMAIN etats')
               /\ Cardinality(DOMAIN etats') = Cardinality(DOMAIN etats) + 1
               /\ etats' = [q \in DOMAIN etats' |-> etats'[q]]
               /\ etats'[p] = suite[1] /\ etats'[fils] = suite[2]
               /\ \A q \in DOMAIN etats : q # p => etats'[q] = etats[q]
               /\ tampons' = [q \in DOMAIN etats' |-> tampons'[q]]
               /\ tampons'[fils] = tampons[p]
               /\ \A q \in DOMAIN etats : tampons'[q] = tampons[q]
               /\ UNCHANGED <<entetes, lignes>>
      BY <3>1, NaitreEffet
    <3>3. TermineesForks(etats') = TermineesForks(etats)
      BY <3>1, <3>2 DEF TermineesForks, Avenir, Finis
    <3>4. QED
      BY <3>2, <3>3 DEF EntetesForks
  <2>5. CASE AttenteForks(p)
    <3>1. TermineesForks(etats') = TermineesForks(etats)
      BY <2>5 DEF TermineesForks, AttenteForks, Finis
    <3>2. DOMAIN etats' = DOMAIN etats
      BY <2>5 DEF AttenteForks
    <3>3. QED
      BY <2>5, <3>1, <3>2 DEF EntetesForks, AttenteForks
  <2>6. CASE Presenter(p)
    <3>1. /\ etats[p] = "ecrire"
          /\ etats' = [etats EXCEPT ![p] = IF Mystere THEN "attendre" ELSE "finir"]
      BY <2>6 DEF Presenter
    <3>2. TermineesForks(etats') = TermineesForks(etats) /\ DOMAIN etats' = DOMAIN etats
      BY <3>1 DEF TermineesForks, Finis
    <3>3. PICK l : l = <<getppid(p), p>> /\ l # Entete
      BY LignePropre
    <3>4. \/ UNCHANGED <<tampons, entetes>>
          \/ IF terminal THEN Emettre({l}) /\ UNCHANGED tampons ELSE UNCHANGED entetes
      BY <2>6, <3>3 DEF Presenter, Imprimer
    <3>5. Emettre({l}) => entetes' = entetes
      BY <3>3, <1>0, EmettreNombre
    <3>6. QED
      BY <3>2, <3>4, <3>5 DEF EntetesForks
  <2>7. CASE FinForks(p)
    <3>1. PICK recoltes \in SUBSET DOMAIN etats :
              /\ Terminer(p, recoltes) /\ etats[p] \notin {"debut", "zombie", "parti"}
              /\ ~Mystere => recoltes = {}
      BY <2>7 DEF FinForks
    <3>2. PICK derniere : /\ derniere \subseteq {Accolade}
                          /\ Emettre(tampons[p] \cup derniere)
                          /\ tampons' = [tampons EXCEPT ![p] = {}]
      BY <3>1 DEF Terminer
    <3>3. etats' = [q \in DOMAIN etats |->
                    IF q = p THEN "zombie" ELSE IF q \in recoltes THEN "parti" ELSE etats[q]]
      BY <3>1 DEF Terminer
    <3>4. entetes' = entetes + IF Entete \in tampons[p] \cup derniere THEN 1 ELSE 0
      BY <3>2, <1>0, EmettreNombre
    <3>5. Entete \notin derniere
      BY <3>2, AutresLignes
    <3>6. ASSUME terminal
          PROVE  entetes' <= 1 /\ \A q \in DOMAIN etats' : tampons'[q] = {}
      <4>1. tampons[p] = {} /\ entetes <= 1 /\ \A q \in DOMAIN etats : tampons[q] = {}
        BY <3>6 DEF EntetesForks
      <4>2. QED
        BY <4>1, <3>2, <3>3, <3>4, <3>5, <1>0
    <3>7. ASSUME ~terminal, ~Mystere
          PROVE  entetes' <= Cardinality(TermineesForks(etats'))
      <4>1. p \notin TermineesForks(etats) /\ TermineesForks(etats') = TermineesForks(etats) \cup {p}
        BY <3>1, <3>3, <3>7 DEF TermineesForks, Finis
      <4>2. Cardinality(TermineesForks(etats')) = Cardinality(TermineesForks(etats)) + 1
        BY <4>1, <1>0, FS_AddElement
      <4>3. entetes <= Cardinality(TermineesForks(etats))
        BY <3>7 DEF EntetesForks
      <4>4. QED
        BY <4>2, <4>3, <3>4, <1>0
    <3>8. QED
      BY <3>6, <3>7
  <2>8. CASE Recolter(p)
    <3>1. etats[p] = "zombie" /\ etats' = [etats EXCEPT ![p] = "parti"]
          /\ UNCHANGED <<tampons, entetes, lignes>>
      BY <2>8 DEF Recolter
    <3>2. TermineesForks(etats') = TermineesForks(etats) /\ DOMAIN etats' = DOMAIN etats
      BY <3>1 DEF TermineesForks, Finis
    <3>3. QED
      BY <3>1, <3>2 DEF EntetesForks
  <2>9. QED
    BY <2>1, <2>3, <2>4, <2>5, <2>6, <2>7, <2>8
<1>3. QED
  BY <1>1, <1>2, PasForks

LEMMA PereVivant ==
    ASSUME FormeForks, MystereForks, Mystere, NEW p \in DOMAIN etats, p # Ancetre,
           etats[p] \notin Finis
    PROVE  getppid(p) = Front(p)
<1>1. Front(p) \in DOMAIN etats
  BY DEF FormeForks, Filiation
<1>2. etats[Front(p)] \notin Finis
  BY DEF MystereForks
<1>3. QED
  BY <1>1, <1>2 DEF getppid, Vivant, Finis

LEMMA MystereForksDebut ==
    ASSUME Init
    PROVE  MystereForks
<1>1. ASSUME Mystere
      PROVE  /\ DOMAIN etats = {Ancetre} /\ etats[Ancetre] = "debut" /\ lignes = {}
  <2>1. programme \in ProgrammesForks
    BY <1>1 DEF Mystere, ProgrammesForks
  <2>2. InitForks
    BY <2>1 DEF Init
  <2>3. QED
    BY <1>1, <2>2 DEF InitForks, Mystere
<1>2. ASSUME Mystere
      PROVE  Cardinality(DOMAIN etats) + Cardinality(Futurs(etats)) = 11
  <2>1. PoidsForks[etats[Ancetre]] = 10
    BY <1>1, <1>2 DEF PoidsForks, PointsForks
  <2>2. Futurs(etats) = {Ancetre} \X (1 .. 10)
    BY <1>1, <1>2, <2>1 DEF Futurs
  <2>3. Cardinality(Futurs(etats)) = 10
    BY <2>2, TrancheTaille
  <2>4. Cardinality(DOMAIN etats) = 1
    BY <1>1, <1>2, FS_Singleton
  <2>5. QED
    BY <2>3, <2>4
<1>3. QED
  BY <1>1, <1>2 DEF MystereForks

LEMMA MystereForksPas ==
    ASSUME FormeForks, EntetesForks, MystereForks, GrapheForks, [Next]_vars
    PROVE  MystereForks'
<1>1. CASE UNCHANGED <<programme, varsForks>>
  BY <1>1 DEF MystereForks, varsForks, Mystere
<1>2. ASSUME VersLaFinForks \/ utilisateurForks, UNCHANGED programme, Mystere
      PROVE  MystereForks'
  <2>1. PICK p \in DOMAIN etats :
                  \/ Presentation(p) \/ NaissanceForks(p) \/ AttenteForks(p)
                  \/ Presenter(p) \/ FinForks(p) \/ Recolter(p)
    BY <1>2, EtapeForks
  <2>2. /\ IsFiniteSet(DOMAIN etats) /\ entetes \in Nat
        /\ \A q \in DOMAIN etats : etats[q] \in PointsForks
        /\ etats = [q \in DOMAIN etats |-> etats[q]]
        /\ \A q \in DOMAIN etats : q # Ancetre => Front(q) \in DOMAIN etats
        /\ Cardinality(DOMAIN etats) + Cardinality(Futurs(etats)) = 11
        /\ \A q \in DOMAIN etats :
               q # Ancetre /\ etats[Front(q)] \in Finis => etats[q] \in Finis
        /\ \A l \in lignes : l[2] # Ancetre => l[1] = Front(l[2])
    BY <1>2 DEF FormeForks, Filiation, MystereForks
  <2>3. ASSUME DOMAIN etats' = DOMAIN etats,
               \A q \in DOMAIN etats : PoidsForks[etats'[q]] = PoidsForks[etats[q]],
               \A q \in DOMAIN etats :
                  q # Ancetre /\ etats'[Front(q)] \in Finis => etats'[q] \in Finis,
               \A l \in lignes' \ lignes : l[2] # Ancetre => l[1] = Front(l[2])
        PROVE  MystereForks'
    <3>1. Futurs(etats') = Futurs(etats)
      BY <2>3, FutursEgaux
    <3>2. QED
      BY <2>2, <2>3, <3>1 DEF MystereForks
  <2>4. CASE Presentation(p)
    <3>1. etats[p] = "debut" /\ p = Ancetre /\ DOMAIN etats = {Ancetre}
      BY <2>4 DEF Presentation, FormeForks
    <3>2. etats' = [etats EXCEPT ![p] = "fork1"]
      BY <1>2, <2>4 DEF Presentation
    <3>3. lignes' = lignes
      <4>1. Emettre({Entete}) => lignes' = lignes
        BY <2>2, EmettreNombre
      <4>2. QED
        BY <2>4, <4>1 DEF Presentation, Imprimer
    <3>4. PoidsForks["debut"] = PoidsForks["fork1"]
      BY DEF PoidsForks, PointsForks
    <3>5. DOMAIN etats' = DOMAIN etats /\ \A q \in DOMAIN etats : etats[q] = "debut" /\ etats'[q] = "fork1"
      BY <3>1, <3>2
    <3>6. QED
      BY <3>1, <3>3, <3>4, <3>5, <2>3
  <2>5. CASE NaissanceForks(p)
    <3>1. PICK suite : Avenir(etats[p], suite) /\ Naitre(p, suite)
      BY <2>5 DEF NaissanceForks
    <3>2. PICK fils :
               /\ fils \notin DOMAIN etats /\ fils # Ancetre /\ Front(fils) = p
               /\ DOMAIN etats' = DOMAIN etats \cup {fils} /\ Filiation(DOMAIN etats')
               /\ Cardinality(DOMAIN etats') = Cardinality(DOMAIN etats) + 1
               /\ etats' = [q \in DOMAIN etats' |-> etats'[q]]
               /\ etats'[p] = suite[1] /\ etats'[fils] = suite[2]
               /\ \A q \in DOMAIN etats : q # p => etats'[q] = etats[q]
               /\ tampons' = [q \in DOMAIN etats' |-> tampons'[q]]
               /\ tampons'[fils] = tampons[p]
               /\ \A q \in DOMAIN etats : tampons'[q] = tampons[q]
               /\ UNCHANGED <<entetes, lignes>>
      BY <3>1, NaitreEffet
    <3>3. /\ suite[1] \in PointsForks /\ suite[2] \in PointsForks
          /\ etats[p] \notin Finis /\ suite[1] \notin Finis /\ suite[2] \notin Finis
          /\ PoidsForks[etats[p]] = PoidsForks[suite[1]] + PoidsForks[suite[2]] + 1
      BY <1>2, <3>1 DEF Avenir, Finis
    <3>4. PICK f, g : f = etats /\ g = etats'
      OBVIOUS
    <3>5. Cardinality(Futurs(g)) + 1 = Cardinality(Futurs(f))
      BY <2>2, <3>2, <3>3, <3>4, FutursNaitre
    <3>6. /\ Cardinality(Futurs(f)) \in Nat /\ Cardinality(Futurs(g)) \in Nat
          /\ Cardinality(DOMAIN f) \in Nat
      <4>1. \A q \in DOMAIN g : g[q] \in PointsForks
        BY <2>2, <3>2, <3>3, <3>4
      <4>2. IsFiniteSet(DOMAIN g)
        BY <3>2, <3>4 DEF Filiation
      <4>3. QED
        BY <4>1, <4>2, <2>2, <3>4, FutursFinis, FS_CardinalityType
    <3>7. Cardinality(DOMAIN etats') + Cardinality(Futurs(etats')) = 11
      BY <2>2, <3>2, <3>4, <3>5, <3>6
    <3>8. ASSUME NEW q \in DOMAIN etats', q # Ancetre, etats'[Front(q)] \in Finis
          PROVE  etats'[q] \in Finis
      <4>1. Front(q) # p
        BY <3>8, <3>2, <3>3
      <4>2. q \in DOMAIN etats
        BY <4>1, <3>2, <3>8
      <4>3. etats[Front(q)] \in Finis
        BY <4>1, <4>2, <3>2, <3>8, <2>2
      <4>4. etats[q] \in Finis /\ q # p
        BY <4>2, <4>3, <3>8, <2>2, <3>3
      <4>5. QED
        BY <4>2, <4>4, <3>2
    <3>9. QED
      BY <2>2, <3>2, <3>7, <3>8 DEF MystereForks
  <2>6. CASE AttenteForks(p)
    BY <1>2, <2>6 DEF AttenteForks, FormeForks
  <2>7. CASE Presenter(p)
    <3>1. etats[p] = "ecrire" /\ etats' = [etats EXCEPT ![p] = "attendre"]
      BY <1>2, <2>7 DEF Presenter
    <3>2. PoidsForks["ecrire"] = PoidsForks["attendre"]
      BY DEF PoidsForks, PointsForks
    <3>3. DOMAIN etats' = DOMAIN etats /\ \A q \in DOMAIN etats : q # p => etats'[q] = etats[q]
      BY <3>1
    <3>4. etats'[p] = "attendre"
      BY <3>1
    <3>5. \A q \in DOMAIN etats : PoidsForks[etats'[q]] = PoidsForks[etats[q]]
      BY <3>1, <3>2, <3>3, <3>4
    <3>6. ASSUME NEW q \in DOMAIN etats, q # Ancetre, etats'[Front(q)] \in Finis
          PROVE  etats'[q] \in Finis
      <4>1. Front(q) # p /\ Front(q) \in DOMAIN etats
        BY <3>6, <3>4, <2>2 DEF Finis
      <4>2. etats[q] \in Finis
        BY <4>1, <3>6, <3>3, <2>2
      <4>3. QED
        BY <4>2, <3>1, <3>3 DEF Finis
    <3>7. ASSUME NEW l \in lignes' \ lignes, l[2] # Ancetre
          PROVE  l[1] = Front(l[2])
      <4>1. Emettre({<<getppid(p), p>>}) => lignes' = lignes \cup ({<<getppid(p), p>>} \ {Entete})
        BY <2>2, EmettreNombre
      <4>2. l = <<getppid(p), p>>
        BY <4>1, <3>7, <2>7 DEF Presenter, Imprimer
      <4>3. getppid(p) = Front(p)
        BY <4>2, <3>7, <3>1, <1>2, PereVivant DEF Finis
      <4>4. QED
        BY <4>2, <4>3
    <3>8. QED
      BY <3>3, <3>5, <3>6, <3>7, <2>3
  <2>8. CASE FinForks(p)
    <3>1. /\ Terminer(p, EnfantsDe(p)) /\ etats[p] = "attendre"
          /\ \A q \in EnfantsDe(p) : etats[q] = "zombie"
      BY <1>2, <2>8 DEF FinForks
    <3>2. EnfantsDe(p) = Fils(DOMAIN etats, p)
      BY EnfantsFils DEF FormeForks, Filiation
    <3>3. etats' = [q \in DOMAIN etats |->
                    IF q = p THEN "zombie" ELSE IF q \in EnfantsDe(p) THEN "parti" ELSE etats[q]]
      BY <3>1 DEF Terminer
    <3>4. /\ PoidsForks["attendre"] = 0 /\ PoidsForks["zombie"] = 0 /\ PoidsForks["parti"] = 0
      BY DEF PoidsForks, PointsForks
    <3>5. \A q \in DOMAIN etats : PoidsForks[etats'[q]] = PoidsForks[etats[q]]
      BY <3>1, <3>3, <3>4
    <3>6. \A q \in DOMAIN etats : etats[q] \in Finis => etats'[q] \in Finis
      BY <3>3 DEF Finis
    <3>7. ASSUME NEW q \in DOMAIN etats, q # Ancetre, etats'[Front(q)] \in Finis
          PROVE  etats'[q] \in Finis
      <4>1. Front(q) \in DOMAIN etats
        BY <3>7, <2>2
      <4>2. CASE Front(q) = p
        <5>1. q \in EnfantsDe(p)
          BY <4>2, <3>2, <3>7 DEF Fils, Ancetre
        <5>2. QED
          BY <5>1, <3>3 DEF Finis
      <4>3. CASE Front(q) # p
        <5>1. etats[Front(q)] \in Finis
          BY <4>1, <4>3, <3>1, <3>3, <3>7 DEF Finis
        <5>2. QED
          BY <5>1, <3>6, <3>7, <2>2
      <4>4. QED
        BY <4>2, <4>3
    <3>8. ASSUME NEW l \in lignes' \ lignes, l[2] # Ancetre
          PROVE  l[1] = Front(l[2])
      <4>1. PICK derniere : derniere \subseteq {Accolade} /\ Emettre(tampons[p] \cup derniere)
        BY <3>1 DEF Terminer
      <4>2. l \in tampons[p] \cup derniere
        BY <4>1, <3>8, <2>2, EmettreNombre
      <4>3. l \in tampons[p]
        BY <4>1, <4>2, <3>8, AutresLignes
      <4>4. CASE programme = "mystere"
        BY <4>3, <4>4 DEF EntetesForks
      <4>5. CASE programme = "mystereGraphviz"
        <5>1. l = <<Front(p), p>>
          BY <4>3, <4>5 DEF GrapheForks
        <5>2. QED
          BY <5>1
      <4>6. QED
        BY <4>4, <4>5, <1>2 DEF Mystere
    <3>9. DOMAIN etats' = DOMAIN etats
      BY <3>3
    <3>10. QED
      BY <3>5, <3>7, <3>8, <3>9, <2>3
  <2>9. CASE Recolter(p)
    <3>1. /\ etats[p] = "zombie" /\ etats' = [etats EXCEPT ![p] = "parti"]
          /\ UNCHANGED <<tampons, entetes, lignes>>
      BY <2>9 DEF Recolter
    <3>2. PoidsForks["zombie"] = PoidsForks["parti"]
      BY DEF PoidsForks, PointsForks
    <3>3. /\ DOMAIN etats' = DOMAIN etats /\ etats'[p] = "parti"
          /\ \A q \in DOMAIN etats : q # p => etats'[q] = etats[q]
      BY <3>1
    <3>4. \A q \in DOMAIN etats : PoidsForks[etats'[q]] = PoidsForks[etats[q]]
      BY <3>1, <3>2, <3>3
    <3>5. \A q \in DOMAIN etats : etats'[q] \in Finis <=> etats[q] \in Finis
      BY <3>1, <3>3 DEF Finis
    <3>6. \A q \in DOMAIN etats :
              q # Ancetre /\ etats'[Front(q)] \in Finis => etats'[q] \in Finis
      BY <3>5, <2>2
    <3>7. QED
      BY <3>1, <3>3, <3>4, <3>6, <2>3
  <2>10. QED
    BY <2>1, <2>4, <2>5, <2>6, <2>7, <2>8, <2>9
<1>3. QED
  <2>1. CASE Mystere
    BY <2>1, <1>1, <1>2, PasForks
  <2>2. CASE ~Mystere
    BY <2>2, <1>1, PasForks DEF MystereForks, Mystere
  <2>3. QED
    BY <2>1, <2>2

LEMMA GrapheForksDebut ==
    ASSUME Init
    PROVE  GrapheForks
<1>1. ASSUME programme = "mystereGraphviz"
      PROVE  /\ DOMAIN etats = {Ancetre} /\ etats[Ancetre] = "debut" /\ lignes = {}
             /\ tampons[Ancetre] = {}
  <2>1. programme \in ProgrammesForks
    BY <1>1 DEF ProgrammesForks
  <2>2. InitForks
    BY <2>1 DEF Init
  <2>3. QED
    BY <1>1, <2>2 DEF InitForks
<1>2. QED
  BY <1>1 DEF GrapheForks

LEMMA GrapheForksPas ==
    ASSUME FormeForks, EntetesForks, MystereForks, GrapheForks, [Next]_vars
    PROVE  GrapheForks'
<1>1. CASE UNCHANGED <<programme, varsForks>>
  BY <1>1 DEF GrapheForks, varsForks
<1>2. ASSUME VersLaFinForks \/ utilisateurForks, UNCHANGED programme,
             programme = "mystereGraphviz"
      PROVE  GrapheForks'
  <2>0. Mystere /\ ~terminal
    BY <1>2 DEF Mystere, EntetesForks
  <2>1. PICK p \in DOMAIN etats :
                  \/ Presentation(p) \/ NaissanceForks(p) \/ AttenteForks(p)
                  \/ Presenter(p) \/ FinForks(p) \/ Recolter(p)
    BY <1>2, EtapeForks
  <2>2. /\ entetes \in Nat /\ Ancetre \in DOMAIN etats
        /\ etats = [q \in DOMAIN etats |-> etats[q]]
        /\ tampons = [q \in DOMAIN etats |-> tampons[q]]
        /\ \A q \in DOMAIN etats : etats[q] = "debut" => q = Ancetre
    BY DEF FormeForks, Filiation
  <2>3. /\ \A q \in DOMAIN etats :
               tampons[q] = IF q # Ancetre /\ etats[q] = "attendre" THEN {<<Front(q), q>>} ELSE {}
        /\ etats[Ancetre] # "debut" => entetes = 1
        /\ lignes \subseteq Aretes(DOMAIN etats) \cup {Accolade}
        /\ \A q \in DOMAIN etats : q # Ancetre /\ etats[q] \in Finis => <<Front(q), q>> \in lignes
        /\ Accolade \in lignes => etats[Ancetre] \in Finis
    BY <1>2 DEF GrapheForks
  <2>4. CASE Presentation(p)
    <3>1. /\ etats[p] = "debut" /\ p = Ancetre /\ DOMAIN etats = {Ancetre} /\ entetes = 0
          /\ lignes = {} /\ tampons[Ancetre] = {}
      BY <2>4 DEF Presentation, FormeForks
    <3>2. etats' = [etats EXCEPT ![p] = "fork1"] /\ Emettre({Entete}) /\ UNCHANGED tampons
      BY <1>2, <2>0, <2>4 DEF Presentation, Vide
    <3>3. entetes' = 1 /\ lignes' = {}
      BY <3>1, <3>2, <2>2, EmettreNombre
    <3>4. DOMAIN etats' = {Ancetre} /\ etats'[Ancetre] = "fork1"
      BY <3>1, <3>2
    <3>5. QED
      BY <1>2, <3>1, <3>2, <3>3, <3>4 DEF GrapheForks
  <2>5. CASE NaissanceForks(p)
    <3>1. PICK suite : Avenir(etats[p], suite) /\ Naitre(p, suite)
      BY <2>5 DEF NaissanceForks
    <3>2. PICK fils :
               /\ fils \notin DOMAIN etats /\ fils # Ancetre /\ Front(fils) = p
               /\ DOMAIN etats' = DOMAIN etats \cup {fils} /\ Filiation(DOMAIN etats')
               /\ Cardinality(DOMAIN etats') = Cardinality(DOMAIN etats) + 1
               /\ etats' = [q \in DOMAIN etats' |-> etats'[q]]
               /\ etats'[p] = suite[1] /\ etats'[fils] = suite[2]
               /\ \A q \in DOMAIN etats : q # p => etats'[q] = etats[q]
               /\ tampons' = [q \in DOMAIN etats' |-> tampons'[q]]
               /\ tampons'[fils] = tampons[p]
               /\ \A q \in DOMAIN etats : tampons'[q] = tampons[q]
               /\ UNCHANGED <<entetes, lignes>>
      BY <3>1, NaitreEffet
    <3>3. /\ {etats[p], suite[1], suite[2]} \cap Finis = {}
          /\ {etats[p], suite[1], suite[2]} \cap {"attendre", "debut"} = {}
      BY <3>1 DEF Avenir, Finis
    <3>4. tampons[p] = {}
      BY <2>3, <3>3
    <3>5. \A q \in DOMAIN etats' :
              tampons'[q] = IF q # Ancetre /\ etats'[q] = "attendre" THEN {<<Front(q), q>>} ELSE {}
      BY <2>3, <3>2, <3>3, <3>4
    <3>6. etats[Ancetre] # "debut" => entetes' = 1
      BY <2>3, <3>2
    <3>7. etats'[Ancetre] # "debut" => etats[Ancetre] # "debut"
      BY <2>2, <3>2, <3>3
    <3>8. Aretes(DOMAIN etats) \subseteq Aretes(DOMAIN etats')
      BY <3>2 DEF Aretes
    <3>9. \A q \in DOMAIN etats' : q # Ancetre /\ etats'[q] \in Finis => <<Front(q), q>> \in lignes'
      BY <2>3, <3>2, <3>3
    <3>10. Accolade \in lignes' => etats'[Ancetre] \in Finis
      BY <2>2, <2>3, <3>2, <3>3
    <3>11. lignes' \subseteq Aretes(DOMAIN etats') \cup {Accolade}
      BY <2>3, <3>2, <3>8
    <3>12. QED
      BY <1>2, <3>5, <3>6, <3>7, <3>9, <3>10, <3>11 DEF GrapheForks
  <2>6. CASE AttenteForks(p)
    BY <2>0, <2>6 DEF AttenteForks, FormeForks
  <2>7. CASE Presenter(p)
    <3>1. etats[p] = "ecrire" /\ etats' = [etats EXCEPT ![p] = "attendre"]
      BY <2>0, <2>7 DEF Presenter
    <3>2. /\ DOMAIN etats' = DOMAIN etats /\ etats'[p] = "attendre"
          /\ \A q \in DOMAIN etats : q # p => etats'[q] = etats[q]
      BY <3>1
    <3>3. UNCHANGED <<entetes, lignes>>
      BY <1>2, <2>0, <2>7 DEF Presenter, Imprimer
    <3>4. tampons[p] = {}
      BY <2>3, <3>1
    <3>5. \A q \in DOMAIN etats :
              tampons'[q] = IF q = p /\ p # Ancetre THEN {<<Front(p), p>>} ELSE tampons[q]
      <4>1. CASE p = Ancetre
        BY <1>2, <2>7, <4>1 DEF Presenter
      <4>2. CASE p # Ancetre
        <5>1. tampons' = [tampons EXCEPT ![p] = @ \cup {<<getppid(p), p>>}]
          BY <2>0, <2>7, <4>2 DEF Presenter, Imprimer
        <5>2. getppid(p) = Front(p)
          BY <2>0, <3>1, <4>2, PereVivant DEF Finis
        <5>3. QED
          BY <5>1, <5>2, <4>2, <3>4, <2>2
      <4>3. QED
        BY <4>1, <4>2
    <3>6. \A q \in DOMAIN etats' :
              tampons'[q] = IF q # Ancetre /\ etats'[q] = "attendre" THEN {<<Front(q), q>>} ELSE {}
      BY <2>3, <3>2, <3>4, <3>5
    <3>7. \A q \in DOMAIN etats : etats'[q] \in Finis <=> etats[q] \in Finis
      BY <3>1, <3>2 DEF Finis
    <3>8. etats'[Ancetre] # "debut" => etats[Ancetre] # "debut"
      BY <3>1, <3>2, <2>2
    <3>9. QED
      BY <1>2, <2>2, <2>3, <3>2, <3>3, <3>6, <3>7, <3>8 DEF GrapheForks
  <2>8. CASE FinForks(p)
    <3>1. /\ Terminer(p, EnfantsDe(p)) /\ etats[p] = "attendre"
          /\ \A q \in EnfantsDe(p) : etats[q] = "zombie"
      BY <2>0, <2>8 DEF FinForks
    <3>2. PICK derniere : /\ derniere = IF p = Ancetre THEN {Accolade} ELSE {}
                          /\ Emettre(tampons[p] \cup derniere)
      BY <1>2, <3>1 DEF Terminer
    <3>3. /\ etats' = [q \in DOMAIN etats |->
                    IF q = p THEN "zombie" ELSE IF q \in EnfantsDe(p) THEN "parti" ELSE etats[q]]
          /\ tampons' = [tampons EXCEPT ![p] = {}]
      BY <3>1 DEF Terminer
    <3>4. tampons[p] = IF p # Ancetre THEN {<<Front(p), p>>} ELSE {}
      BY <2>3, <3>1
    <3>5. tampons[p] \cup derniere = IF p # Ancetre THEN {<<Front(p), p>>} ELSE {Accolade}
      BY <3>2, <3>4
    <3>6. Entete \notin tampons[p] \cup derniere
      BY <3>5, AutresLignes
    <3>7. entetes' = entetes /\ lignes' = lignes \cup (tampons[p] \cup derniere)
      BY <3>2, <3>6, <2>2, EmettreNombre
    <3>8. \A q \in DOMAIN etats : q # p /\ etats'[q] # etats[q] =>
                                      etats[q] = "zombie" /\ etats'[q] = "parti"
      BY <3>1, <3>3
    <3>9. DOMAIN etats' = DOMAIN etats /\ etats'[p] = "zombie"
      BY <3>3
    <3>10. \A q \in DOMAIN etats' :
              tampons'[q] = IF q # Ancetre /\ etats'[q] = "attendre" THEN {<<Front(q), q>>} ELSE {}
      BY <2>2, <2>3, <3>3, <3>8, <3>9
    <3>11. etats[Ancetre] # "debut"
      BY <3>1, <3>8, <3>9, <2>2, <2>4 DEF FormeForks
    <3>12. lignes' \subseteq Aretes(DOMAIN etats') \cup {Accolade}
      BY <2>3, <3>5, <3>7, <3>9 DEF Aretes
    <3>13. \A q \in DOMAIN etats : q # Ancetre /\ etats'[q] \in Finis => <<Front(q), q>> \in lignes'
      BY <2>3, <3>5, <3>7, <3>8 DEF Finis
    <3>14. Accolade \in lignes' => etats'[Ancetre] \in Finis
      <4>1. \A q \in DOMAIN etats : etats[q] \in Finis => etats'[q] \in Finis
        BY <3>3 DEF Finis
      <4>2. p # Ancetre => <<Front(p), p>> # Accolade
        BY AutresLignes
      <4>3. QED
        BY <2>2, <2>3, <3>5, <3>7, <3>9, <4>1, <4>2 DEF Finis
    <3>15. QED
      BY <1>2, <2>3, <3>7, <3>9, <3>10, <3>11, <3>12, <3>13, <3>14 DEF GrapheForks
  <2>9. CASE Recolter(p)
    <3>1. /\ etats[p] = "zombie" /\ etats' = [etats EXCEPT ![p] = "parti"]
          /\ UNCHANGED <<tampons, entetes, lignes>>
      BY <2>9 DEF Recolter
    <3>2. /\ DOMAIN etats' = DOMAIN etats /\ etats'[p] = "parti"
          /\ \A q \in DOMAIN etats : q # p => etats'[q] = etats[q]
      BY <3>1
    <3>3. \A q \in DOMAIN etats : /\ etats'[q] \in Finis <=> etats[q] \in Finis
                                  /\ etats'[q] = "attendre" <=> etats[q] = "attendre"
      BY <3>1, <3>2 DEF Finis
    <3>4. etats'[Ancetre] # "debut" => etats[Ancetre] # "debut"
      BY <3>1, <3>2, <2>2
    <3>5. QED
      BY <1>2, <2>2, <2>3, <3>1, <3>2, <3>3, <3>4 DEF GrapheForks
  <2>10. QED
    BY <2>1, <2>4, <2>5, <2>6, <2>7, <2>8, <2>9
<1>3. QED
  <2>1. CASE programme = "mystereGraphviz"
    BY <2>1, <1>1, <1>2, PasForks
  <2>2. CASE programme # "mystereGraphviz"
    BY <2>2, <1>1, PasForks DEF GrapheForks
  <2>3. QED
    BY <2>1, <2>2

\* A process ends after those it has made: when the first one has ended, all
\* have, and no fork remains.
LEMMA TousFinis ==
    ASSUME FormeForks, MystereForks, Mystere, etats[Ancetre] \in Finis
    PROVE  \A q \in DOMAIN etats : etats[q] \in Finis
<1>1. SUFFICES ASSUME NEW q0 \in DOMAIN etats, etats[q0] \notin Finis PROVE FALSE
  OBVIOUS
<1>2. DOMAIN etats \subseteq Seq(Nat)
  BY DEF FormeForks, Filiation
<1> DEFINE T == {Len(q) : q \in {r \in DOMAIN etats : etats[r] \notin Finis}}
<1>3. T \in SUBSET Nat /\ T # {}
  <2>1. \A q \in DOMAIN etats : Len(q) \in Nat
    BY <1>2
  <2>2. Len(q0) \in T
    BY <1>1
  <2>3. QED
    BY <2>1, <2>2
<1>4. PICK m \in T : \A n \in T : m <= n
  BY <1>3, PlusPetit
<1>5. PICK q \in DOMAIN etats : etats[q] \notin Finis /\ m = Len(q)
  OBVIOUS
<1>6. q # Ancetre
  BY <1>5
<1>7. Front(q) \in DOMAIN etats /\ etats[Front(q)] \notin Finis
  BY <1>5, <1>6 DEF FormeForks, Filiation, MystereForks
<1>8. Len(Front(q)) + 1 = Len(q) /\ Len(Front(q)) \in Nat
  BY <1>2, <1>5, <1>6, <1>7, FrontSuite DEF Ancetre
<1>9. Len(Front(q)) \in T
  BY <1>7
<1>10. QED
  BY <1>4, <1>5, <1>8, <1>9

LEMMA AretesNombre ==
    ASSUME NEW D, IsFiniteSet(D), Ancetre \in D
    PROVE  /\ IsFiniteSet(Aretes(D)) /\ Cardinality(Aretes(D)) + 1 = Cardinality(D)
           /\ Accolade \notin Aretes(D)
<1> DEFINE S == D \ {Ancetre}
           f == [q \in S |-> <<Front(q), q>>]
<1>1. IsFiniteSet(S) /\ Cardinality(S) = Cardinality(D) - 1 /\ Cardinality(D) \in Nat
  BY FS_RemoveElement, FS_CardinalityType
<1>2. f \in Bijection(S, Aretes(D))
  <2>1. f \in [S -> Aretes(D)]
    BY DEF Aretes
  <2>2. \A a, b \in S : f[a] = f[b] => a = b
    OBVIOUS
  <2>3. \A t \in Aretes(D) : \E s \in S : f[s] = t
    BY DEF Aretes
  <2>4. QED
    BY <2>1, <2>2, <2>3 DEF Bijection, Injection, Surjection, IsInjective
<1>3. IsFiniteSet(Aretes(D)) /\ Cardinality(Aretes(D)) = Cardinality(S)
  <2>1. ExistsBijection(S, Aretes(D))
    BY <1>2 DEF ExistsBijection
  <2>2. QED
    BY <2>1, <1>1, FS_Bijection
<1>4. Accolade \notin Aretes(D)
  BY AutresLignes DEF Aretes
<1>5. QED
  BY <1>1, <1>3, <1>4

LEMMA ArbreDeInv ==
    ASSUME InvForks
    PROVE  ArbreExact
<1>0. FormeForks /\ EntetesForks /\ MystereForks /\ GrapheForks
  BY DEF InvForks
<1>1. /\ IsFiniteSet(DOMAIN etats) /\ Cardinality(DOMAIN etats) \in Nat
      /\ Ancetre \in DOMAIN etats /\ entetes \in Nat
  BY <1>0, FS_CardinalityType DEF FormeForks, Filiation
<1>2. Cardinality(DOMAIN etats) >= 1
  <2>1. DOMAIN etats # {}
    BY <1>1
  <2>2. Cardinality(DOMAIN etats) # 0
    BY <1>1, <2>1, FS_EmptySet
  <2>3. QED
    BY <1>1, <2>2
<1>3. ASSUME programme = "mystereGraphviz"
      PROVE  entetes <= 1 /\ (lignes # {} => entetes = 1)
  <2>1. CASE etats[Ancetre] = "debut"
    BY <2>1, <1>0, <1>1 DEF FormeForks
  <2>2. CASE etats[Ancetre] # "debut"
    BY <2>2, <1>0, <1>3 DEF GrapheForks
  <2>3. QED
    BY <2>1, <2>2
<1>4. entetes <= Cardinality(DOMAIN etats)
  <2>1. CASE terminal
    BY <2>1, <1>0, <1>1, <1>2 DEF EntetesForks
  <2>2. CASE ~terminal /\ Mystere
    BY <2>2, <1>0, <1>1, <1>2, <1>3 DEF EntetesForks, Mystere
  <2>3. CASE ~terminal /\ ~Mystere
    <3>1. TermineesForks(etats) \subseteq DOMAIN etats
      BY DEF TermineesForks
    <3>2. /\ Cardinality(TermineesForks(etats)) <= Cardinality(DOMAIN etats)
          /\ Cardinality(TermineesForks(etats)) \in Nat
      BY <3>1, <1>1, FS_Subset, FS_CardinalityType
    <3>3. entetes <= Cardinality(TermineesForks(etats))
      BY <2>3, <1>0 DEF EntetesForks
    <3>4. QED
      BY <3>2, <3>3, <1>1
  <2>4. QED
    BY <2>1, <2>2, <2>3
<1>5. TypeOKForks
  <2>1. DOMAIN tampons = DOMAIN etats
    BY <1>0 DEF FormeForks
  <2>2. \A p \in DOMAIN etats : p # Ancetre => Front(p) \in DOMAIN etats
    BY <1>0 DEF FormeForks, Filiation
  <2>3. QED
    BY <2>1, <2>2, <1>1, <1>4 DEF TypeOKForks
<1>6. ASSUME Mystere
      PROVE  /\ Cardinality(DOMAIN etats) <= 11
             /\ \A l \in lignes \ {Accolade} : l[2] # Ancetre => l[1] = Front(l[2])
  <2>1. Cardinality(Futurs(etats)) \in Nat
    BY <1>0, <1>1, FutursFinis DEF FormeForks
  <2>2. QED
    BY <2>1, <1>0, <1>1, <1>6 DEF MystereForks
<1>7. ASSUME programme = "mystereGraphviz", Accolade \in lignes
      PROVE  Cardinality(lignes) = 11
  <2>1. Mystere /\ etats[Ancetre] \in Finis
    BY <1>0, <1>7 DEF GrapheForks, Mystere
  <2>2. \A q \in DOMAIN etats : etats[q] \in Finis
    BY <2>1, <1>0, TousFinis
  <2>3. Futurs(etats) = {}
    <3>1. PoidsForks["zombie"] = 0 /\ PoidsForks["parti"] = 0
      BY DEF PoidsForks, PointsForks
    <3>2. \A q \in DOMAIN etats : PoidsForks[etats[q]] = 0
      BY <3>1, <2>2 DEF Finis
    <3>3. QED
      BY <3>2 DEF Futurs
  <2>4. Cardinality(DOMAIN etats) = 11
    <3>1. Cardinality({}) = 0
      BY FS_EmptySet
    <3>2. Cardinality(DOMAIN etats) + Cardinality(Futurs(etats)) = 11
      BY <2>1, <1>0 DEF MystereForks
    <3>3. QED
      BY <3>1, <3>2, <2>3, <1>1
  <2>5. lignes = Aretes(DOMAIN etats) \cup {Accolade}
    <3>1. Aretes(DOMAIN etats) \subseteq lignes
      BY <2>2, <1>0, <1>7 DEF Aretes, GrapheForks
    <3>2. lignes \subseteq Aretes(DOMAIN etats) \cup {Accolade}
      BY <1>0, <1>7 DEF GrapheForks
    <3>3. QED
      BY <3>1, <3>2, <1>7
  <2>6. /\ IsFiniteSet(Aretes(DOMAIN etats)) /\ Cardinality(Aretes(DOMAIN etats)) + 1 = 11
        /\ Accolade \notin Aretes(DOMAIN etats)
    BY <2>4, <1>1, AretesNombre
  <2>7. QED
    BY <2>5, <2>6, FS_AddElement
<1>8. QED
  <2>1. terminal => entetes <= 1
    BY <1>0 DEF EntetesForks
  <2>2. QED
    BY <2>1, <1>3, <1>5, <1>6, <1>7 DEF ArbreExact

\* The invariant of the trees of processes: their shape, the headers, the forks
\* that remain and the edges that have been drawn.
THEOREM ArbreInvariant == Spec => []InvForks
<1>1. Init => InvForks
  BY FormeForksDebut, EntetesForksDebut, MystereForksDebut, GrapheForksDebut DEF InvForks
<1>2. InvForks /\ [Next]_vars => InvForks'
  BY FormeForksPas, EntetesForksPas, MystereForksPas, GrapheForksPas DEF InvForks
<1>3. QED
  BY <1>1, <1>2, PTL DEF Spec

\* The trees of processes, whatever the number of children and the order in
\* which the processes end: the mystery makes at most eleven, each of which
\* prints the name of its true father; the header is never repeated in a
\* terminal nor by mystereGraphviz.c, which draws ten edges and then its brace.
THEOREM ArbreExactToujours == Spec => []ArbreExact
<1>1. InvForks => ArbreExact
  BY ArbreDeInv
<1>2. QED
  BY <1>1, ArbreInvariant, PTL
================================================================================
