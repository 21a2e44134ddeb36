-------------------------- MODULE SrvMultiplexe_proofs -------------------------
(***************************************************************************)
(* Proofs about SrvPoll and SrvChat for any finite set of clients and any   *)
(* bounds: first what both servers keep, then what is answered by each.     *)
(* What a slot fresh from realloc holds matters to two theorems only.       *)
(***************************************************************************)
EXTENDS SrvPoll, SrvChat, FiniteSetTheorems, SequenceTheorems, NaturalsInduction,
        WellFoundedInduction, TLAPS

USE BornesAssumption, ClientsAssumption, ServeurAssumption

-----------------------------------------------------------------------------
(* The invariant of the array fds and of the loop.                          *)

Points == {"connect", "fgets", "write", "read", "fini", "tue"}

TypesCommuns ==
    /\ pc \in [Clients -> Points]
    /\ vers_srv \in [Clients -> Seq(Messages)]
    /\ attente \in Seq(Clients) /\ Len(attente) <= 1
    /\ fermees \subseteq Clients
    /\ srv \in {"poll", "boucle", "ecrire", "mort"}

Servies == {d \in Descripteurs : descr[d] # Libre}   \* the open descriptors
Utiles  == {s \in Cases : fds[s] # -1}               \* the slots in use

\* The slots in use and the open descriptors correspond one to one.
CasesDescr ==
    /\ fds[0] = sock
    /\ \A s \in Cases : fds[s] # sock
    /\ \A s, u \in Utiles : fds[s] = fds[u] => s = u
    /\ \A s \in Utiles : descr[fds[s]] # Libre
    /\ \A d \in Servies : \E s \in Utiles : fds[s] = d
    /\ nbr_clients = Cardinality(Utiles)

\* A connection is waiting, or has one descriptor, or is closed.
Connexions ==
    /\ \A d, e \in Servies : descr[d] = descr[e] => d = e
    /\ \A d \in Servies : attente # <<descr[d]>>
    /\ \A c \in Clients : attente = <<c>> => pc[c] # "connect" /\ c \notin fermees
    /\ srv # "mort" =>
           /\ \A d \in Servies : pc[descr[d]] # "connect" /\ descr[d] \notin fermees
           /\ \A c \in fermees : pc[c] # "connect"
           /\ \A c \in Clients : pc[c] # "connect" /\ c \notin fermees =>
                  (\E d \in Servies : descr[d] = c) \/ attente = <<c>>
    /\ srv = "mort" => fermees = Clients /\ attente = <<>>

\* What the loop relies on, in the slots that it has still to see.
Tour ==
    /\ srv \in {"poll", "boucle"} => buf = <<>>
    /\ srv = "boucle" => i \in 0 .. nfds - 1
    /\ srv \in {"ecrire", "mort"} => i \in Utiles
    /\ srv = "boucle" /\ i = 0 /\ revents[0] = "POLLIN" => attente # <<>>
    /\ \A s \in Cases : srv \in {"boucle", "ecrire"} /\ s >= i /\ revents[s] # "rien"
          => fds[s] # -1

Base == TypesCommuns /\ TypeOKServeur /\ CasesDescr /\ Connexions /\ Tour

LEMMA Vide ==
    ASSUME NEW T, NEW q \in Seq(T)
    PROVE  Len(q) \in Nat /\ (Len(q) = 0 <=> q = <<>>)
OBVIOUS

LEMMA Jointe ==
    ASSUME NEW T, NEW q \in Seq(T), NEW r \in Seq(T)
    PROVE  q \o r \in Seq(T) /\ Len(q \o r) = Len(q) + Len(r)
OBVIOUS

LEMMA Seul ==
    ASSUME NEW T, NEW q \in Seq(T), Len(q) <= 1, q # <<>>
    PROVE  Head(q) \in T /\ q = <<Head(q)>> /\ Tail(q) = <<>>
<1> DEFINE n == Len(q)
<1>1. n \in Nat /\ n # 0 /\ n <= 1
  OBVIOUS
<1>2. n = 1
  <2> HIDE DEF n
  <2>1. QED
    BY <1>1
<1>3. Head(q) = q[1] /\ q[1] \in T /\ q = <<q[1]>>
  BY <1>2
<1>4. Tail(q) = <<>>
  <2>1. Tail(q) \in Seq(T) /\ Len(Tail(q)) = 0
    BY <1>2
  <2>2. QED
    BY <2>1
<1>5. QED
  BY <1>3, <1>4

LEMMA CasesIntactes ==
    ASSUME CasesDescr, UNCHANGED <<fds, nfds, nbr_clients, descr>>
    PROVE  CasesDescr' /\ Utiles' = Utiles /\ Servies' = Servies /\ Cases' = Cases
BY DEF CasesDescr, Utiles, Servies, Cases

\* The connection of a slot in use.
LEMMA CaseUtile ==
    ASSUME TypeOKServeur, CasesDescr, NEW s \in Utiles
    PROVE  fds[s] \in Servies /\ fds[s] \in Descripteurs /\ descr[fds[s]] \in Clients
<1>1. s \in Cases /\ s \in 0 .. nfds - 1 /\ fds[s] # -1 /\ fds[s] # sock
  BY DEF Utiles, Cases, CasesDescr, TypeOKServeur
<1>2. fds[s] \in Descripteurs
  BY <1>1 DEF TypeOKServeur
<1>3. QED
  BY <1>2 DEF CasesDescr, Servies, TypeOKServeur

LEMMA BaseInitiale == InitServeur => Base
<1> SUFFICES ASSUME InitServeur PROVE Base
  OBVIOUS
<1> USE DEF InitServeur, InitSockets
<1>1. TypesCommuns /\ TypeOKServeur
  BY DEF TypesCommuns, Points, TypeOKServeur, Evenements
<1>2. Cases = {} /\ Utiles = {} /\ Servies = {}
  BY DEF Cases, Utiles, Servies
<1>3. CasesDescr
  BY <1>2, FS_EmptySet DEF CasesDescr
<1>4. Connexions /\ Tour
  BY <1>2 DEF Connexions, Tour
<1>5. QED
  BY <1>1, <1>3, <1>4 DEF Base

\* What a step of the client c leaves alone: the points of the others and the server.
Autres(c) ==
    /\ \A d \in Clients : d # c => pc'[d] = pc[d]
    /\ srv' = srv /\ fermees' = fermees
    /\ fds' = fds /\ nfds' = nfds /\ nbr_clients' = nbr_clients /\ descr' = descr
    /\ revents' = revents /\ i' = i /\ buf' = buf
    /\ pc'[c] # "connect" /\ pc[c] # "tue"
    /\ Ouvert(c)' => Ouvert(c) \/ srv # "mort"

\* It changes what waits only when it connects.
Attente(c) ==
    /\ \/ attente' = attente
       \/ attente' = <<c>> /\ c \notin fermees /\ pc[c] = "connect" /\ attente = <<>>
    /\ pc[c] = "connect" => attente' = <<c>> \/ srv = "mort"
    /\ srv = "mort" => attente' = attente

LEMMA ClientBase ==
    ASSUME Base, NEW c \in Clients, TypesCommuns', Autres(c), Attente(c)
    PROVE  Base'
<1> USE DEF Autres, Attente
<1>2. CasesDescr' /\ Utiles' = Utiles /\ Servies' = Servies /\ Cases' = Cases
  BY CasesIntactes DEF Base
<1>3. TypeOKServeur'
  BY DEF Base, TypeOKServeur
<1>4. Connexions'
  <2>1. \A d \in Clients : pc[d] # "connect" => pc'[d] # "connect"
    OBVIOUS
  <2>2. fermees \subseteq Clients /\ \A d \in Servies : descr[d] \in Clients
    BY DEF Base, TypesCommuns, TypeOKServeur, Servies
  <2>3. \A d \in Servies : attente' # <<descr[d]>>
    BY <2>2 DEF Base, Connexions
  <2>4. \A d \in Clients : attente' = <<d>> => pc'[d] # "connect" /\ d \notin fermees
    BY <2>1 DEF Base, Connexions
  <2>5. ASSUME srv # "mort", NEW d \in Clients, pc'[d] # "connect", d \notin fermees
        PROVE  (\E e \in Servies : descr[e] = d) \/ attente' = <<d>>
    <3>1. CASE d = c
      BY <2>5, <3>1 DEF Base, Connexions
    <3>2. CASE d # c
      BY <2>5, <3>2 DEF Base, Connexions
    <3>3. QED
      BY <3>1, <3>2
  <2>6. QED
    BY <1>2, <2>1, <2>2, <2>3, <2>4, <2>5 DEF Base, Connexions
<1>5. Tour'
  <2>1. attente # <<>> => attente' # <<>>
    OBVIOUS
  <2>2. QED
    BY <1>2, <2>1 DEF Base, Tour
<1>6. QED
  BY <1>2, <1>3, <1>4, <1>5 DEF Base

\* The points of the clients.
LEMMA Avance ==
    ASSUME Base, NEW c \in Clients, NEW x \in Points, Aller(c, x)
    PROVE  pc' \in [Clients -> Points] /\ pc'[c] = x /\ \A d \in Clients : d # c => pc'[d] = pc[d]
BY DEF Base, TypesCommuns, Aller

LEMMA ConnecterBase ==
    ASSUME Base, NEW c \in Clients, Connecter(c), UNCHANGED <<srv, varsServeur>>
    PROVE  Base'
<1> USE DEF Connecter, varsServeur, varsFds
<1>1. /\ pc' \in [Clients -> Points] /\ pc'[c] \in {"fgets", "fini"} /\ pc[c] = "connect"
      /\ \A d \in Clients : d # c => pc'[d] = pc[d]
  BY Avance DEF Points
<1>2. TypesCommuns'
  <2>1. <<c>> \in Seq(Clients) /\ Len(<<c>>) = 1
    OBVIOUS
  <2>2. attente' \in Seq(Clients) /\ Len(attente') <= 1
    <3>1. CASE attente' = attente
      BY <3>1 DEF Base, TypesCommuns
    <3>2. CASE attente' = <<c>>
      BY <2>1, <3>2
    <3>3. QED
      BY <3>1, <3>2
  <2>3. QED
    BY <1>1, <2>2 DEF Base, TypesCommuns
<1>3. srv # "mort" => c \notin fermees
  BY DEF Base, Connexions
<1>4. /\ (srv = "mort" => pc'[c] = "fini" /\ attente' = attente)
      /\ (srv # "mort" => attente = <<>> /\ attente' = <<c>>)
  BY Avance DEF Points
<1>5. Autres(c) /\ Attente(c)
  BY <1>1, <1>3, <1>4 DEF Autres, Attente, Ouvert
<1>6. QED
  BY <1>2, <1>5, ClientBase

\* The other steps of a client, whatever it reads and writes.
LEMMA ConnecteBase ==
    ASSUME Base, NEW c \in Clients, NEW x \in Points, Aller(c, x), pc[c] \notin {"connect", "tue"},
           x # "connect", x \in {"fgets", "write", "read"} => Ouvert(c),
           UNCHANGED <<attente, fermees, srv, varsServeur>>, vers_srv' \in [Clients -> Seq(Messages)]
    PROVE  Base'
<1> USE DEF varsServeur, varsFds
<1>1. /\ pc' \in [Clients -> Points] /\ pc'[c] = x
      /\ \A d \in Clients : d # c => pc'[d] = pc[d]
  BY Avance
<1>2. TypesCommuns'
  BY <1>1 DEF Base, TypesCommuns
<1>3. Autres(c) /\ Attente(c)
  BY <1>1 DEF Autres, Attente, Ouvert
<1>4. QED
  BY <1>2, <1>3, ClientBase

\* The end of the body of the loop.
LEMMA SuiteCas ==
    ASSUME NEW n \in Nat \ {0}, NEW r \in [0 .. n - 1 -> Evenements],
           i \in 0 .. n - 1, Suite(n, r)
    PROVE  /\ srv' \in {"poll", "boucle"} /\ i' \in 0 .. n - 1
           /\ revents' \in [0 .. n - 1 -> Evenements]
           /\ srv' = "boucle" => i' = i + 1 /\ revents' = r
BY DEF Suite, Evenements

\* A connection that waits is alone.
LEMMA EnTete ==
    ASSUME Base, attente # <<>>
    PROVE  /\ Head(attente) \in Clients /\ attente = <<Head(attente)>> /\ Tail(attente) = <<>>
           /\ pc[Head(attente)] # "connect" /\ Head(attente) \notin fermees
           /\ \A d \in Servies : descr[d] # Head(attente)
<1>1. attente \in Seq(Clients) /\ Len(attente) <= 1
  BY DEF Base, TypesCommuns
<1>2. Head(attente) \in Clients /\ attente = <<Head(attente)>> /\ Tail(attente) = <<>>
  BY <1>1, Seul
<1>3. QED
  BY <1>2 DEF Base, Connexions

LEMMA PollBase == ASSUME Base, Poll PROVE Base'
<1> USE DEF Poll, varsClients, varsSockets
<1>1. TypesCommuns' /\ TypeOKServeur'
  BY DEF Base, TypesCommuns, TypeOKServeur, Revents, Etat, Evenements
<1>2. buf = <<>> /\ buf' = <<>>
  BY DEF Base, Tour
<1>4. CasesDescr' /\ Utiles' = Utiles /\ Servies' = Servies /\ Cases' = Cases
  BY CasesIntactes DEF Base
<1>5. Connexions'
  BY <1>4 DEF Base, Connexions
<1>6. Tour'
  <2>1. 0 \in 0 .. nfds - 1
    BY DEF Base, TypeOKServeur
  <2>2. revents'[0] = "POLLIN" => attente # <<>>
    BY <2>1 DEF Revents
  <2>3. \A s \in Cases : revents'[s] # "rien" => fds[s] # -1
    BY DEF Revents, Cases
  <2>4. QED
    BY <1>2, <1>4, <2>1, <2>2, <2>3 DEF Tour
<1>7. QED
  BY <1>1, <1>4, <1>5, <1>6 DEF Base

\* The smallest descriptor that is free exists: there are as many descriptors as
\* clients, each client has at most one, and the one that waits has none.
LEMMA PlusPetit ==
    ASSUME NEW T \in SUBSET Nat, T # {}
    PROVE  \E m \in T : \A n \in T : m <= n
<1> DEFINE R == {ss \in Nat \X Nat : ss[1] < ss[2]}
<1>1. IsWellFoundedOn(R, Nat)
  BY NatLessThanWellFounded DEF OpToRel
<1>2. \A x, y \in Nat : x < y => <<x, y>> \in R
  OBVIOUS
<1>3. PICK m \in T : \A n \in T : ~(<<n, m>> \in R)
  <2> HIDE DEF R
  <2>1. QED
    BY <1>1, WFMin
<1> HIDE DEF R
<1>4. ASSUME NEW n \in T PROVE m <= n
  <2>1. m \in Nat /\ n \in Nat /\ (n < m => <<n, m>> \in R)
    BY <1>2
  <2>2. ~(n < m)
    BY <2>1, <1>3
  <2>3. QED
    BY <2>1, <2>2
<1>5. QED
  BY <1>4

LEMMA NouveauLibre ==
    ASSUME Base, attente # <<>>
    PROVE  Nouveau \in Descripteurs /\ descr[Nouveau] = Libre
<1> DEFINE h == Head(attente)
           L == {d \in Descripteurs : descr[d] = Libre}
<1>1. Cardinality(Clients) \in Nat
  BY FS_CardinalityType
<1>2. /\ IsFiniteSet(Descripteurs) /\ Cardinality(Descripteurs) = Cardinality(Clients)
  <2>1. 4 \in Int /\ 3 + Cardinality(Clients) \in Int
    BY <1>1
  <2>2. QED
    BY <1>1, <2>1, FS_Interval DEF Descripteurs
<1>3. /\ IsFiniteSet(Clients \ {h}) /\ Cardinality(Clients \ {h}) = Cardinality(Clients) - 1
  BY EnTete, FS_RemoveElement
<1>4. L # {}
  <2> SUFFICES ASSUME L = {} PROVE FALSE
    OBVIOUS
  <2>1. Servies = Descripteurs
    BY DEF Servies
  <2>2. descr \in [Descripteurs -> Clients \ {h}]
    <3>1. \A d \in Descripteurs : descr[d] \in Clients \ {h}
      BY <2>1, EnTete DEF Base, TypeOKServeur
    <3>2. QED
      BY <3>1 DEF Base, TypeOKServeur
  <2>3. Cardinality(Clients \ {h}) < Cardinality(Descripteurs)
    BY <1>1, <1>2, <1>3
  <2>4. PICK d, e \in Descripteurs : d # e /\ descr[d] = descr[e]
    BY <1>2, <1>3, <2>2, <2>3, FS_PigeonHole
  <2>5. QED
    BY <2>1, <2>4 DEF Base, Connexions
<1>5. PICK m \in L : \A n \in L : m <= n
  <2>1. L \in SUBSET Nat
    BY <1>1 DEF Descripteurs
  <2>2. QED
    BY <1>4, <2>1, PlusPetit
<1>6. Min(L) \in L
  BY <1>5 DEF Min
<1>7. QED
  BY <1>6 DEF Nouveau

LEMMA CasesFinies ==
    ASSUME TypeOKServeur
    PROVE  IsFiniteSet(Utiles) /\ Cardinality(Utiles) \in Nat /\ IsFiniteSet(Cases)
<1>1. 1 \in Int /\ nfds - 1 \in Int
  BY DEF TypeOKServeur
<1>2. IsFiniteSet(Cases)
  BY <1>1, FS_Interval DEF Cases
<1>3. QED
  BY <1>2, FS_Subset, FS_CardinalityType DEF Utiles

LEMMA AccepterBase == ASSUME Base, Accepter PROVE Base'
<1> DEFINE h == Head(attente)
           n == nfds + 1
           d0 == Nouveau
<1>0. /\ srv = "boucle" /\ i = 0 /\ attente # <<>> /\ buf = <<>> /\ buf' = <<>>
      /\ nbr_clients < nbre_client_max
      /\ UNCHANGED <<pc, lignes, recus, vers_srv, vers_cli, fermees>>
      /\ fds' = Ajouter(fds, d0) /\ descr' = [descr EXCEPT ![d0] = h]
      /\ attente' = Tail(attente) /\ nfds' = n /\ nbr_clients' = nbr_clients + 1
  BY DEF Accepter, Admettre, varsClients, Base, Tour
<1>1. PICK v \in Indefini : Suite(n, Ajouter(revents, v))
  BY DEF Accepter, Admettre
<1>2. /\ h \in Clients /\ attente = <<h>> /\ attente' = <<>>
      /\ pc[h] # "connect" /\ h \notin fermees /\ \A d \in Servies : descr[d] # h
  BY <1>0, EnTete
<1>3. d0 \in Descripteurs /\ descr[d0] = Libre /\ h # Libre
  BY <1>0, <1>2, NouveauLibre
<1> HIDE DEF h, d0
<1>4. /\ nfds \in Nat \ {0} /\ n \in Nat \ {0} /\ n - 1 = nfds
      /\ Ajouter(revents, v) \in [0 .. n - 1 -> Evenements]
      /\ Ajouter(fds, d0) \in [0 .. n - 1 -> Descripteurs \cup {sock, -1}]
      /\ i \in 0 .. n - 1
  BY <1>0, <1>3 DEF Base, TypeOKServeur, Ajouter
<1>5. /\ srv' \in {"poll", "boucle"} /\ i' \in 0 .. nfds
      /\ revents' \in [0 .. nfds -> Evenements]
      /\ srv' = "boucle" => i' = 1 /\ revents' = Ajouter(revents, v)
  <2>1. /\ srv' \in {"poll", "boucle"} /\ i' \in 0 .. n - 1
        /\ revents' \in [0 .. n - 1 -> Evenements]
        /\ srv' = "boucle" => i' = i + 1 /\ revents' = Ajouter(revents, v)
    <3> HIDE DEF n
    <3>1. QED
      BY <1>1, <1>4, SuiteCas
  <2>2. QED
    BY <1>0, <1>4, <2>1
<1>6. TypesCommuns'
  BY <1>0, <1>2, <1>5 DEF Base, TypesCommuns
<1>7. TypeOKServeur'
  <2>1. descr' \in [Descripteurs -> Clients \cup {Libre}]
    BY <1>0, <1>2 DEF Base, TypeOKServeur
  <2>2. nbr_clients' \in 0 .. nbre_client_max
    BY <1>0 DEF Base, TypeOKServeur
  <2>3. QED
    BY <1>0, <1>4, <1>5, <2>1, <2>2 DEF Base, TypeOKServeur
<1>9. /\ Cases' = Cases \cup {nfds} /\ nfds \notin Cases
      /\ fds'[nfds] = d0 /\ \A s \in 0 .. nfds - 1 : fds'[s] = fds[s]
  BY <1>0, <1>4 DEF Cases, Ajouter
<1>10. Utiles' = Utiles \cup {nfds} /\ nfds \notin Utiles
  <2>1. d0 # -1 /\ d0 # sock
    BY <1>3, FS_CardinalityType DEF Descripteurs, sock
  <2>2. \A s \in Cases : fds'[s] = fds[s]
    BY <1>9 DEF Cases
  <2>3. QED
    BY <1>9, <2>1, <2>2 DEF Utiles
<1>11. Servies' = Servies \cup {d0} /\ d0 \notin Servies /\ descr'[d0] = h
       /\ \A d \in Servies : descr'[d] = descr[d]
  BY <1>0, <1>2, <1>3 DEF Servies, Base, TypeOKServeur
<1>12. CasesDescr'
  <2>1. fds'[0] = sock /\ \A s \in Cases' : fds'[s] # sock
    <3>1. d0 # sock
      BY <1>3, FS_CardinalityType DEF Descripteurs, sock
    <3>2. \A s \in Cases : fds'[s] = fds[s]
      BY <1>9 DEF Cases
    <3>3. 0 \in 0 .. nfds - 1
      BY <1>4
    <3>4. QED
      BY <1>9, <3>1, <3>2, <3>3 DEF Base, CasesDescr
  <2>2. \A s \in Utiles : fds'[s] = fds[s] /\ fds[s] \in Servies
    BY <1>9, CaseUtile DEF Base, Utiles, Cases
  <2>3. nbr_clients' = Cardinality(Utiles')
    BY <1>0, <1>10, CasesFinies, FS_AddElement DEF Base, CasesDescr
  <2>4. \A s, u \in Utiles' : fds'[s] = fds'[u] => s = u
    BY <1>9, <1>10, <1>11, <2>2 DEF Base, CasesDescr
  <2>5. \A s \in Utiles' : descr'[fds'[s]] # Libre
    BY <1>2, <1>3, <1>9, <1>10, <1>11, <2>2 DEF Servies
  <2>6. \A d \in Servies' : \E s \in Utiles' : fds'[s] = d
    BY <1>9, <1>10, <1>11, <2>2 DEF Base, CasesDescr
  <2>7. QED
    BY <2>1, <2>3, <2>4, <2>5, <2>6 DEF CasesDescr
<1>13. Connexions'
  <2>1. \A d, e \in Servies' : descr'[d] = descr'[e] => d = e
    BY <1>2, <1>11 DEF Base, Connexions
  <2>2. \A c : attente' # <<c>>
    BY <1>2
  <2>3. \A d \in Servies' : pc'[descr'[d]] # "connect" /\ descr'[d] \notin fermees'
    BY <1>0, <1>2, <1>11 DEF Base, Connexions
  <2>4. \A c \in fermees' : pc'[c] # "connect"
    BY <1>0 DEF Base, Connexions
  <2>5. ASSUME NEW c \in Clients, pc'[c] # "connect", c \notin fermees'
        PROVE  \E d \in Servies' : descr'[d] = c
    <3>1. (\E d \in Servies : descr[d] = c) \/ attente = <<c>>
      BY <1>0, <2>5 DEF Base, Connexions
    <3>2. QED
      BY <1>2, <1>11, <3>1
  <2>6. QED
    BY <1>5, <2>1, <2>2, <2>3, <2>4, <2>5 DEF Connexions
<1>14. Tour'
  <2>1. ASSUME srv' = "boucle", NEW s \in Cases', revents'[s] # "rien" PROVE fds'[s] # -1
    <3>1. CASE s = nfds
      BY <1>3, <1>9, <3>1, FS_CardinalityType DEF Descripteurs
    <3>2. CASE s \in Cases
      <4>1. revents'[s] = revents[s] /\ fds'[s] = fds[s] /\ s >= i
        BY <1>0, <1>4, <1>5, <1>9, <2>1, <3>2 DEF Ajouter, Cases
      <4>2. QED
        BY <1>0, <2>1, <3>2, <4>1 DEF Base, Tour
    <3>3. QED
      BY <1>9, <3>1, <3>2
  <2>2. nfds' - 1 = nfds
    BY <1>0, <1>4
  <2>3. QED
    BY <1>0, <1>5, <2>1, <2>2 DEF Tour
<1>15. QED
  BY <1>6, <1>7, <1>12, <1>13, <1>14 DEF Base

\* The end of a turn of the loop that changed neither the number of slots nor
\* their events.
LEMMA SuiteBoucle ==
    ASSUME Base, srv \in {"boucle", "ecrire"}, Suite(nfds, revents)
    PROVE  /\ srv' \in {"poll", "boucle"} /\ i' \in 0 .. nfds - 1
           /\ revents' \in [0 .. nfds - 1 -> Evenements]
           /\ srv' = "boucle" => i' = i + 1 /\ revents' = revents
<1>1. /\ nfds \in Nat \ {0} /\ revents \in [0 .. nfds - 1 -> Evenements]
      /\ i \in 0 .. nfds - 1
  BY DEF Base, TypeOKServeur, Tour, Utiles, Cases
<1>2. QED
  BY <1>1, SuiteCas

LEMMA RefuserBase == ASSUME Base, Refuser PROVE Base'
<1> DEFINE h == Head(attente)
<1>0. /\ srv = "boucle" /\ i = 0 /\ attente # <<>> /\ buf = <<>> /\ buf' = <<>>
      /\ UNCHANGED <<pc, lignes, recus, vers_srv, vers_cli, fds, nfds, nbr_clients, descr>>
      /\ fermees' = fermees \cup {h} /\ attente' = Tail(attente)
      /\ Suite(nfds, revents)
  BY DEF Refuser, varsClients, varsFds, Base, Tour
<1>1. /\ h \in Clients /\ attente = <<h>> /\ attente' = <<>>
      /\ pc[h] # "connect" /\ h \notin fermees /\ \A d \in Servies : descr[d] # h
  BY <1>0, EnTete
<1> HIDE DEF h
<1>2. /\ srv' \in {"poll", "boucle"} /\ i' \in 0 .. nfds - 1
      /\ revents' \in [0 .. nfds - 1 -> Evenements]
      /\ srv' = "boucle" => i' = i + 1 /\ revents' = revents
  BY <1>0, SuiteBoucle
<1>3. TypesCommuns'
  BY <1>0, <1>1, <1>2 DEF Base, TypesCommuns
<1>4. TypeOKServeur'
  BY <1>0, <1>2 DEF Base, TypeOKServeur
<1>6. CasesDescr' /\ Utiles' = Utiles /\ Servies' = Servies /\ Cases' = Cases
  BY <1>0, CasesIntactes DEF Base
<1>7. Connexions'
  <2>1. \A c : attente' # <<c>>
    BY <1>1
  <2>2. \A d \in Servies : pc[descr[d]] # "connect" /\ descr[d] \notin fermees'
    BY <1>0, <1>1 DEF Base, Connexions
  <2>3. \A c \in fermees' : pc[c] # "connect"
    BY <1>0, <1>1 DEF Base, Connexions
  <2>4. ASSUME NEW c \in Clients, pc[c] # "connect", c \notin fermees'
        PROVE  \E d \in Servies : descr[d] = c
    <3>1. (\E d \in Servies : descr[d] = c) \/ attente = <<c>>
      BY <1>0, <2>4 DEF Base, Connexions
    <3>2. QED
      BY <1>0, <1>1, <2>4, <3>1
  <2>5. QED
    BY <1>0, <1>2, <1>6, <2>1, <2>2, <2>3, <2>4 DEF Base, Connexions
<1>8. Tour'
  BY <1>0, <1>2, <1>6 DEF Base, Tour, Cases, TypeOKServeur
<1>9. QED
  BY <1>3, <1>4, <1>6, <1>7, <1>8 DEF Base

LEMMA PasserBase == ASSUME Base, Passer PROVE Base'
<1>0. /\ srv = "boucle" /\ buf = <<>> /\ buf' = <<>>
      /\ UNCHANGED <<pc, lignes, recus, vers_srv, vers_cli, attente, fermees>>
      /\ UNCHANGED <<fds, nfds, nbr_clients, descr>>
      /\ Suite(nfds, revents)
  BY DEF Passer, varsClients, varsSockets, varsFds, Base, Tour
<1>2. /\ srv' \in {"poll", "boucle"} /\ i' \in 0 .. nfds - 1
      /\ revents' \in [0 .. nfds - 1 -> Evenements]
      /\ srv' = "boucle" => i' = i + 1 /\ revents' = revents
  BY <1>0, SuiteBoucle
<1>3. TypesCommuns' /\ TypeOKServeur'
  BY <1>0, <1>2 DEF Base, TypesCommuns, TypeOKServeur
<1>6. CasesDescr' /\ Utiles' = Utiles /\ Servies' = Servies /\ Cases' = Cases
  BY <1>0, CasesIntactes DEF Base
<1>7. Connexions'
  BY <1>0, <1>2, <1>6 DEF Base, Connexions
<1>8. Tour'
  <2>1. i \in 0 .. nfds - 1
    BY <1>0 DEF Base, Tour
  <2>2. QED
    BY <1>0, <1>2, <1>6, <2>1 DEF Base, Tour, Cases, TypeOKServeur
<1>9. QED
  BY <1>3, <1>6, <1>7, <1>8 DEF Base

\* The slot of the turn, and its connection.
LEMMA CaseDuTour ==
    ASSUME Base, i # 0, \/ srv = "boucle" /\ revents[i] # "rien"
                        \/ srv = "ecrire"
    PROVE  /\ i \in Utiles /\ i \in Cases /\ fds[i] \in Servies /\ fds[i] \in Descripteurs
           /\ descr[fds[i]] \in Clients
           /\ pc[descr[fds[i]]] # "connect" /\ descr[fds[i]] \notin fermees
<1>1. i \in Utiles
  <2>1. CASE srv = "boucle"
    <3>1. i \in Cases
      BY <2>1 DEF Base, Tour, Cases, TypeOKServeur
    <3>2. QED
      BY <2>1, <3>1 DEF Base, Tour, Utiles, Cases
  <2>2. QED
    BY <2>1 DEF Base, Tour
<1>2. fds[i] \in Servies /\ fds[i] \in Descripteurs /\ descr[fds[i]] \in Clients
  BY <1>1, CaseUtile DEF Base
<1>3. QED
  BY <1>1, <1>2 DEF Base, Connexions, Utiles

LEMMA DeconnecterBase == ASSUME Base, Deconnecter PROVE Base'
<1> DEFINE d0 == fds[i]
           h  == descr[d0]
<1>0. /\ srv = "boucle" /\ i # 0 /\ revents[i] # "rien" /\ buf = <<>> /\ buf' = <<>>
      /\ UNCHANGED <<pc, lignes, recus, vers_srv, vers_cli, attente, nfds>>
      /\ fermees' = fermees \cup {h} /\ descr' = [descr EXCEPT ![d0] = Libre]
      /\ fds' = [fds EXCEPT ![i] = -1] /\ nbr_clients' = nbr_clients - 1
      /\ Suite(nfds, revents)
  BY DEF Deconnecter, varsClients, Base, Tour
<1>1. /\ i \in Utiles /\ i \in Cases /\ d0 \in Servies /\ d0 \in Descripteurs
      /\ h \in Clients /\ pc[h] # "connect" /\ h \notin fermees
  BY <1>0, CaseDuTour
<1>2. /\ srv' \in {"poll", "boucle"} /\ i' \in 0 .. nfds - 1
      /\ revents' \in [0 .. nfds - 1 -> Evenements]
      /\ srv' = "boucle" => i' = i + 1 /\ revents' = revents
  BY <1>0, SuiteBoucle
<1>3. /\ Cases' = Cases /\ fds'[i] = -1 /\ \A s \in 0 .. nfds - 1 : s # i => fds'[s] = fds[s]
      /\ \A s \in Cases : s \in 0 .. nfds - 1
      /\ 0 \in 0 .. nfds - 1 /\ i \in Int
  BY <1>0, <1>1 DEF Base, TypeOKServeur, Cases
<1>4. Utiles' = Utiles \ {i}
  BY <1>3 DEF Utiles
<1>5. /\ Servies' = Servies \ {d0} /\ \A d \in Descripteurs : d # d0 => descr'[d] = descr[d]
      /\ Servies \subseteq Descripteurs
  BY <1>0 DEF Servies, Base, TypeOKServeur
<1>6. \A s \in Utiles : fds[s] \in Servies /\ (s # i => fds[s] # d0)
  BY <1>1, CaseUtile DEF Base, CasesDescr
<1>7. Cardinality(Utiles') = Cardinality(Utiles) - 1 /\ Cardinality(Utiles') \in Nat
  <2>1. IsFiniteSet(Utiles) /\ IsFiniteSet(Utiles \ {i})
    BY CasesFinies, FS_RemoveElement DEF Base
  <2>2. QED
    BY <1>1, <1>4, <2>1, FS_RemoveElement, FS_CardinalityType
<1>8. TypesCommuns'
  BY <1>0, <1>1, <1>2 DEF Base, TypesCommuns
<1>9. TypeOKServeur'
  <2>1. nbr_clients' \in 0 .. nbre_client_max
    BY <1>0, <1>7 DEF Base, TypeOKServeur, CasesDescr
  <2>2. fds' \in [0 .. nfds - 1 -> Descripteurs \cup {sock, -1}]
    BY <1>0 DEF Base, TypeOKServeur
  <2>3. descr' \in [Descripteurs -> Clients \cup {Libre}]
    BY <1>0 DEF Base, TypeOKServeur
  <2>4. QED
    BY <1>0, <1>2, <2>1, <2>2, <2>3 DEF Base, TypeOKServeur
<1>11. CasesDescr'
  <2>1. fds'[0] = sock /\ \A s \in Cases : fds'[s] # sock
    BY <1>0, <1>3 DEF Base, CasesDescr, sock
  <2>2. \A s \in Utiles' : s \in Utiles /\ fds'[s] = fds[s] /\ fds[s] # d0
    BY <1>3, <1>4, <1>6 DEF Utiles
  <2>3. \A s, u \in Utiles' : fds'[s] = fds'[u] => s = u
    BY <2>2 DEF Base, CasesDescr
  <2>4. \A s \in Utiles' : descr'[fds'[s]] # Libre
    BY <1>5, <1>6, <2>2 DEF Base, CasesDescr
  <2>5. ASSUME NEW d \in Servies' PROVE \E s \in Utiles' : fds'[s] = d
    <3>1. d \in Servies /\ d # d0
      BY <1>5, <2>5
    <3>2. PICK s \in Utiles : fds[s] = d
      BY <3>1 DEF Base, CasesDescr
    <3>3. QED
      BY <1>4, <2>2, <3>1, <3>2
  <2>6. nbr_clients' = Cardinality(Utiles')
    BY <1>0, <1>7 DEF Base, CasesDescr
  <2>7. QED
    BY <1>3, <2>1, <2>3, <2>4, <2>5, <2>6 DEF CasesDescr
<1>12. Connexions'
  <2>1. \A d \in Servies' : d \in Servies /\ d # d0 /\ descr'[d] = descr[d] /\ descr[d] # h
    BY <1>1, <1>5 DEF Base, Connexions
  <2>2. \A d, e \in Servies' : descr'[d] = descr'[e] => d = e
    BY <2>1 DEF Base, Connexions
  <2>3. \A d \in Servies' : attente # <<descr'[d]>>
    BY <2>1 DEF Base, Connexions
  <2>4. \A c \in Clients : attente = <<c>> => pc[c] # "connect" /\ c \notin fermees'
    BY <1>0, <1>1 DEF Base, Connexions
  <2>5. \A d \in Servies' : pc[descr'[d]] # "connect" /\ descr'[d] \notin fermees'
    BY <1>0, <2>1 DEF Base, Connexions
  <2>6. \A c \in fermees' : pc[c] # "connect"
    BY <1>0, <1>1 DEF Base, Connexions
  <2>7. ASSUME NEW c \in Clients, pc[c] # "connect", c \notin fermees'
        PROVE  (\E d \in Servies' : descr'[d] = c) \/ attente = <<c>>
    <3>1. c # h /\ ((\E d \in Servies : descr[d] = c) \/ attente = <<c>>)
      BY <1>0, <2>7 DEF Base, Connexions
    <3>2. ASSUME NEW d \in Servies, descr[d] = c PROVE d \in Servies' /\ descr'[d] = c
      BY <1>5, <3>1, <3>2
    <3>3. QED
      BY <3>1, <3>2
  <2>8. QED
    BY <1>0, <1>2, <2>2, <2>3, <2>4, <2>5, <2>6, <2>7 DEF Connexions
<1>13. Tour'
  <2>1. ASSUME srv' = "boucle", NEW s \in Cases, s >= i', revents'[s] # "rien"
        PROVE  fds'[s] # -1
    <3>1. s # i /\ s >= i /\ revents[s] # "rien"
      BY <1>2, <1>3, <2>1 DEF Cases
    <3>2. QED
      BY <1>0, <1>3, <2>1, <3>1 DEF Base, Tour
  <2>2. srv' = "boucle" => i' # 0
    BY <1>2, <1>1 DEF Cases
  <2>3. QED
    BY <1>0, <1>2, <1>3, <2>1, <2>2 DEF Tour
<1>14. QED
  BY <1>8, <1>9, <1>11, <1>12, <1>13 DEF Base

\* The server reads some of what a client has written.
LEMMA LireDonneesBase ==
    ASSUME Base, Lire, NEW lu \in Lectures(vers_srv[descr[fds[i]]]),
           vers_srv' = [vers_srv EXCEPT ![descr[fds[i]]] = Reste(@, lu)],
           buf' = lu, srv' = "ecrire",
           UNCHANGED <<varsClients, vers_cli, attente, fermees, varsFds, revents, i>>
    PROVE  Base'
<1> USE DEF varsClients, varsFds
<1> DEFINE c == descr[fds[i]]
<1>1. i \in Utiles /\ i \in Cases /\ c \in Clients /\ srv = "boucle"
  BY CaseDuTour DEF Lire
<1>2. TypesCommuns' /\ TypeOKServeur'
  <2>1. vers_srv[c] \in Seq(Messages)
    BY <1>1 DEF Base, TypesCommuns
  <2>2. lu \in Seq(Messages) /\ Reste(vers_srv[c], lu) \in Seq(Messages)
    <3> DEFINE q == vers_srv[c]
    <3>1. PICK n \in 1 .. Len(q) : lu = SubSeq(q, 1, n)
      BY DEF Lectures
    <3>2. q \in Seq(Messages)
      BY <2>1
    <3> HIDE DEF q
    <3>3. lu \in Seq(Messages) /\ Len(lu) = n
      BY <3>1, <3>2
    <3>4. SubSeq(q, Len(lu) + 1, Len(q)) \in Seq(Messages)
      BY <3>1, <3>2, <3>3
    <3>5. QED
      BY <3>3, <3>4 DEF Reste, q
  <2>3. vers_srv' \in [Clients -> Seq(Messages)]
    BY <2>2 DEF Base, TypesCommuns
  <2>4. QED
    BY <2>2, <2>3 DEF Base, TypesCommuns, TypeOKServeur
<1>3. CasesDescr' /\ Utiles' = Utiles /\ Servies' = Servies /\ Cases' = Cases
  BY CasesIntactes DEF Base
<1>4. Connexions'
  BY <1>1, <1>3 DEF Base, Connexions
<1>5. Tour'
  BY <1>1, <1>3 DEF Base, Tour, Cases
<1>6. QED
  BY <1>2, <1>3, <1>4, <1>5 DEF Base

\* The end of a file that poll had not announced as such.
LEMMA LireFinBase ==
    ASSUME Base, Lire, srv' = "ecrire", UNCHANGED <<varsClients, varsSockets, varsServeur>>
    PROVE  Base'
<1> USE DEF varsClients, varsSockets, varsServeur, varsFds
<1>0. srv = "boucle" /\ buf = <<>> /\ buf' = <<>> /\ i \in Utiles /\ i \in Cases
  BY CaseDuTour DEF Lire, Base, Tour
<1>1. TypesCommuns' /\ TypeOKServeur'
  BY DEF Base, TypesCommuns, TypeOKServeur
<1>2. CasesDescr' /\ Utiles' = Utiles /\ Servies' = Servies /\ Cases' = Cases
  BY CasesIntactes DEF Base
<1>3. Connexions'
  BY <1>0, <1>2 DEF Base, Connexions
<1>4. Tour'
  BY <1>0, <1>2 DEF Base, Tour, Cases
<1>5. QED
  BY <1>1, <1>2, <1>3, <1>4 DEF Base

\* The server exits in the turn of a client.
LEMMA MourirBase ==
    ASSUME Base, i \in Utiles, srv \in {"boucle", "ecrire"}, Mourir, UNCHANGED varsServeur
    PROVE  Base'
<1> USE DEF Mourir, varsClients, varsServeur, varsFds
<1>1. TypesCommuns' /\ TypeOKServeur'
  BY DEF Base, TypesCommuns, TypeOKServeur
<1>2. CasesDescr' /\ Utiles' = Utiles /\ Servies' = Servies /\ Cases' = Cases
  BY CasesIntactes DEF Base
<1>3. Connexions'
  <2>1. \A c : attente' # <<c>>
    OBVIOUS
  <2>2. QED
    BY <1>2, <2>1 DEF Base, Connexions
<1>4. Tour'
  BY <1>2 DEF Tour
<1>5. QED
  BY <1>1, <1>2, <1>3, <1>4 DEF Base

\* The end of the turn of a client whose data have been written.
LEMMA FinTourBase ==
    ASSUME Base, srv = "ecrire", buf' = <<>>, Suite(nfds, revents),
           UNCHANGED <<pc, vers_srv, attente, fermees, varsFds>>
    PROVE  Base'
<1> USE DEF varsFds
<1>1. i \in Utiles /\ i \in Cases /\ i \in Int /\ i >= 1
  BY DEF Base, Tour, Utiles, Cases
<1>2. /\ srv' \in {"poll", "boucle"} /\ i' \in 0 .. nfds - 1
      /\ revents' \in [0 .. nfds - 1 -> Evenements]
      /\ srv' = "boucle" => i' = i + 1 /\ revents' = revents
  BY SuiteBoucle
<1>3. TypesCommuns' /\ TypeOKServeur'
  BY <1>2 DEF Base, TypesCommuns, TypeOKServeur
<1>4. CasesDescr' /\ Utiles' = Utiles /\ Servies' = Servies /\ Cases' = Cases
  BY CasesIntactes DEF Base
<1>5. Connexions'
  BY <1>2, <1>4 DEF Base, Connexions
<1>6. Tour'
  <2>1. ASSUME srv' = "boucle", NEW s \in Cases, s >= i', revents'[s] # "rien"
        PROVE  fds[s] # -1
    <3>1. s >= i /\ revents[s] # "rien"
      BY <1>1, <1>2, <2>1 DEF Cases
    <3>2. QED
      BY <2>1, <3>1 DEF Base, Tour
  <2>2. srv' = "boucle" => i' # 0
    BY <1>1, <1>2
  <2>3. QED
    BY <1>2, <1>4, <2>1, <2>2 DEF Tour
<1>7. QED
  BY <1>3, <1>4, <1>5, <1>6 DEF Base

\* A step that concerns neither the slots nor the loop.
LEMMA BaseIntacte ==
    ASSUME Base, UNCHANGED <<pc, vers_srv, attente, fermees, srv, varsServeur>>
    PROVE  Base'
<1> USE DEF varsServeur, varsFds
<1>1. TypesCommuns' /\ TypeOKServeur'
  BY DEF Base, TypesCommuns, TypeOKServeur
<1>2. CasesDescr' /\ Utiles' = Utiles /\ Servies' = Servies /\ Cases' = Cases
  BY CasesIntactes DEF Base
<1>3. Connexions' /\ Tour'
  BY <1>2 DEF Base, Connexions, Tour
<1>4. QED
  BY <1>1, <1>2, <1>3 DEF Base

LEMMA BaseCoherente == Base => CasesCoherentes
<1> SUFFICES ASSUME Base PROVE CasesCoherentes
  OBVIOUS
<1>1. {fds[s] : s \in Utiles} = Servies
  <2>1. \A s \in Utiles : fds[s] \in Servies
    BY CaseUtile DEF Base
  <2>2. \A d \in Servies : \E s \in Utiles : fds[s] = d
    BY DEF Base, CasesDescr
  <2>3. QED
    BY <2>1, <2>2
<1>2. srv # "mort" =>
          \A c \in Clients : pc[c] # "connect" /\ c \notin fermees =>
              (\E d \in Descripteurs : descr[d] = c) \/ attente = <<c>>
  BY DEF Base, Connexions, Servies
<1>3. TypeOKServeur /\ nbr_clients = Cardinality(Utiles)
      /\ \A s, u \in Utiles : fds[s] = fds[u] => s = u
  BY DEF Base, CasesDescr
<1>4. QED
  BY <1>1, <1>2, <1>3 DEF CasesCoherentes, Utiles, Servies

\* The bound on the lines bounds those of each client.
LEMMA LignesBornees ==
    ASSUME lignes \in [Clients -> 0 .. MAXLIGNES], Cardinality(LignesLues) < MAXLIGNES, NEW c \in Clients
    PROVE  lignes[c] + 1 \in 0 .. MAXLIGNES
<1> DEFINE L == {c} \X (1 .. MAXLIGNES)
<1>1. lignes[c] \in 0 .. MAXLIGNES
  OBVIOUS
<1>2. SUFFICES ASSUME lignes[c] = MAXLIGNES PROVE FALSE
  BY <1>1
<1>3. IsFiniteSet({c}) /\ Cardinality({c}) = 1
  BY FS_Singleton
<1>4. IsFiniteSet(1 .. MAXLIGNES) /\ Cardinality(1 .. MAXLIGNES) = MAXLIGNES
  <2>1. 1 \in Int /\ MAXLIGNES \in Int /\ MAXLIGNES >= 0
    OBVIOUS
  <2>2. QED
    BY <2>1, FS_Interval
<1>5. Cardinality(L) = MAXLIGNES
  <2> DEFINE S == {c}
             T == 1 .. MAXLIGNES
  <2>1. IsFiniteSet(S) /\ IsFiniteSet(T) /\ Cardinality(S) = 1 /\ Cardinality(T) = MAXLIGNES
    BY <1>3, <1>4
  <2>2. Cardinality(S \X T) = Cardinality(S) * Cardinality(T)
    <3> HIDE DEF S, T
    <3> QED
      BY <2>1, FS_Product
  <2>3. Cardinality(S \X T) = 1 * MAXLIGNES
    <3> HIDE DEF S, T
    <3> QED
      BY <2>1, <2>2
  <2>4. QED
    BY <2>3
<1>6. L \subseteq LignesLues
  BY <1>2 DEF LignesLues, Messages
<1>7. IsFiniteSet(LignesLues)
  <2>1. IsFiniteSet(Messages)
    BY <1>4, FS_Product DEF Messages
  <2>2. QED
    BY <2>1, FS_Subset DEF LignesLues
<1>8. Cardinality(L) <= Cardinality(LignesLues) /\ Cardinality(LignesLues) \in Nat
  BY <1>6, <1>7, FS_Subset, FS_CardinalityType
<1>9. QED
  BY <1>5, <1>8
-----------------------------------------------------------------------------
(* srv_poll.c: the inductive invariant.                                     *)

\* What has been sent by c and not been printed by it: at most one line.
Reponses(c)  == Len(vers_cli[c])
Lues(c)      == Len(EnCours(c))
Demandes(c)  == Len(vers_srv[c])
Recues(c)    == Len(recus[c])
EnAttente(c) == Reponses(c) + Lues(c) + Demandes(c)

\* A client waits for the answer to its line before it sends another one, and
\* only one that is interrupted leaves a line in the hands of the server.
Echange(c) ==
    /\ pc[c] \in {"connect", "fgets", "write"} => EnAttente(c) = 0
    /\ pc[c] = "read" => EnAttente(c) = 1
    /\ EnAttente(c) <= 1
    /\ pc[c] \in {"connect", "fgets", "read"} => lignes[c] = Recues(c) + EnAttente(c)
    /\ pc[c] = "write" => lignes[c] = Recues(c) + 1
    /\ EnCours(c) # <<>> => pc[c] \in {"read", "tue"}
    /\ EnCours(c) # <<>> /\ pc[c] = "read" => c \notin fermees
    /\ pc[c] = "fini" /\ c \notin fermees => EnAttente(c) = 0

Echanges == \A c \in Clients : Echange(c)

\* The server only exits in the turn of a client that has left.
Quitte == srv = "mort" => ~Ouvert(descr[fds[i]])

IInv == TypeOK /\ Echanges /\ Base /\ Quitte

\* What it also relies on unless a fresh slot announces data (POLLIN): a slot
\* that the loop will read has data.
Pret ==
    /\ \A s \in Cases :
           /\ (srv = "boucle" /\ s >= i) \/ (srv = "ecrire" /\ s > i)
           /\ revents[s] = "POLLIN"
           => vers_srv[descr[fds[s]]] # <<>>
    /\ srv = "ecrire" => buf # <<>>
    /\ srv = "mort" => \E c \in Clients : pc[c] = "tue"

\* The queues of a client, and their lengths.
LEMMA Files ==
    ASSUME TypeOK, TypeOKServeur, NEW c \in Clients
    PROVE  /\ vers_cli[c] \in Seq(Messages) /\ EnCours(c) \in Seq(Messages)
           /\ vers_srv[c] \in Seq(Messages) /\ recus[c] \in Seq(Messages)
           /\ lignes[c] \in 0 .. MAXLIGNES
<1>1. EnCours(c) \in Seq(Messages)
  BY DEF TypeOKServeur, EnCours
<1>2. QED
  BY <1>1 DEF TypeOK, TypeOKSockets

LEMMA Longueurs ==
    ASSUME TypeOK, TypeOKServeur, NEW c \in Clients
    PROVE  /\ Reponses(c) \in Nat /\ Lues(c) \in Nat
           /\ Demandes(c) \in Nat /\ Recues(c) \in Nat /\ EnAttente(c) \in Nat
           /\ Reponses(c) = 0 <=> vers_cli[c] = <<>>
           /\ Lues(c) = 0 <=> EnCours(c) = <<>>
           /\ Demandes(c) = 0 <=> vers_srv[c] = <<>>
<1>1. /\ Reponses(c) \in Nat /\ Lues(c) \in Nat
      /\ Demandes(c) \in Nat /\ Recues(c) \in Nat
      /\ Reponses(c) = 0 <=> vers_cli[c] = <<>>
      /\ Lues(c) = 0 <=> EnCours(c) = <<>>
      /\ Demandes(c) = 0 <=> vers_srv[c] = <<>>
  BY Files, Vide DEF Reponses, Lues, Demandes, Recues
<1>2. EnAttente(c) \in Nat
  BY <1>1 DEF EnAttente
<1>3. QED
  BY <1>1, <1>2
\* A queue of one message is read whole.
LEMMA LectureEntiere ==
    ASSUME NEW T, NEW q \in Seq(T), Len(q) <= 1, NEW lu \in Lectures(q)
    PROVE  lu = q /\ Len(q) = 1 /\ Reste(q, lu) = <<>>
<1>1. PICK n \in 1 .. Len(q) : lu = SubSeq(q, 1, n)
  BY DEF Lectures
<1> DEFINE m == Len(q)
<1>2. n = 1 /\ m = 1
  <2>1. m \in Nat /\ m <= 1 /\ n \in 1 .. m
    BY <1>1
  <2> HIDE DEF m
  <2>2. QED
    BY <2>1
<1>3. lu = q
  BY <1>1, <1>2
<1>4. Reste(q, lu) = <<>>
  BY <1>2, <1>3 DEF Reste
<1>5. QED
  BY <1>2, <1>3, <1>4

LEMMA InitIInv == Init => IInv
<1> SUFFICES ASSUME Init PROVE IInv
  OBVIOUS
<1>1. Base
  BY BaseInitiale DEF Init
<1> USE DEF Init, InitServeur, InitSockets
<1>2. TypeOK /\ Quitte
  BY DEF TypeOK, TypeOKSockets, Quitte
<1>3. Echanges
  BY DEF Echanges, Echange, EnAttente, Reponses, Lues, Demandes, Recues, EnCours
<1>4. QED
  BY <1>1, <1>2, <1>3 DEF IInv

\* What a step leaves alone of a client.
Intact(c) ==
    /\ recus'[c] = recus[c] /\ vers_cli'[c] = vers_cli[c]
    /\ vers_srv'[c] = vers_srv[c] /\ EnCours(c)' = EnCours(c)

LEMMA CompteIntact ==
    ASSUME NEW c, Intact(c)
    PROVE  /\ Recues(c)' = Recues(c) /\ Reponses(c)' = Reponses(c)
           /\ Lues(c)' = Lues(c) /\ Demandes(c)' = Demandes(c)
           /\ EnAttente(c)' = EnAttente(c)
BY DEF Intact, Recues, Reponses, Lues, Demandes, EnAttente

LEMMA EchangeIntact ==
    ASSUME NEW d \in Clients, Echange(d), Intact(d), pc'[d] = pc[d],
           lignes'[d] = lignes[d], d \in fermees' <=> d \in fermees
    PROVE  Echange(d)'
<1>1. EnCours(d)' = EnCours(d) /\ EnAttente(d)' = EnAttente(d) /\ Recues(d)' = Recues(d)
  BY CompteIntact DEF Intact
<1>2. QED
  BY <1>1 DEF Echange
\* What a step of the client c leaves alone: the other clients and the server.
AutresIntacts(c) ==
    /\ \A d \in Clients : d # c => lignes'[d] = lignes[d] /\ Intact(d) /\ pc'[d] = pc[d]
    /\ UNCHANGED <<srv, fermees, varsServeur>>
    /\ pc[c] # "tue" /\ (Ouvert(c)' => Ouvert(c) \/ srv # "mort")

\* Such a step keeps the invariant when it keeps that of the client.
LEMMA ClientIInv ==
    ASSUME IInv, NEW c \in Clients, TypeOK', Base', Echange(c)', AutresIntacts(c)
    PROVE  IInv'
<1> USE DEF AutresIntacts, varsServeur, varsFds
<1>1. Echanges'
  BY EchangeIntact DEF IInv, Echanges
<1>2. Quitte'
  <2> SUFFICES ASSUME srv = "mort" PROVE ~Ouvert(descr[fds[i]])'
    BY DEF Quitte
  <2>1. descr[fds[i]] \in Clients /\ ~Ouvert(descr[fds[i]])
    BY CaseUtile DEF IInv, Base, Tour, Quitte
  <2>2. QED
    BY <2>1 DEF Ouvert
<1>3. QED
  BY <1>1, <1>2 DEF IInv

LEMMA ConnecterIInv ==
    ASSUME IInv, NEW c \in Clients, Connecter(c), UNCHANGED <<srv, varsServeur>>
    PROVE  IInv'
<1> USE DEF Connecter, Aller, varsServeur, varsFds
<1>1. TypeOK'
  <2>1. <<c>> \in Seq(Clients) /\ Len(<<c>>) = 1
    OBVIOUS
  <2>2. attente' \in Seq(Clients) /\ Len(attente') <= 1
    <3>1. CASE attente' = attente
      BY <3>1 DEF IInv, Base, TypeOK, TypeOKSockets
    <3>2. CASE attente' = <<c>>
      BY <2>1, <3>2
    <3>3. QED
      BY <3>1, <3>2
  <2>3. pc' \in [Clients -> {"connect", "fgets", "write", "read", "fini", "tue"}]
    BY DEF IInv, Base, TypeOK, TypeOKSockets
  <2>4. QED
    BY <2>2, <2>3 DEF IInv, Base, TypeOK, TypeOKSockets
<1>2. \A d \in Clients : Intact(d) /\ lignes'[d] = lignes[d] /\ (d # c => pc'[d] = pc[d])
  BY DEF Intact, EnCours, IInv, Base, TypeOK, TypeOKSockets
<1>3. pc[c] = "connect" /\ pc'[c] \in {"fgets", "fini"} /\ fermees' = fermees
  BY DEF IInv, Base, TypeOK, TypeOKSockets
<1>4. Echange(c)'
  BY <1>2, <1>3, CompteIntact DEF Intact, IInv, Base, Echanges, Echange
<1>5. Base'
  BY ConnecterBase DEF IInv
<1>6. /\ (srv = "mort" => pc'[c] = "fini" /\ attente' = attente)
      /\ (srv # "mort" => attente = <<>> /\ attente' = <<c>>)
  BY DEF IInv, Base, TypeOK, TypeOKSockets
<1>7. AutresIntacts(c)
  BY <1>2, <1>3, <1>6 DEF AutresIntacts, Ouvert, varsServeur, varsFds
<1>8. QED
  BY <1>1, <1>4, <1>5, <1>7, ClientIInv

LEMMA FgetsIInv ==
    ASSUME IInv, NEW c \in Clients, Fgets(c), UNCHANGED <<srv, varsServeur>>
    PROVE  IInv'
<1> USE DEF Fgets, Aller, varsSockets, varsServeur, varsFds
<1>1. TypeOK'
  <2>1. lignes' \in [Clients -> 0 .. MAXLIGNES]
    BY LignesBornees DEF IInv, Base, TypeOK, TypeOKSockets
  <2>2. QED
    BY <2>1 DEF IInv, Base, TypeOK, TypeOKSockets
<1>2. \A d \in Clients : Intact(d) /\ (d # c => pc'[d] = pc[d] /\ lignes'[d] = lignes[d])
  BY DEF Intact, EnCours, IInv, Base, TypeOK, TypeOKSockets
<1>3. /\ pc[c] = "fgets" /\ UNCHANGED <<attente, fermees>>
      /\ \/ pc'[c] = "write" /\ lignes'[c] = lignes[c] + 1
         \/ pc'[c] = "fini" /\ lignes'[c] = lignes[c]
  BY DEF IInv, Base, TypeOK, TypeOKSockets
<1>4. Echange(c)'
  <2>1. EnAttente(c) = 0 /\ lignes[c] = Recues(c) + EnAttente(c) /\ EnCours(c) = <<>>
    BY <1>3 DEF IInv, Base, Echanges, Echange
  <2>2. Recues(c) \in Nat
    BY Longueurs DEF IInv, Base
  <2>3. EnAttente(c)' = 0 /\ Recues(c)' = Recues(c) /\ EnCours(c)' = <<>>
    BY <1>2, <2>1, CompteIntact DEF Intact
  <2>4. QED
    BY <1>3, <2>1, <2>2, <2>3 DEF Echange
<1>5. AutresIntacts(c)
  BY <1>2, <1>3 DEF AutresIntacts, Ouvert, varsServeur, varsFds
<1>6. Base'
  <2>1. \E x \in {"write", "fini"} : Aller(c, x)
    OBVIOUS
  <2>2. QED
    BY <2>1, ConnecteBase DEF IInv, Base, TypesCommuns, Points, Ouvert
<1>7. QED
  BY <1>1, <1>4, <1>5, <1>6, ClientIInv

LEMMA EnvoyerIInv ==
    ASSUME IInv, NEW c \in Clients, Envoyer(c), UNCHANGED <<srv, varsServeur>>
    PROVE  IInv'
<1> USE DEF Envoyer, Aller, varsServeur, varsFds
<1>0. /\ <<c, lignes[c]>> \in Messages /\ lignes[c] = Recues(c) + 1
      /\ Append(vers_srv[c], <<c, lignes[c]>>) \in Seq(Messages)
  <2>1. lignes[c] = Recues(c) + 1
    BY DEF IInv, Base, Echanges, Echange
  <2>2. <<c, lignes[c]>> \in Messages
    BY <2>1, Files, Longueurs DEF IInv, Base, Messages
  <2>3. vers_srv[c] \in Seq(Messages)
    BY Files DEF IInv, Base
  <2>4. QED
    BY <2>1, <2>2, <2>3
<1>1. TypeOK'
  <2>1. vers_srv' \in [Clients -> Seq(Messages)]
    BY <1>0 DEF IInv, Base, TypeOK, TypeOKSockets
  <2>2. QED
    BY <2>1 DEF IInv, Base, TypeOK, TypeOKSockets
<1>2. \A d \in Clients \ {c} : Intact(d) /\ pc'[d] = pc[d] /\ lignes'[d] = lignes[d]
  BY DEF Intact, EnCours, IInv, Base, TypeOK, TypeOKSockets
<1>3. /\ pc[c] = "write" /\ UNCHANGED <<attente, fermees, lignes, recus, vers_cli>>
      /\ pc'[c] \in {"fini", "read"} /\ EnCours(c)' = EnCours(c)
      /\ pc'[c] = "fini" => c \in fermees /\ vers_srv' = vers_srv
      /\ pc'[c] = "read" => vers_srv'[c] = Append(vers_srv[c], <<c, lignes[c]>>)
  BY DEF IInv, Base, TypeOK, TypeOKSockets, EnCours
<1>4. Echange(c)'
  <2>1. /\ EnAttente(c) = 0 /\ lignes[c] = Recues(c) + 1 /\ EnCours(c) = <<>>
        /\ Recues(c) \in Nat /\ Reponses(c) \in Nat /\ Lues(c) \in Nat /\ Demandes(c) \in Nat
    BY <1>3, Longueurs DEF IInv, Base, Echanges, Echange
  <2>2. Recues(c)' = Recues(c) /\ Reponses(c)' = Reponses(c) /\ Lues(c)' = Lues(c)
    BY <1>3 DEF Recues, Reponses, Lues
  <2>3. CASE pc'[c] = "fini"
    <3>1. EnAttente(c)' = 0
      BY <1>3, <2>1, <2>2, <2>3 DEF EnAttente, Demandes
    <3>2. QED
      BY <1>3, <2>1, <2>3, <3>1 DEF Echange
  <2>4. CASE pc'[c] = "read"
    <3>1. Demandes(c)' = Demandes(c) + 1
      <4>1. vers_srv[c] \in Seq(Messages)
        BY Files DEF IInv, Base
      <4>2. QED
        BY <1>3, <2>4, <4>1 DEF Demandes
    <3>2. EnAttente(c)' = 1
      BY <2>1, <2>2, <3>1 DEF EnAttente
    <3>3. QED
      BY <1>3, <2>1, <2>2, <2>4, <3>2 DEF Echange
  <2>5. QED
    BY <1>3, <2>3, <2>4
<1>5. AutresIntacts(c)
  BY <1>2, <1>3 DEF AutresIntacts, Ouvert, varsServeur, varsFds
<1>6. Base'
  <2>1. \E x \in {"read", "fini"} : Aller(c, x)
    OBVIOUS
  <2>2. vers_srv' \in [Clients -> Seq(Messages)]
    BY <1>1 DEF TypeOK, TypeOKSockets
  <2>3. QED
    BY <2>1, <2>2, ConnecteBase DEF IInv, Points, Ouvert
<1>7. QED
  BY <1>1, <1>4, <1>5, <1>6, ClientIInv
\* An answer comes whole; there is no end of file before it: a client whose
\* connection the server has closed has its line unread, and ends.
LEMMA RecevoirCas ==
    ASSUME IInv, NEW c \in Clients, Recevoir(c)
    PROVE  /\ EnCours(c) = <<>> /\ EnAttente(c) = 1
           /\ \/ /\ Reponses(c) = 1 /\ vers_srv[c] = <<>>
                 /\ recus' = [recus EXCEPT ![c] = @ \o vers_cli[c]]
                 /\ vers_cli' = [vers_cli EXCEPT ![c] = <<>>]
                 /\ Aller(c, "fgets")
              \/ /\ c \in fermees
                 /\ Aller(c, "fini")
                 /\ UNCHANGED <<recus, vers_cli>>
<1>1. TypeOK /\ EnAttente(c) = 1 /\ (EnCours(c) # <<>> => c \notin fermees)
  BY DEF Recevoir, IInv, Base, Echanges, Echange
<1>2. /\ Reponses(c) \in Nat /\ Lues(c) \in Nat /\ Demandes(c) \in Nat
      /\ Reponses(c) = 0 <=> vers_cli[c] = <<>>
      /\ Lues(c) = 0 <=> EnCours(c) = <<>>
      /\ Demandes(c) = 0 <=> vers_srv[c] = <<>>
  BY <1>1, Longueurs DEF IInv, Base
<1>3. ASSUME NEW lu \in Lectures(vers_cli[c])
      PROVE  /\ lu = vers_cli[c] /\ Reste(vers_cli[c], lu) = <<>> /\ Reponses(c) = 1
             /\ EnCours(c) = <<>> /\ vers_srv[c] = <<>>
  <2>1. Reponses(c) <= 1
    BY <1>1, <1>2 DEF EnAttente
  <2>2. lu = vers_cli[c] /\ Reponses(c) = 1 /\ Reste(vers_cli[c], lu) = <<>>
    BY <1>1, <2>1, Files, LectureEntiere DEF IInv, Base, Reponses
  <2>3. QED
    BY <1>1, <1>2, <2>2 DEF EnAttente
<1>4. CASE \E lu \in Lectures(vers_cli[c]) :
              /\ recus' = [recus EXCEPT ![c] = @ \o lu]
              /\ vers_cli' = [vers_cli EXCEPT ![c] = Reste(@, lu)]
              /\ Aller(c, "fgets")
  BY <1>1, <1>3, <1>4
<1>5. CASE /\ vers_cli[c] = <<>> /\ c \in fermees
           /\ Aller(c, IF vers_srv[c] = <<>> THEN "fgets" ELSE "fini")
           /\ UNCHANGED <<recus, vers_cli>>
  <2>1. EnCours(c) = <<>>
    BY <1>1, <1>5
  <2>2. vers_srv[c] # <<>>
    BY <1>1, <1>2, <1>5, <2>1 DEF EnAttente
  <2>3. QED
    BY <1>1, <1>5, <2>1, <2>2
<1>6. QED
  BY <1>4, <1>5 DEF Recevoir

LEMMA RecevoirIInv ==
    ASSUME IInv, NEW c \in Clients, Recevoir(c), UNCHANGED <<srv, varsServeur>>
    PROVE  IInv'
<1> USE DEF Aller, varsServeur, varsFds
<1>1. TypeOK'
  <2>1. recus[c] \o vers_cli[c] \in Seq(Messages) /\ <<>> \in Seq(Messages)
    BY Files DEF IInv, Base
  <2>0. recus \in [Clients -> Seq(Messages)] /\ vers_cli \in [Clients -> Seq(Messages)]
    BY DEF IInv, Base, TypeOK, TypeOKSockets
  <2>2. recus' \in [Clients -> Seq(Messages)] /\ vers_cli' \in [Clients -> Seq(Messages)]
    <3>1. CASE UNCHANGED <<recus, vers_cli>>
      BY <2>0, <3>1
    <3>2. CASE /\ recus' = [recus EXCEPT ![c] = @ \o vers_cli[c]]
               /\ vers_cli' = [vers_cli EXCEPT ![c] = <<>>]
      BY <2>0, <2>1, <3>2
    <3>3. QED
      BY <3>1, <3>2, RecevoirCas
  <2>3. pc' \in [Clients -> {"connect", "fgets", "write", "read", "fini", "tue"}]
    BY RecevoirCas DEF IInv, Base, TypeOK, TypeOKSockets
  <2>4. QED
    BY <2>2, <2>3 DEF IInv, Base, TypeOK, TypeOKSockets, Recevoir
<1>2. \A d \in Clients \ {c} : Intact(d) /\ pc'[d] = pc[d] /\ lignes'[d] = lignes[d]
  BY RecevoirCas DEF Recevoir, Intact, EnCours, IInv, Base, TypeOK, TypeOKSockets
<1>3. /\ pc[c] = "read" /\ UNCHANGED <<attente, fermees, lignes, vers_srv>>
      /\ EnCours(c)' = <<>> /\ EnCours(c) = <<>> /\ EnAttente(c) = 1
      /\ pc'[c] \in {"fini", "fgets"}
      /\ pc'[c] = "fini" => c \in fermees /\ Intact(c)
      /\ pc'[c] = "fgets" =>
             /\ Reponses(c) = 1 /\ vers_srv[c] = <<>> /\ vers_cli'[c] = <<>>
             /\ recus'[c] = recus[c] \o vers_cli[c]
  <2>0. /\ recus \in [Clients -> Seq(Messages)] /\ vers_cli \in [Clients -> Seq(Messages)]
        /\ pc \in [Clients -> {"connect", "fgets", "write", "read", "fini", "tue"}]
    BY DEF IInv, Base, TypeOK, TypeOKSockets
  <2>1. /\ pc[c] = "read" /\ UNCHANGED <<attente, fermees, lignes, vers_srv>>
        /\ EnCours(c)' = EnCours(c) /\ EnCours(c) = <<>> /\ EnAttente(c) = 1
    BY RecevoirCas DEF Recevoir, EnCours
  <2>2. CASE c \in fermees /\ Aller(c, "fini") /\ UNCHANGED <<recus, vers_cli>>
    BY <2>0, <2>1, <2>2 DEF Intact
  <2>3. CASE /\ Reponses(c) = 1 /\ vers_srv[c] = <<>>
             /\ recus' = [recus EXCEPT ![c] = @ \o vers_cli[c]]
             /\ vers_cli' = [vers_cli EXCEPT ![c] = <<>>]
             /\ Aller(c, "fgets")
    BY <2>0, <2>1, <2>3
  <2>4. QED
    BY <2>2, <2>3, RecevoirCas
<1>4. Echange(c)'
  <2>1. lignes[c] = Recues(c) + EnAttente(c)
    BY <1>3 DEF IInv, Base, Echanges, Echange
  <2>2. CASE pc'[c] = "fini"
    BY <1>3, <2>2, CompteIntact DEF Echange
  <2>3. CASE pc'[c] = "fgets"
    <3>1. recus[c] \in Seq(Messages) /\ vers_cli[c] \in Seq(Messages)
      BY Files DEF IInv, Base
    <3>2. Recues(c)' = Recues(c) + Reponses(c)
      <4>1. Len(recus[c] \o vers_cli[c]) = Len(recus[c]) + Len(vers_cli[c])
        BY <3>1, Jointe
      <4>2. recus'[c] = recus[c] \o vers_cli[c]
        BY <1>3, <2>3
      <4>3. QED
        BY <4>1, <4>2 DEF Recues, Reponses
    <3>3. EnAttente(c)' = 0
      <4>1. vers_srv'[c] = <<>> /\ vers_cli'[c] = <<>> /\ EnCours(c)' = <<>>
        BY <1>3, <2>3
      <4>2. Reponses(c)' = 0 /\ Lues(c)' = 0 /\ Demandes(c)' = 0
        BY <4>1 DEF Reponses, Lues, Demandes
      <4>3. QED
        BY <4>2 DEF EnAttente
    <3>4. Recues(c) \in Nat
      BY Longueurs DEF IInv, Base
    <3>5. QED
      BY <1>3, <2>1, <2>3, <3>2, <3>3, <3>4 DEF Echange
  <2>4. QED
    BY <1>3, <2>2, <2>3
<1>5. AutresIntacts(c)
  BY <1>2, <1>3 DEF AutresIntacts, Ouvert, varsServeur, varsFds
<1>6. Base'
  <2>1. \E x \in {"fgets", "fini"} : Aller(c, x)
    BY RecevoirCas
  <2>2. vers_srv' \in [Clients -> Seq(Messages)]
    BY <1>1 DEF TypeOK, TypeOKSockets
  <2>3. QED
    BY <1>3, <2>1, <2>2, ConnecteBase DEF IInv, Points, Ouvert
<1>7. QED
  BY <1>1, <1>4, <1>5, <1>6, ClientIInv

LEMMA TuerIInv ==
    ASSUME IInv, NEW c \in Clients, Tuer(c), UNCHANGED varsServeur
    PROVE  IInv'
<1> USE DEF Tuer, Ouvert, Aller, varsSockets, varsServeur, varsFds
<1>1. TypeOK'
  BY DEF IInv, Base, TypeOK, TypeOKSockets
<1>2. \A d \in Clients : Intact(d) /\ (d # c => pc'[d] = pc[d] /\ lignes'[d] = lignes[d])
  BY DEF Intact, EnCours, IInv, Base, TypeOK, TypeOKSockets
<1>3. pc'[c] = "tue" /\ pc[c] \in {"fgets", "write", "read"} /\ attente' = attente
  BY DEF IInv, Base, TypeOK, TypeOKSockets
<1>4. Echange(c)'
  BY <1>2, <1>3, CompteIntact DEF IInv, Base, Echanges, Echange
<1>5. AutresIntacts(c)
  BY <1>2, <1>3 DEF AutresIntacts, Ouvert, varsServeur, varsFds
<1>6. Base'
  BY ConnecteBase DEF IInv, Base, TypesCommuns, Points
<1>7. QED
  BY <1>1, <1>4, <1>5, <1>6, ClientIInv

\* A step of the server that reads and writes nothing.
LEMMA EchangesServeur ==
    ASSUME IInv, UNCHANGED <<pc, lignes, recus, vers_srv, vers_cli>>,
           \A d \in Clients : EnCours(d)' = EnCours(d),
           fermees \subseteq fermees',
           \A d \in Clients : EnCours(d) # <<>> /\ pc[d] = "read" => d \notin fermees'
    PROVE  Echanges'
<1> SUFFICES ASSUME NEW d \in Clients PROVE Echange(d)'
  BY DEF Echanges
<1>1. EnCours(d)' = EnCours(d) /\ EnAttente(d)' = EnAttente(d) /\ Recues(d)' = Recues(d)
  BY CompteIntact DEF Intact
<1>2. QED
  BY <1>1 DEF IInv, Base, Echanges, Echange

LEMMA HorsEcriture ==
    ASSUME buf = <<>>, buf' = <<>>
    PROVE  \A d : EnCours(d) = <<>> /\ EnCours(d)' = <<>>
BY DEF EnCours
\* The steps of the loop that read and write nothing.
LEMMA BoucleIInv ==
    ASSUME IInv, Base', srv \in {"poll", "boucle"}, srv' # "mort", buf' = <<>>,
           UNCHANGED <<pc, lignes, recus, vers_srv, vers_cli>>, fermees \subseteq fermees'
    PROVE  IInv'
<1>1. TypeOK'
  BY DEF IInv, Base, TypesCommuns, TypeOK, TypeOKSockets
<1>2. buf = <<>>
  BY DEF IInv, Base, Tour
<1>3. \A d \in Clients : EnCours(d) = <<>> /\ EnCours(d)' = <<>>
  BY <1>2, HorsEcriture
<1>4. Echanges'
  BY <1>3, EchangesServeur
<1>5. QED
  BY <1>1, <1>4 DEF IInv, Quitte

LEMMA EntreeIInv ==
    ASSUME IInv, Poll \/ Accepter \/ Refuser \/ Deconnecter \/ Passer
    PROVE  IInv'
<1>1. Base'
  BY PollBase, AccepterBase, RefuserBase, DeconnecterBase, PasserBase DEF IInv
<1>2. /\ srv \in {"poll", "boucle"} /\ buf' = buf /\ fermees \subseteq fermees' /\ srv' # "mort"
      /\ UNCHANGED <<pc, lignes, recus, vers_srv, vers_cli>>
  BY DEF Poll, Accepter, Admettre, Refuser, Deconnecter, Passer, Suite, varsClients, varsSockets,
         varsFds
<1>3. buf = <<>>
  BY <1>2 DEF IInv, Base, Tour
<1>4. QED
  BY <1>1, <1>2, <1>3, BoucleIInv

-----------------------------------------------------------------------------
(* Reading and answering.                                                   *)

\* The server reads the line of the client of the slot, the only one there is.
LEMMA LireCas ==
    ASSUME IInv, Lire, vers_srv[descr[fds[i]]] # <<>>
    PROVE  LET c == descr[fds[i]] IN
           /\ c \in Clients /\ Demandes(c) = 1 /\ EnAttente(c) = 1
           /\ vers_srv' = [vers_srv EXCEPT ![c] = <<>>]
           /\ buf' = vers_srv[c] /\ buf' # <<>> /\ srv' = "ecrire"
           /\ EnCours(c) = <<>> /\ vers_cli[c] = <<>>
           /\ UNCHANGED <<pc, lignes, recus, vers_cli, attente, fermees>>
           /\ UNCHANGED <<fds, nfds, nbr_clients, descr, revents, i>>
<1> DEFINE c == descr[fds[i]]
<1>0. i # 0 /\ srv = "boucle" /\ revents[i] = "POLLIN" /\ c \in Clients
  BY CaseDuTour DEF Lire, IInv
<1>1. PICK lu \in Lectures(vers_srv[c]) :
          /\ vers_srv' = [vers_srv EXCEPT ![c] = Reste(@, lu)]
          /\ buf' = lu /\ srv' = "ecrire"
          /\ UNCHANGED <<varsClients, vers_cli, attente, fermees, varsFds, revents, i>>
  BY DEF Lire, LireCase
<1> HIDE DEF c
<1>2. TypeOK /\ TypeOKServeur /\ EnCours(c) = <<>> /\ EnAttente(c) <= 1
  BY <1>0 DEF IInv, Base, Tour, Quitte, EnCours, Echanges, Echange
<1>3. /\ Reponses(c) \in Nat /\ Lues(c) \in Nat /\ Demandes(c) \in Nat
      /\ Reponses(c) = 0 <=> vers_cli[c] = <<>>
      /\ Lues(c) = 0 <=> EnCours(c) = <<>>
  BY <1>0, <1>2, Longueurs
<1>4. Demandes(c) <= 1
  BY <1>2, <1>3 DEF EnAttente
<1>5. lu = vers_srv[c] /\ Demandes(c) = 1 /\ Reste(vers_srv[c], lu) = <<>>
  <2>1. vers_srv[c] \in Seq(Messages) /\ Len(vers_srv[c]) <= 1
    BY <1>0, <1>2, <1>4, Files DEF Demandes
  <2>2. QED
    BY <1>1, <2>1, LectureEntiere DEF Demandes
<1>6. vers_cli[c] = <<>> /\ EnAttente(c) = 1
  BY <1>2, <1>3, <1>5 DEF EnAttente
<1>7. vers_srv[c] # <<>>
  BY DEF c
<1>8. QED
  BY <1>0, <1>1, <1>2, <1>5, <1>6, <1>7 DEF c, varsClients, varsFds

LEMMA LireDonneesIInv ==
    ASSUME IInv, Lire, vers_srv[descr[fds[i]]] # <<>> PROVE IInv'
<1> DEFINE c == descr[fds[i]]
<1>0. /\ c \in Clients /\ Demandes(c) = 1 /\ EnAttente(c) = 1
      /\ vers_srv' = [vers_srv EXCEPT ![c] = <<>>]
      /\ buf' = vers_srv[c] /\ buf' # <<>> /\ srv' = "ecrire"
      /\ EnCours(c) = <<>> /\ vers_cli[c] = <<>>
      /\ UNCHANGED <<pc, lignes, recus, vers_cli, attente, fermees>>
      /\ UNCHANGED <<fds, nfds, nbr_clients, descr, revents, i>>
      /\ srv = "boucle"
  BY LireCas DEF Lire
<1>1. i \in Utiles /\ i \in Cases /\ pc[c] # "connect" /\ c \notin fermees
  BY CaseDuTour DEF Lire, IInv
<1>2. TypeOK'
  <2>1. vers_srv[c] \in Seq(Messages) /\ <<>> \in Seq(Messages)
    BY <1>0, Files DEF IInv, Base
  <2>2. vers_srv' \in [Clients -> Seq(Messages)]
    BY <1>0, <2>1 DEF IInv, Base, TypeOK, TypeOKSockets
  <2>3. QED
    BY <1>0, <2>2 DEF IInv, Base, TypeOK, TypeOKSockets
<1>3. ASSUME NEW d \in Clients PROVE Echange(d)'
  <2>1. CASE d = c
    <3>1. /\ vers_srv'[d] = <<>> /\ EnCours(d)' = vers_srv[d] /\ EnCours(d)' # <<>>
          /\ vers_cli'[d] = <<>> /\ EnAttente(d) = 1 /\ Demandes(d) = 1
      BY <1>0, <2>1 DEF IInv, Base, TypeOK, TypeOKSockets, EnCours
    <3>2. EnAttente(d)' = 1
      BY <3>1 DEF EnAttente, Reponses, Lues, Demandes
    <3>3. /\ Echange(d) /\ pc'[d] = pc[d] /\ lignes'[d] = lignes[d] /\ Recues(d)' = Recues(d)
          /\ d \notin fermees /\ d \notin fermees'
      BY <1>0, <1>1, <2>1 DEF IInv, Base, Echanges, Recues
    <3>4. pc[d] \in {"connect", "fgets", "write", "read", "fini", "tue"}
      BY DEF IInv, Base, TypeOK, TypeOKSockets
    <3>5. QED
      BY <3>1, <3>2, <3>3, <3>4 DEF Echange
  <2>2. CASE d # c
    <3>1. buf = <<>>
      BY <1>0 DEF IInv, Base, Tour, Quitte
    <3>2. Intact(d)
      BY <1>0, <2>2, <3>1 DEF Intact, EnCours, IInv, Base, TypeOK, TypeOKSockets
    <3>3. QED
      BY <1>0, <3>2, EchangeIntact DEF IInv, Base, Echanges
  <2>3. QED
    BY <2>1, <2>2
<1>4. Base'
  <2>1. PICK lu \in Lectures(vers_srv[descr[fds[i]]]) :
            /\ vers_srv' = [vers_srv EXCEPT ![descr[fds[i]]] = Reste(@, lu)]
            /\ buf' = lu
            /\ UNCHANGED <<varsClients, vers_cli, attente, fermees, varsFds, revents, i>>
    BY DEF Lire, LireCase
  <2>2. QED
    BY <1>0, <2>1, LireDonneesBase DEF IInv
<1>5. QED
  BY <1>0, <1>2, <1>3, <1>4 DEF IInv, Echanges, Quitte

\* The end of a file that poll had not announced as such.
LEMMA LireFinIInv ==
    ASSUME IInv, Lire, srv' = "ecrire", UNCHANGED <<varsClients, varsSockets, varsServeur>>
    PROVE  IInv'
<1>1. Base'
  BY LireFinBase DEF IInv
<1>2. srv = "boucle" /\ buf = <<>> /\ buf' = <<>>
  BY DEF Lire, IInv, Base, Tour, varsServeur
<1>3. QED
  BY <1>1, <1>2, BoucleIInv DEF varsClients, varsSockets

\* The server exits in the turn of a client that has left.
LEMMA MourirIInv ==
    ASSUME IInv, i \in Utiles, srv \in {"boucle", "ecrire"}, ~Ouvert(descr[fds[i]]),
           Mourir, UNCHANGED varsServeur
    PROVE  IInv'
<1>0. Base'
  BY MourirBase DEF IInv
<1> USE DEF Mourir, varsClients, varsServeur, varsFds
<1>1. TypeOK'
  BY DEF IInv, TypeOK, TypeOKSockets
<1>2. Echanges'
  <2>1. \A d \in Clients : EnCours(d)' = EnCours(d)
    BY DEF IInv, Base, Tour, Quitte, EnCours
  <2>2. \A d \in Clients : EnCours(d) # <<>> => ~Ouvert(d)
    BY DEF EnCours
  <2>3. fermees \subseteq fermees'
    BY DEF IInv, Base, TypeOK, TypeOKSockets
  <2>4. \A d \in Clients : ~(EnCours(d) # <<>> /\ pc[d] = "read")
    BY <2>2 DEF Ouvert
  <2>5. QED
    BY <2>1, <2>3, <2>4, EchangesServeur
<1>3. Quitte'
  BY DEF Quitte, Ouvert
<1>4. QED
  BY <1>0, <1>1, <1>2, <1>3 DEF IInv

\* The line goes back whole.
LEMMA RepondreOuvertIInv ==
    ASSUME IInv, Repondre, Ouvert(descr[fds[i]])
    PROVE  IInv'
<1> DEFINE c == descr[fds[i]]
<1>0. /\ srv = "ecrire" /\ buf' = <<>>
      /\ vers_cli' = [vers_cli EXCEPT ![c] = @ \o buf]
      /\ Suite(nfds, revents)
      /\ UNCHANGED <<pc, lignes, recus, vers_srv, attente, fermees>>
      /\ UNCHANGED <<fds, nfds, nbr_clients, descr>>
  BY DEF Repondre, varsClients, varsFds
<1>1. i \in Utiles /\ i \in Cases /\ i \in Int /\ i >= 1 /\ c \in Clients /\ c \notin fermees
  <2>1. i \in Utiles /\ i \in Cases
    BY <1>0 DEF IInv, Base, Tour, Quitte, Utiles
  <2>2. i \in Int /\ i >= 1
    BY <2>1 DEF Cases
  <2>3. c \in Clients /\ c \notin fermees
    BY <1>0, <2>2, CaseDuTour DEF IInv
  <2>4. QED
    BY <2>1, <2>2, <2>3
<1>2. /\ srv' \in {"poll", "boucle"} /\ i' \in 0 .. nfds - 1
      /\ revents' \in [0 .. nfds - 1 -> Evenements]
      /\ srv' = "boucle" => i' = i + 1 /\ revents' = revents
  BY <1>0, SuiteBoucle DEF IInv
<1>3. buf = EnCours(c) /\ \A d \in Clients : EnCours(d)' = <<>> /\ (d # c => EnCours(d) = <<>>)
  BY <1>0 DEF EnCours
<1> HIDE DEF c
<1>4. TypeOK'
  <2>1. vers_cli[c] \o buf \in Seq(Messages) /\ <<>> \in Seq(Messages)
    BY <1>1, <1>3, Files, Jointe DEF IInv, Base
  <2>2. vers_cli' \in [Clients -> Seq(Messages)]
    BY <1>0, <2>1 DEF IInv, Base, TypeOK, TypeOKSockets
  <2>3. QED
    BY <1>0, <1>2, <2>1, <2>2 DEF IInv, Base, TypeOK, TypeOKSockets
<1>5. ASSUME NEW d \in Clients PROVE Echange(d)'
  <2>1. CASE d = c
    <3>1. /\ vers_cli'[d] = vers_cli[d] \o EnCours(d) /\ EnCours(d)' = <<>>
          /\ vers_cli[d] \in Seq(Messages) /\ EnCours(d) \in Seq(Messages)
      BY <1>0, <1>3, <2>1, Files DEF IInv, Base, TypeOK, TypeOKSockets
    <3>2. Reponses(d)' = Reponses(d) + Lues(d)
      <4>1. Len(vers_cli[d] \o EnCours(d)) = Len(vers_cli[d]) + Len(EnCours(d))
        BY <3>1, Jointe
      <4>2. QED
        BY <3>1, <4>1 DEF Reponses, Lues
    <3>3. Lues(d)' = 0 /\ Demandes(d)' = Demandes(d)
      BY <1>0, <3>1 DEF Lues, Demandes
    <3>4. EnAttente(d)' = EnAttente(d)
      <4>1. Reponses(d) \in Nat /\ Lues(d) \in Nat /\ Demandes(d) \in Nat
        BY Longueurs DEF IInv, Base
      <4>2. QED
        BY <3>2, <3>3, <4>1 DEF EnAttente
    <3>5. Recues(d)' = Recues(d) /\ Echange(d)
      BY <1>0 DEF Recues, IInv, Base, Echanges
    <3>6. QED
      BY <1>0, <3>1, <3>4, <3>5 DEF Echange
  <2>2. CASE d # c
    <3>1. Intact(d)
      BY <1>0, <1>3, <2>2 DEF Intact, IInv, Base, TypeOK, TypeOKSockets
    <3>2. QED
      BY <1>0, <3>1, EchangeIntact DEF IInv, Base, Echanges
  <2>3. QED
    BY <2>1, <2>2
<1>6. Base'
  BY <1>0, FinTourBase DEF IInv, varsFds
<1>7. QED
  BY <1>2, <1>4, <1>5, <1>6 DEF IInv, Echanges, Quitte

LEMMA LireIInv == ASSUME IInv, Lire PROVE IInv'
<1>1. CASE vers_srv[descr[fds[i]]] # <<>>
  BY <1>1, LireDonneesIInv
<1>2. CASE vers_srv[descr[fds[i]]] = <<>>
  <2>1. Lectures(vers_srv[descr[fds[i]]]) = {}
    BY <1>2 DEF Lectures
  <2>2. /\ ~Ouvert(descr[fds[i]]) /\ UNCHANGED varsServeur
        /\ \/ srv' = "ecrire" /\ UNCHANGED <<varsClients, varsSockets>>
           \/ Mourir
    BY <2>1 DEF Lire, LireCase
  <2>3. i \in Utiles /\ srv = "boucle"
    BY CaseDuTour DEF Lire, IInv
  <2>4. QED
    BY <2>2, <2>3, LireFinIInv, MourirIInv
<1>3. QED
  BY <1>1, <1>2

LEMMA RepondreIInv == ASSUME IInv, Repondre PROVE IInv'
<1>1. CASE Ouvert(descr[fds[i]])
  BY <1>1, RepondreOuvertIInv
<1>2. CASE ~Ouvert(descr[fds[i]])
  BY <1>2, MourirIInv DEF Repondre, IInv, Base, Tour, Quitte
<1>3. QED
  BY <1>1, <1>2

LEMMA NextIInv == IInv /\ [Next]_vars => IInv'
<1> SUFFICES ASSUME IInv, [Next]_vars PROVE IInv'
  OBVIOUS
<1>1. CASE serveur
  BY <1>1, EntreeIInv, LireIInv, RepondreIInv DEF serveur, EntreeSortie
<1>2. ASSUME NEW c \in Clients, unClient(c) PROVE IInv'
  BY <1>2, ConnecterIInv, FgetsIInv, EnvoyerIInv, RecevoirIInv DEF unClient, cli
<1>3. ASSUME NEW c \in Clients, interruption(c) PROVE IInv'
  BY <1>3, TuerIInv DEF interruption
<1>4. CASE UNCHANGED vars
  <2> USE <1>4 DEF vars, varsClients, varsSockets, varsServeur, varsFds
  <2>1. TypeOK' /\ Quitte'
    BY DEF IInv, TypeOK, TypeOKSockets, Quitte, Ouvert
  <2>2. \A d \in Clients : Intact(d) /\ pc'[d] = pc[d] /\ lignes'[d] = lignes[d]
    BY DEF Intact, EnCours
  <2>3. Echanges'
    BY <2>2, EchangeIntact DEF IInv, Echanges
  <2>4. Base'
    BY BaseIntacte DEF IInv
  <2>5. QED
    BY <2>1, <2>3, <2>4 DEF IInv
<1>5. QED
  BY <1>1, <1>2, <1>3, <1>4 DEF Next

LEMMA SpecIInv == Spec => []IInv
BY InitIInv, NextIInv, PTL DEF Spec

-----------------------------------------------------------------------------
(* The properties of the run srv_poll.                                      *)

\* srv_poll.c, the array fds: whatever a fresh slot holds, the slots in use and
\* the open descriptors correspond one to one, nbr_clients counts them, and no
\* connection is left open and forgotten.
THEOREM CasesCoherentesPoll == Spec => []CasesCoherentes
<1>1. IInv => CasesCoherentes
  BY BaseCoherente DEF IInv
<1>2. QED
  BY <1>1, SpecIInv, PTL

\* A step of a client keeps what the loop relies on.
LEMMA PretClient ==
    ASSUME IInv, Pret, UNCHANGED <<srv, varsServeur>>,
           \A d \in Clients : vers_srv[d] # <<>> => vers_srv'[d] # <<>>,
           \A d \in Clients : pc[d] = "tue" => pc'[d] = "tue"
    PROVE  Pret'
<1>1. /\ UNCHANGED <<srv, fds, nfds, nbr_clients, descr, revents, i, buf>>
      /\ Cases' = Cases /\ i \in Int /\ \A s \in Cases : s \in Int
  BY DEF varsServeur, varsFds, Cases, IInv, Base, TypeOKServeur
<1>2. ASSUME NEW s \in Cases, revents[s] = "POLLIN",
             (srv = "boucle" /\ s >= i) \/ (srv = "ecrire" /\ s > i)
      PROVE  vers_srv'[descr[fds[s]]] # <<>>
  <2>1. s \in Utiles /\ vers_srv[descr[fds[s]]] # <<>>
    <3>1. s >= i
      BY <1>1, <1>2
    <3>2. QED
      BY <1>2, <3>1 DEF IInv, Base, Tour, Quitte, Pret, Utiles
  <2>2. descr[fds[s]] \in Clients
    BY <2>1, CaseUtile DEF IInv, Base
  <2>3. QED
    BY <2>1, <2>2
<1>3. QED
  BY <1>1, <1>2 DEF Pret

LEMMA PretNext ==
    ASSUME "POLLIN" \notin Indefini, IInv, Pret, [Next]_vars
    PROVE  Pret'
<1>0. i \in Int /\ \A s \in Cases : s \in Int /\ s >= 1
  BY DEF IInv, Base, TypeOKServeur, Cases
<1>1. CASE Poll
  <2>1. srv' = "boucle" /\ Cases' = Cases /\ fds' = fds /\ descr' = descr /\ vers_srv' = vers_srv
    BY <1>1 DEF Poll, varsSockets, Cases
  <2>2. ASSUME NEW s \in Cases, revents'[s] = "POLLIN"
        PROVE  vers_srv[descr[fds[s]]] # <<>>
    <3>1. s # 0 /\ s \in 0 .. nfds - 1
      BY DEF Cases
    <3>2. Etat(descr[fds[s]]) = "POLLIN"
      BY <1>1, <2>2, <3>1 DEF Poll, Revents
    <3>3. QED
      BY <3>2 DEF Etat
  <2>3. QED
    BY <2>1, <2>2 DEF Pret
<1>2. CASE Accepter
  <2>1. PICK v \in Indefini : Suite(nfds + 1, Ajouter(revents, v))
    BY <1>2 DEF Accepter, Admettre
  <2>2. /\ i = 0 /\ srv = "boucle" /\ attente # <<>> /\ vers_srv' = vers_srv
        /\ nfds' = nfds + 1 /\ nfds \in Nat \ {0} /\ v # "POLLIN"
        /\ fds' = Ajouter(fds, Nouveau) /\ descr' = [descr EXCEPT ![Nouveau] = Head(attente)]
        /\ descr \in [Descripteurs -> Clients \cup {Libre}]
    BY <1>2, <2>1 DEF Accepter, Admettre, IInv, Base, TypeOKServeur, Tour, Quitte
  <2>3. srv' \in {"poll", "boucle"} /\ (srv' = "boucle" => i' = 1 /\ revents' = Ajouter(revents, v))
    BY <2>1, <2>2 DEF Suite
  <2>4. Nouveau \in Descripteurs /\ descr[Nouveau] = Libre
    BY <2>2, NouveauLibre DEF IInv
  <2>5. ASSUME srv' = "boucle", NEW s \in Cases', revents'[s] = "POLLIN"
        PROVE  vers_srv'[descr'[fds'[s]]] # <<>>
    <3>1. s \in Cases /\ s < nfds
      BY <2>2, <2>3, <2>5 DEF Cases, Ajouter
    <3>2. revents[s] = "POLLIN" /\ fds'[s] = fds[s] /\ s >= i
      BY <1>0, <2>2, <2>3, <2>5, <3>1 DEF Ajouter, Cases
    <3>3. s \in Utiles
      BY <2>2, <3>1, <3>2 DEF IInv, Base, Tour, Quitte, Utiles
    <3>4. descr'[fds[s]] = descr[fds[s]]
      BY <2>2, <2>4, <3>3, CaseUtile DEF IInv, Base, Servies
    <3>5. QED
      BY <2>2, <3>1, <3>2, <3>4 DEF Pret
  <2>6. QED
    BY <2>3, <2>5 DEF Pret
<1>3. CASE Refuser \/ Passer \/ Deconnecter
  <2>1. /\ srv = "boucle" /\ Suite(nfds, revents) /\ nfds' = nfds /\ vers_srv' = vers_srv
    BY <1>3 DEF Refuser, Passer, Deconnecter, varsSockets, varsFds
  <2>2. srv' \in {"poll", "boucle"} /\ (srv' = "boucle" => i' = i + 1 /\ revents' = revents)
    BY <2>1, SuiteBoucle DEF IInv
  <2>3. ASSUME srv' = "boucle", NEW s \in Cases, s >= i', revents'[s] = "POLLIN"
        PROVE  vers_srv[descr'[fds'[s]]] # <<>>
    <3>1. s >= i /\ s # i /\ revents[s] = "POLLIN"
      BY <1>0, <2>2, <2>3
    <3>2. s \in Utiles /\ vers_srv[descr[fds[s]]] # <<>>
      BY <2>1, <3>1 DEF Pret, IInv, Base, Tour, Quitte, Utiles
    <3>3. fds'[s] = fds[s] /\ descr'[fds[s]] = descr[fds[s]]
      <4>1. CASE Refuser \/ Passer
        BY <4>1 DEF Refuser, Passer, varsFds
      <4>2. CASE Deconnecter
        <5>1. i \in Utiles
          BY <4>2, CaseDuTour DEF Deconnecter, IInv
        <5>2. fds[i] # fds[s] /\ s \in 0 .. nfds - 1
          BY <3>1, <3>2, <5>1 DEF IInv, Base, CasesDescr, Cases
        <5>3. fds[s] \in Descripteurs
          BY <3>2, CaseUtile DEF IInv, Base
        <5>4. QED
          BY <3>1, <4>2, <5>2, <5>3 DEF Deconnecter, IInv, Base, TypeOKServeur
      <4>3. QED
        BY <1>3, <4>1, <4>2
    <3>4. QED
      BY <3>2, <3>3
  <2>4. QED
    BY <2>1, <2>2, <2>3 DEF Pret, Cases
<1>4. CASE Lire
  <2>1. i \in Utiles /\ i \in Cases /\ srv = "boucle" /\ i >= i
    BY <1>0, <1>4, CaseDuTour DEF Lire, IInv
  <2>2. vers_srv[descr[fds[i]]] # <<>>
    BY <1>4, <2>1 DEF Pret, Lire
  <2>3. /\ descr[fds[i]] \in Clients
        /\ vers_srv' = [vers_srv EXCEPT ![descr[fds[i]]] = <<>>]
        /\ buf' # <<>> /\ srv' = "ecrire"
        /\ UNCHANGED <<fds, nfds, nbr_clients, descr, revents, i>>
    BY <1>4, <2>2, LireCas
  <2>4. ASSUME NEW s \in Cases, s > i, revents[s] = "POLLIN"
        PROVE  vers_srv'[descr[fds[s]]] # <<>>
    <3>1. s >= i /\ s # i
      BY <1>0, <2>4
    <3>2. s \in Utiles /\ vers_srv[descr[fds[s]]] # <<>>
      BY <2>1, <2>4, <3>1 DEF Pret, IInv, Base, Tour, Quitte, Utiles
    <3>3. fds[s] # fds[i] /\ fds[s] \in Servies /\ fds[i] \in Servies
      BY <2>1, <3>1, <3>2, CaseUtile DEF IInv, Base, CasesDescr
    <3>4. descr[fds[s]] # descr[fds[i]] /\ descr[fds[s]] \in Clients
      BY <3>2, <3>3, CaseUtile DEF IInv, Base, Connexions
    <3>5. QED
      BY <2>3, <3>2, <3>4 DEF IInv, Base, TypeOK, TypeOKSockets
  <2>5. QED
    BY <2>3, <2>4 DEF Pret, Cases
<1>5. CASE Repondre /\ Ouvert(descr[fds[i]])
  <2>1. /\ srv = "ecrire" /\ Suite(nfds, revents)
        /\ UNCHANGED <<vers_srv, fds, nfds, descr>>
    BY <1>5 DEF Repondre, varsFds
  <2>2. srv' \in {"poll", "boucle"} /\ (srv' = "boucle" => i' = i + 1 /\ revents' = revents)
    BY <2>1, SuiteBoucle DEF IInv
  <2>3. ASSUME srv' = "boucle", NEW s \in Cases, s >= i', revents'[s] = "POLLIN"
        PROVE  vers_srv[descr[fds[s]]] # <<>>
    <3>1. s > i
      BY <1>0, <2>2, <2>3
    <3>2. QED
      BY <2>1, <2>2, <2>3, <3>1 DEF Pret
  <2>4. QED
    BY <2>1, <2>2, <2>3 DEF Pret, Cases
<1>6. CASE Repondre /\ ~Ouvert(descr[fds[i]])
  <2>1. srv = "ecrire" /\ srv' = "mort" /\ pc' = pc
    BY <1>6 DEF Repondre, Mourir, varsClients
  <2>2. i \in Utiles /\ buf # <<>>
    BY <2>1 DEF IInv, Base, Tour, Quitte, Pret
  <2>3. descr[fds[i]] \in Clients /\ EnCours(descr[fds[i]]) # <<>>
    BY <2>1, <2>2, CaseUtile DEF IInv, Base, EnCours
  <2>4. pc[descr[fds[i]]] = "tue"
    BY <1>6, <2>3 DEF IInv, Base, Echanges, Echange, Ouvert
  <2>5. QED
    BY <2>1, <2>3, <2>4 DEF Pret
<1>7. ASSUME NEW c \in Clients, unClient(c) \/ interruption(c) PROVE Pret'
  <2>1. srv' = srv /\ UNCHANGED varsServeur
    BY <1>7 DEF unClient, cli, interruption, Tuer
  <2>2. pc \in [Clients -> {"connect", "fgets", "write", "read", "fini", "tue"}]
        /\ vers_srv \in [Clients -> Seq(Messages)]
    BY DEF IInv, Base, TypeOK, TypeOKSockets
  <2>3. \A d \in Clients : pc[d] = "tue" => pc'[d] = "tue"
    BY <1>7, <2>2
       DEF unClient, cli, interruption, Connecter, Fgets, Envoyer, Recevoir, Tuer, Ouvert, Aller
  <2>4. \/ vers_srv' = vers_srv
        \/ vers_srv' = [vers_srv EXCEPT ![c] = Append(@, <<c, lignes[c]>>)]
    BY <1>7 DEF unClient, cli, interruption, Connecter, Fgets, Envoyer, Recevoir, Tuer, varsSockets
  <2>5. ASSUME NEW d \in Clients, vers_srv[d] # <<>> PROVE vers_srv'[d] # <<>>
    <3>1. CASE d = c
      <4>1. vers_srv[c] \in Seq(Messages)
        BY <2>2
      <4>2. Append(vers_srv[c], <<c, lignes[c]>>) # <<>>
        <5>1. Len(Append(vers_srv[c], <<c, lignes[c]>>)) = Len(vers_srv[c]) + 1
          BY <4>1
        <5>2. Len(vers_srv[c]) \in Nat /\ Len(<<>>) = 0
          BY <4>1
        <5>3. QED
          BY <5>1, <5>2
      <4>3. QED
        BY <2>2, <2>4, <2>5, <3>1, <4>2
    <3>2. CASE d # c
      BY <2>2, <2>4, <2>5, <3>2
    <3>3. QED
      BY <3>1, <3>2
  <2>6. QED
    BY <2>1, <2>3, <2>5, PretClient
<1>8. CASE UNCHANGED vars
  BY <1>8 DEF vars, varsClients, varsSockets, varsServeur, varsFds, Pret, Cases
<1>9. QED
  BY <1>1, <1>2, <1>3, <1>4, <1>5, <1>6, <1>7, <1>8 DEF Next, serveur, EntreeSortie

LEMMA SpecPret ==
    ASSUME "POLLIN" \notin Indefini
    PROVE  Spec => []Pret
<1>1. Init => Pret
  BY DEF Init, InitServeur, Pret
<1>2. IInv /\ Pret /\ [Next]_vars => Pret'
  BY PretNext
<1>3. QED
  BY <1>1, <1>2, SpecIInv, PTL DEF Spec

\* The read of srv_poll.c never waits for a client, unless the slot that
\* realloc gives happens to hold POLLIN in its member revents.
THEOREM LecturePoll == "POLLIN" \notin Indefini => (Spec => []LectureSansBlocage)
<1> SUFFICES ASSUME "POLLIN" \notin Indefini PROVE Spec => []LectureSansBlocage
  OBVIOUS
<1>1. IInv /\ Pret => LectureSansBlocage
  <2> SUFFICES ASSUME IInv, Pret, srv = "boucle", i # 0, revents[i] = "POLLIN"
               PROVE  fds[i] # -1 /\ vers_srv[descr[fds[i]]] # <<>>
    BY DEF LectureSansBlocage
  <2>1. i \in Utiles /\ i \in Cases /\ i >= i
    BY CaseDuTour DEF IInv, Base, TypeOKServeur
  <2>2. QED
    BY <2>1 DEF Pret, Utiles
<1>2. QED
  BY <1>1, SpecIInv, SpecPret, PTL

\* srv_poll.c exits only when it answers a client that was interrupted, with
\* the same reserve.
THEOREM MortPoll == "POLLIN" \notin Indefini => (Spec => []MortParInterruption)
<1> SUFFICES ASSUME "POLLIN" \notin Indefini PROVE Spec => []MortParInterruption
  OBVIOUS
<1>1. IInv /\ Pret => MortParInterruption
  BY DEF IInv, Base, Pret, MortParInterruption
<1>2. QED
  BY <1>1, SpecIInv, SpecPret, PTL

-----------------------------------------------------------------------------
(* The refinement.                                                          *)

\* The sequence that stands for the lines sent by c.
Flux(c) == recus[c] \o vers_cli[c] \o EnCours(c) \o vers_srv[c]

LEMMA Une ==
    ASSUME NEW T, NEW r \in Seq(T), NEW q \in Seq(T)
    PROVE  /\ r \o q \o <<>> \o <<>> = r \o q
           /\ r \o <<>> \o q \o <<>> = r \o q
           /\ r \o <<>> \o <<>> \o q = r \o q
           /\ r \o <<>> \o <<>> \o <<>> = r
<1>1. r \o <<>> = r /\ r \o q \in Seq(T)
  OBVIOUS
<1>2. (r \o q) \o <<>> = r \o q
  BY <1>1
<1>3. QED
  BY <1>1, <1>2

LEMMA FluxIntact ==
    ASSUME NEW c, Intact(c)
    PROVE  Flux(c)' = Flux(c)
BY DEF Intact, Flux

\* A step that hands no line over and brings none is a stutter.
LEMMA Begaiement ==
    ASSUME \A c \in Clients : Flux(c)' = Flux(c), recus' = recus
    PROVE  UNCHANGED EchoDe!vars
BY DEF EchoDe!vars, Flux

\* write of a client is the step Envoyer of Echo, unless it fails.
LEMMA EnvoyerEcho ==
    ASSUME IInv, IInv', NEW c \in Clients, Envoyer(c), UNCHANGED <<srv, varsServeur>>
    PROVE  EchoDe!Envoyer(c) \/ UNCHANGED EchoDe!vars
<1> USE DEF Envoyer, varsServeur, varsFds
<1>1. recus' = recus /\ \A d \in Clients : EnCours(d)' = EnCours(d)
  BY DEF EnCours
<1>2. CASE c \in fermees
  BY <1>1, <1>2, Begaiement, FluxIntact DEF Intact
<1>3. CASE c \notin fermees
  <2>1. /\ EnAttente(c) = 0 /\ lignes[c] = Recues(c) + 1
        /\ vers_cli[c] = <<>> /\ EnCours(c) = <<>> /\ vers_srv[c] = <<>>
    <3>1. EnAttente(c) = 0 /\ lignes[c] = Recues(c) + 1
      BY DEF IInv, Base, Echanges, Echange
    <3>2. QED
      BY <3>1, Longueurs DEF IInv, Base, EnAttente
  <2>2. /\ vers_srv' = [vers_srv EXCEPT ![c] = Append(@, <<c, lignes[c]>>)]
        /\ vers_srv \in [Clients -> Seq(Messages)] /\ vers_cli' = vers_cli
    BY <1>3 DEF IInv, Base, TypeOK, TypeOKSockets
  <2>3. vers_srv'[c] = <<<<c, lignes[c]>>>> /\ vers_srv'[c] # <<>>
    BY <2>1, <2>2
  <2>4. Flux(c) = recus[c]
    <3>1. recus[c] \in Seq(Messages)
      BY Files DEF IInv, Base
    <3>2. recus[c] \o <<>> \o <<>> \o <<>> = recus[c]
      BY <3>1, Une
    <3>3. QED
      BY <2>1, <3>2 DEF Flux
  <2>5. Flux(c)' = recus[c] \o <<<<c, lignes[c]>>>>
    <3>1. EnCours(c)' = <<>> /\ vers_cli'[c] = <<>> /\ recus'[c] = recus[c]
      BY <1>1, <2>1, <2>2
    <3>2. recus[c] \in Seq(Messages) /\ <<<<c, lignes[c]>>>> \in Seq(Messages)
      <4>1. vers_srv'[c] \in Seq(Messages)
        BY DEF IInv, Base, TypeOK, TypeOKSockets
      <4>2. QED
        BY <2>3, <4>1, Files DEF IInv, Base
    <3>3. recus[c] \o <<>> \o <<>> \o <<<<c, lignes[c]>>>> = recus[c] \o <<<<c, lignes[c]>>>>
      BY <3>2, Une
    <3>4. QED
      BY <2>3, <3>1, <3>3 DEF Flux
  <2>6. Flux(c)' = Append(Flux(c), <<c, Len(Flux(c)) + 1>>)
    <3>1. recus[c] \in Seq(Messages)
      BY Files DEF IInv, Base
    <3>2. QED
      BY <2>1, <2>4, <2>5, <3>1 DEF Recues
  <2>7. \A d \in Clients \ {c} : Flux(d)' = Flux(d)
    BY <1>1, <2>2, FluxIntact DEF Intact
  <2>8. QED
    BY <1>1, <2>4, <2>6, <2>7 DEF EchoDe!Envoyer, Flux
<1>4. QED
  BY <1>2, <1>3

\* read of a client is the step Recevoir of Echo, unless it fails.
LEMMA RecevoirEcho ==
    ASSUME IInv, IInv', NEW c \in Clients, Recevoir(c), UNCHANGED <<srv, varsServeur>>
    PROVE  EchoDe!Recevoir(c) \/ UNCHANGED EchoDe!vars
<1>1. vers_srv' = vers_srv /\ \A d \in Clients : EnCours(d)' = EnCours(d)
  BY DEF EnCours, Recevoir, varsServeur, varsFds
<1>2. CASE UNCHANGED <<recus, vers_cli>>
  BY <1>1, <1>2, Begaiement, FluxIntact DEF Intact
<1>3. CASE /\ Reponses(c) = 1 /\ vers_srv[c] = <<>>
           /\ recus' = [recus EXCEPT ![c] = @ \o vers_cli[c]]
           /\ vers_cli' = [vers_cli EXCEPT ![c] = <<>>]
  <2>1. /\ recus \in [Clients -> Seq(Messages)] /\ vers_cli \in [Clients -> Seq(Messages)]
        /\ recus[c] \in Seq(Messages) /\ vers_cli[c] \in Seq(Messages)
    BY Files DEF IInv, Base, TypeOK, TypeOKSockets
  <2>2. EnCours(c) = <<>> /\ EnAttente(c) = 1
    BY <1>3, RecevoirCas
  <2>3. Flux(c) = recus[c] \o vers_cli[c]
    <3>1. recus[c] \o vers_cli[c] \o <<>> \o <<>> = recus[c] \o vers_cli[c]
      BY <2>1, Une
    <3>2. QED
      BY <1>3, <2>2, <3>1 DEF Flux
  <2>4. recus'[c] = Flux(c)
    BY <1>3, <2>1, <2>3
  <2>5. Flux(c)' = recus'[c]
    <3>1. vers_cli'[c] = <<>> /\ EnCours(c)' = <<>> /\ vers_srv'[c] = <<>>
      BY <1>1, <1>3, <2>1, <2>2
    <3>2. recus'[c] \in Seq(Messages)
      BY <1>3, <2>1, Jointe
    <3>3. recus'[c] \o <<>> \o <<>> \o <<>> = recus'[c]
      BY <3>2, Une
    <3>4. QED
      BY <3>1, <3>3 DEF Flux
  <2>6. \A d \in Clients \ {c} : Flux(d)' = Flux(d)
    BY <1>1, <1>3, <2>1, FluxIntact DEF Intact
  <2>7. recus[c] # Flux(c)
    <3>1. Len(recus[c] \o vers_cli[c]) = Len(recus[c]) + Len(vers_cli[c])
      BY <2>1, Jointe
    <3>2. Recues(c) \in Nat
      BY Longueurs DEF IInv, Base
    <3>3. Len(Flux(c)) = Recues(c) + 1
      BY <1>3, <2>3, <3>1 DEF Reponses, Recues
    <3>4. QED
      BY <3>2, <3>3 DEF Recues
  <2>8. recus' = [recus EXCEPT ![c] = Flux(c)]
    BY <1>3, <2>1, <2>3
  <2>9. \A d \in Clients : Flux(d)' = Flux(d)
    BY <2>4, <2>5, <2>6
  <2>10. QED
    BY <2>7, <2>8, <2>9 DEF EchoDe!Recevoir, Flux
<1>4. QED
  BY <1>2, <1>3, RecevoirCas

\* The server only moves a line from one of its sides to the other.
LEMMA ServeurEcho ==
    ASSUME IInv, serveur
    PROVE  UNCHANGED EchoDe!vars
<1>0. \A c \in Clients : EnAttente(c) <= 1
  BY DEF IInv, Base, Echanges, Echange
<1>1. CASE Lire /\ vers_srv[descr[fds[i]]] # <<>>
  <2>p. descr[fds[i]] \in Clients
    BY <1>1, LireCas DEF Lire, IInv, Base, Tour, Quitte
  <2>c. PICK c \in Clients : c = descr[fds[i]]
    BY <2>p
  <2>0. /\ c \in Clients /\ buf' = vers_srv[c] /\ buf' # <<>> /\ srv' = "ecrire"
        /\ vers_srv' = [vers_srv EXCEPT ![c] = <<>>]
        /\ EnCours(c) = <<>> /\ vers_cli[c] = <<>> /\ buf = <<>>
        /\ UNCHANGED <<recus, vers_cli, fds, descr, i>>
    BY <1>1, <2>c, LireCas DEF Lire, IInv, Base, Tour, Quitte
  <2>1. EnCours(c)' = vers_srv[c] /\ \A d \in Clients \ {c} : EnCours(d)' = EnCours(d)
    BY <2>c, <2>0 DEF EnCours
  <2>2. \A d \in Clients \ {c} : Flux(d)' = Flux(d)
    BY <2>0, <2>1, FluxIntact DEF Intact, IInv, Base, TypeOK, TypeOKSockets
  <2>3. Flux(c)' = Flux(c)
    <3>1. recus[c] \in Seq(Messages) /\ vers_srv[c] \in Seq(Messages)
      BY <2>0, Files DEF IInv, Base
    <3>2. /\ recus[c] \o <<>> \o <<>> \o vers_srv[c] = recus[c] \o vers_srv[c]
          /\ recus[c] \o <<>> \o vers_srv[c] \o <<>> = recus[c] \o vers_srv[c]
      BY <3>1, Une
    <3>3. vers_srv'[c] = <<>> /\ vers_cli'[c] = <<>> /\ recus'[c] = recus[c]
      BY <2>0 DEF IInv, Base, TypeOK, TypeOKSockets
    <3>4. QED
      BY <2>0, <2>1, <3>2, <3>3 DEF Flux
  <2>4. QED
    BY <2>0, <2>2, <2>3, Begaiement
<1>2. CASE Repondre /\ Ouvert(descr[fds[i]])
  <2>p. descr[fds[i]] \in Clients
    BY <1>2, CaseUtile DEF Repondre, IInv, Base, Tour, Quitte
  <2>c. PICK c \in Clients : c = descr[fds[i]]
    BY <2>p
  <2>0. /\ vers_cli' = [vers_cli EXCEPT ![c] = @ \o buf] /\ buf' = <<>>
        /\ UNCHANGED <<recus, vers_srv, fds, nfds, nbr_clients, descr>>
        /\ srv = "ecrire" /\ c \in Clients
    BY <1>2, <2>c DEF Repondre, varsFds, varsClients
  <2>1. buf = EnCours(c) /\ \A d \in Clients : EnCours(d)' = <<>> /\ (d # c => EnCours(d) = <<>>)
    BY <2>c, <2>0 DEF EnCours
  <2>2. \A d \in Clients \ {c} : Flux(d)' = Flux(d)
    BY <2>0, <2>1, FluxIntact DEF Intact, IInv, Base, TypeOK, TypeOKSockets
  <2>3. Flux(c)' = Flux(c)
    <3>1. CASE EnCours(c) = <<>>
      <4>1. vers_cli[c] \in Seq(Messages) /\ vers_cli[c] \o <<>> = vers_cli[c]
        BY <2>0, Files DEF IInv, Base
      <4>2. /\ vers_cli'[c] = vers_cli[c] /\ EnCours(c)' = EnCours(c)
            /\ vers_srv'[c] = vers_srv[c] /\ recus'[c] = recus[c]
        BY <2>0, <2>1, <3>1, <4>1 DEF IInv, Base, TypeOK, TypeOKSockets
      <4>3. QED
        BY <3>1, <4>2 DEF Flux
    <3>2. CASE EnCours(c) # <<>>
      <4>1. vers_cli[c] = <<>> /\ vers_srv[c] = <<>>
        <5>1. TypeOK /\ TypeOKServeur
          BY DEF IInv, Base
        <5>2. /\ Reponses(c) \in Nat /\ Lues(c) \in Nat /\ Demandes(c) \in Nat
              /\ Reponses(c) = 0 <=> vers_cli[c] = <<>>
              /\ Lues(c) = 0 <=> EnCours(c) = <<>>
              /\ Demandes(c) = 0 <=> vers_srv[c] = <<>>
          BY <2>0, <5>1, Longueurs
        <5>3. QED
          BY <1>0, <2>0, <3>2, <5>2 DEF EnAttente
      <4>2. recus[c] \in Seq(Messages) /\ EnCours(c) \in Seq(Messages)
        BY <2>0, Files DEF IInv, Base
      <4>3. /\ vers_cli'[c] = EnCours(c) /\ EnCours(c)' = <<>>
            /\ vers_srv'[c] = <<>> /\ recus'[c] = recus[c]
        BY <2>0, <2>1, <4>1, <4>2 DEF IInv, Base, TypeOK, TypeOKSockets
      <4>4. /\ recus[c] \o <<>> \o EnCours(c) \o <<>> = recus[c] \o EnCours(c)
            /\ recus[c] \o EnCours(c) \o <<>> \o <<>> = recus[c] \o EnCours(c)
        BY <4>2, Une
      <4>5. QED
        BY <4>1, <4>3, <4>4 DEF Flux
    <3>3. QED
      BY <3>1, <3>2
  <2>4. QED
    BY <2>0, <2>2, <2>3, Begaiement
<1>3. CASE \/ Poll \/ Accepter \/ Refuser \/ Deconnecter \/ Passer
           \/ Lire /\ vers_srv[descr[fds[i]]] = <<>>
           \/ Repondre /\ ~Ouvert(descr[fds[i]])
  <2>1. recus' = recus /\ vers_cli' = vers_cli /\ vers_srv' = vers_srv
    <3>1. vers_srv[descr[fds[i]]] = <<>> => Lectures(vers_srv[descr[fds[i]]]) = {}
      BY DEF Lectures
    <3>2. QED
      BY <1>3, <3>1 DEF Poll, Accepter, Admettre, Refuser, Deconnecter, Passer, Lire, LireCase,
                        Repondre, Mourir, varsClients, varsSockets
  <2>2. \A c \in Clients : EnCours(c)' = EnCours(c)
    <3>1. CASE ~Repondre
      <4>1. Lectures(<<>>) = {}
        BY DEF Lectures
      <4>2. buf = <<>> /\ buf' = <<>>
        BY <1>3, <3>1, <4>1
           DEF Poll, Accepter, Admettre, Refuser, Deconnecter, Passer, Lire, LireCase,
               varsServeur, IInv, Base, Tour, Quitte
      <4>3. QED
        BY <4>2, HorsEcriture
    <3>2. CASE Repondre /\ ~Ouvert(descr[fds[i]])
      BY <3>2 DEF Repondre, Mourir, varsServeur, varsFds, EnCours
    <3>3. CASE Repondre /\ Ouvert(descr[fds[i]])
      BY <1>3, <3>3
         DEF Repondre, Poll, Accepter, Admettre, Refuser, Deconnecter, Passer, Lire
    <3>4. QED
      BY <3>1, <3>2, <3>3
  <2>3. QED
    BY <2>1, <2>2, FluxIntact, Begaiement DEF Intact
<1>4. QED
  BY <1>1, <1>2, <1>3 DEF serveur, EntreeSortie

\* srv_poll.c sends back to each client what it has sent: in order, each line
\* once, nothing else, whatever a fresh slot holds.
THEOREM RaffinementPoll == Spec => RaffineEcho
<1>1. Init => EchoDe!Init
  BY DEF Init, InitServeur, InitSockets, EchoDe!Init, EnCours
<1>2. ASSUME IInv, IInv', [Next]_vars
      PROVE  [\E c \in Clients : EchoDe!Envoyer(c) \/ EchoDe!Recevoir(c)]_(EchoDe!vars)
  <2>1. CASE serveur
    BY <1>2, <2>1, ServeurEcho
  <2>2. ASSUME NEW c \in Clients, unClient(c)
        PROVE  EchoDe!Envoyer(c) \/ EchoDe!Recevoir(c) \/ UNCHANGED EchoDe!vars
    <3>1. CASE Connecter(c) \/ Fgets(c)
      BY <2>2, <3>1, Begaiement, FluxIntact
         DEF Connecter, Fgets, varsSockets, varsServeur, varsFds, unClient, cli, Intact, EnCours
    <3>2. QED
      BY <1>2, <2>2, <3>1, EnvoyerEcho, RecevoirEcho DEF unClient, cli
  <2>3. ASSUME NEW c \in Clients, interruption(c)
        PROVE  UNCHANGED EchoDe!vars
    BY <2>3, Begaiement, FluxIntact
       DEF interruption, Tuer, varsSockets, varsServeur, varsFds, Intact, EnCours
  <2>4. CASE UNCHANGED vars
    BY <2>4, Begaiement, FluxIntact
       DEF vars, varsClients, varsSockets, varsServeur, varsFds, Intact, EnCours
  <2>5. QED
    BY <1>2, <2>1, <2>2, <2>3, <2>4 DEF Next
<1>3. QED
  BY <1>1, <1>2, SpecIInv, PTL DEF Spec, RaffineEcho, EchoDe!Spec

-----------------------------------------------------------------------------
(* srv_chat.c: the inductive invariant.                                     *)

USE ChatAssumption

\* The last line of c that has been sent, or could not be.
Envoyees(c) == IF pc[c] = "write" THEN lignes[c] - 1 ELSE lignes[c]

\* The lines of the author of b in the messages q come before b.
Avant(q, b) ==
    \A a \in DOMAIN q : \A k \in DOMAIN q[a].texte :
        q[a].texte[k][1] = b[1] => q[a].texte[k][2] < b[2]

\* The lines of an author follow one another.
EnOrdre(q) ==
    \A a, b \in DOMAIN q : \A k \in DOMAIN q[a].texte, l \in DOMAIN q[b].texte :
        q[a].texte[k][1] = q[b].texte[l][1] /\ (a < b \/ (a = b /\ k < l))
            => q[a].texte[k][2] < q[b].texte[l][2]

\* Lines of x that have been sent, in order.
Croissantes(q, x) ==
    /\ \A k \in DOMAIN q : q[k][1] = x /\ q[k][2] <= Envoyees(x)
    /\ \A k, l \in DOMAIN q : k < l => q[k][2] < q[l][2]

TypesChat ==
    /\ TypeOKSockets(Diffusions)
    /\ \A c \in Clients : pc[c] = "write" => lignes[c] >= 1
    /\ j \in 1 .. nfds /\ (srv \in {"poll", "boucle"} => j = 1)

\* The client of each slot, whether it is still there or not.  A slot is never
\* used again, so that its number is that of one client.
Auteurs(A) ==
    /\ A \in [Cases -> Clients]
    /\ \A s, u \in Cases : A[s] = A[u] => s = u
    /\ \A s \in Cases : pc[A[s]] # "connect" /\ attente # <<A[s]>>
    /\ \A s \in Utiles : A[s] = descr[fds[s]]

\* What c is sent comes from the client of the slot that it names, and not from c.
Signe(m, A, c) ==
    /\ m.de - 1 \in Cases /\ A[m.de - 1] # c /\ m.coupe = (m.de >= DIX)
    /\ \A k \in DOMAIN m.texte : m.texte[k][1] = A[m.de - 1]

Signatures(A) == \A c \in Clients : \A a \in DOMAIN Destine(c) : Signe(Destine(c)[a], A, c)

\* A line is, in this order, with its author, on the way to the server, in its
\* buffer and with those that are sent it, and the lines of an author keep their
\* order on this way.
OrdreChat ==
    /\ \A x \in Clients : Croissantes(vers_srv[x], x)
    /\ \A c \in Clients : EnOrdre(Destine(c))
    /\ \A c, x \in Clients :
           /\ Avant(Destine(c), <<x, Envoyees(x) + 1>>)
           /\ \A l \in DOMAIN vers_srv[x] : Avant(Destine(c), vers_srv[x][l])

\* The message that is being sent: it is older than what waits, and newer than
\* what those that will still be sent it have.
OrdreTampon ==
    srv = "ecrire" =>
        LET x == descr[fds[i]] IN
        /\ Croissantes(buf, x)
        /\ \A k \in DOMAIN buf : \A l \in DOMAIN vers_srv[x] : buf[k][2] < vers_srv[x][l][2]
        /\ \A k \in DOMAIN buf : \A s \in Utiles :
               s >= j => Avant(Destine(descr[fds[s]]), buf[k])

InvChat ==
    /\ Base /\ TypesChat /\ OrdreChat /\ OrdreTampon
    /\ \E A \in [Cases -> Clients] : Auteurs(A) /\ Signatures(A)

-----------------------------------------------------------------------------
(* Messages and lines.                                                      *)

LEMMA LigneType ==
    ASSUME NEW q \in Seq(Diffusions), NEW a \in DOMAIN q, NEW k \in DOMAIN q[a].texte
    PROVE  /\ q[a] \in Diffusions /\ q[a].texte[k] \in Messages
           /\ q[a].texte[k][1] \in Clients /\ q[a].texte[k][2] \in Int
<1>1. q[a] \in Diffusions
  OBVIOUS
<1>2. q[a].texte \in Seq(Messages)
  BY <1>1 DEF Diffusions
<1>3. q[a].texte[k] \in Messages
  BY <1>2
<1>4. QED
  BY <1>1, <1>3 DEF Messages

\* What is true of the messages of q and of one more is true of the longer queue.
LEMMA UnDePlus ==
    ASSUME NEW T, NEW q \in Seq(T), NEW m \in T
    PROVE  /\ Append(q, m) \in Seq(T) /\ Len(q) \in Nat
           /\ DOMAIN q = 1 .. Len(q) /\ DOMAIN Append(q, m) = 1 .. Len(q) + 1
           /\ Append(q, m)[Len(q) + 1] = m
           /\ \A a \in DOMAIN q : a # Len(q) + 1 /\ Append(q, m)[a] = q[a]
           /\ \A a \in DOMAIN Append(q, m) : a = Len(q) + 1 \/ a \in DOMAIN q
OBVIOUS

LEMMA AvantAjout ==
    ASSUME NEW q \in Seq(Diffusions), NEW m \in Diffusions, NEW b, Avant(q, b),
           \A k \in DOMAIN m.texte : m.texte[k][1] = b[1] => m.texte[k][2] < b[2]
    PROVE  Avant(Append(q, m), b)
<1> DEFINE r == Append(q, m)
<1>1. /\ r[Len(q) + 1] = m
      /\ \A a \in DOMAIN q : r[a] = q[a]
      /\ \A a \in DOMAIN r : a = Len(q) + 1 \/ a \in DOMAIN q
  BY UnDePlus
<1> HIDE DEF r
<1>2. Avant(r, b)
  <2> SUFFICES ASSUME NEW a \in DOMAIN r, NEW k \in DOMAIN r[a].texte, r[a].texte[k][1] = b[1]
               PROVE  r[a].texte[k][2] < b[2]
    BY DEF Avant
  <2>1. CASE a = Len(q) + 1
    BY <1>1, <2>1
  <2>2. CASE a \in DOMAIN q
    BY <1>1, <2>2 DEF Avant
  <2>3. QED
    BY <1>1, <2>1, <2>2
<1>3. QED
  BY <1>2 DEF r

LEMMA OrdreAjout ==
    ASSUME NEW q \in Seq(Diffusions), NEW m \in Diffusions, EnOrdre(q),
           \A k \in DOMAIN m.texte : Avant(q, m.texte[k]),
           \A k, l \in DOMAIN m.texte : k < l => m.texte[k][2] < m.texte[l][2]
    PROVE  EnOrdre(Append(q, m))
<1> DEFINE r == Append(q, m)
           n == Len(q)
<1>1. /\ n \in Nat /\ r[n + 1] = m
      /\ \A a \in DOMAIN q : a \in 1 .. n /\ r[a] = q[a]
      /\ \A a \in DOMAIN r : a = n + 1 \/ a \in DOMAIN q
  BY UnDePlus
<1> HIDE DEF r, n
<1>2. EnOrdre(r)
  <2> SUFFICES ASSUME NEW a \in DOMAIN r, NEW b \in DOMAIN r,
                      NEW k \in DOMAIN r[a].texte, NEW l \in DOMAIN r[b].texte,
                      r[a].texte[k][1] = r[b].texte[l][1], a < b \/ (a = b /\ k < l)
               PROVE  r[a].texte[k][2] < r[b].texte[l][2]
    BY DEF EnOrdre
  <2>1. CASE a \in DOMAIN q /\ b \in DOMAIN q
    BY <1>1, <2>1 DEF EnOrdre
  <2>2. CASE a \in DOMAIN q /\ b = n + 1
    BY <1>1, <2>2 DEF Avant
  <2>3. CASE a = n + 1
    <3>1. ~(n + 1 < b)
      BY <1>1
    <3>2. b = a /\ k < l
      BY <2>3, <3>1
    <3>3. QED
      BY <1>1, <2>3, <3>2
  <2>4. QED
    BY <1>1, <2>1, <2>2, <2>3
<1>3. QED
  BY <1>2 DEF r

LEMMA AvantPlus ==
    ASSUME NEW q \in Seq(Diffusions), NEW x, NEW n \in Int, NEW p \in Int, n <= p,
           Avant(q, <<x, n>>)
    PROVE  Avant(q, <<x, p>>)
<1> SUFFICES ASSUME NEW a \in DOMAIN q, NEW k \in DOMAIN q[a].texte, q[a].texte[k][1] = x
             PROVE  q[a].texte[k][2] < p
  BY DEF Avant
<1>1. q[a].texte[k][2] \in Int
  BY LigneType
<1>2. q[a].texte[k][2] < n
  BY DEF Avant
<1>3. QED
  BY <1>1, <1>2

\* What a read takes, and what it leaves.
LEMMA LectureCas ==
    ASSUME NEW T, NEW q \in Seq(T), NEW lu \in Lectures(q)
    PROVE  /\ lu \in Seq(T) /\ Reste(q, lu) \in Seq(T) /\ Len(lu) \in 1 .. Len(q) /\ Len(q) \in Nat
           /\ \A k \in DOMAIN lu : k \in 1 .. Len(lu) /\ k \in DOMAIN q /\ lu[k] = q[k]
           /\ \A l \in DOMAIN Reste(q, lu) :
                  /\ l \in Nat \ {0} /\ l + Len(lu) \in DOMAIN q
                  /\ Reste(q, lu)[l] = q[l + Len(lu)]
           /\ Len(Reste(q, lu)) = Len(q) - Len(lu)
<1>1. PICK n \in 1 .. Len(q) : lu = SubSeq(q, 1, n)
  BY DEF Lectures
<1>2. /\ lu \in Seq(T) /\ Len(lu) = n /\ DOMAIN lu = 1 .. n
      /\ \A k \in 1 .. n : lu[k] = q[k]
  BY <1>1
<1>3. Len(q) \in Nat /\ DOMAIN q = 1 .. Len(q)
  OBVIOUS
<1> DEFINE r == SubSeq(q, n + 1, Len(q))
<1>4. /\ r \in Seq(T) /\ Len(r) = Len(q) - n /\ DOMAIN r = 1 .. Len(q) - n
      /\ \A l \in 1 .. Len(q) - n : r[l] = q[l + n]
  OBVIOUS
<1>5. Reste(q, lu) = r
  BY <1>2 DEF Reste
<1> HIDE DEF r
<1>6. \A k \in DOMAIN lu : k \in 1 .. Len(lu) /\ k \in DOMAIN q /\ lu[k] = q[k]
  BY <1>2, <1>3
<1>7. \A l \in DOMAIN r : l \in Nat \ {0} /\ l + Len(lu) \in DOMAIN q /\ r[l] = q[l + Len(lu)]
  BY <1>2, <1>3, <1>4
<1>8. Len(r) = Len(q) - Len(lu) /\ Len(lu) \in 1 .. Len(q)
  BY <1>2, <1>3, <1>4
<1>9. QED
  BY <1>2, <1>3, <1>4, <1>5, <1>6, <1>7, <1>8

\* A read moves what it takes, and a write adds at the end.
LEMMA LectureDestine ==
    ASSUME NEW T, NEW p \in Seq(T), NEW q \in Seq(T), NEW lu \in Lectures(q)
    PROVE  (p \o lu) \o Reste(q, lu) = p \o q
<1> DEFINE r == Reste(q, lu)
<1>1. /\ lu \in Seq(T) /\ r \in Seq(T) /\ Len(lu) \in 1 .. Len(q) /\ Len(q) \in Nat
      /\ \A k \in DOMAIN lu : k \in DOMAIN q /\ lu[k] = q[k]
      /\ \A l \in DOMAIN r : l + Len(lu) \in DOMAIN q /\ r[l] = q[l + Len(lu)]
      /\ Len(r) = Len(q) - Len(lu)
  BY LectureCas
<1> HIDE DEF r
<1>2. lu \o r = q
  <2>1. /\ Len(lu \o r) = Len(q) /\ lu \o r \in Seq(T)
        /\ \A k \in 1 .. Len(q) : (lu \o r)[k] = IF k <= Len(lu) THEN lu[k] ELSE r[k - Len(lu)]
    BY <1>1
  <2>2. ASSUME NEW k \in 1 .. Len(q) PROVE (lu \o r)[k] = q[k]
    <3>1. CASE k <= Len(lu)
      <4>1. k \in DOMAIN lu
        BY <1>1, <3>1
      <4>2. QED
        BY <1>1, <2>1, <3>1, <4>1
    <3>2. CASE k > Len(lu)
      <4>1. k - Len(lu) \in DOMAIN r /\ (k - Len(lu)) + Len(lu) = k
        BY <1>1, <3>2
      <4>2. r[k - Len(lu)] = q[k]
        BY <1>1, <4>1
      <4>3. (lu \o r)[k] = r[k - Len(lu)]
        BY <1>1, <2>1, <3>2
      <4>4. QED
        BY <4>2, <4>3
    <3>3. QED
      BY <1>1, <3>1, <3>2
  <2>3. QED
    BY <2>1, <2>2, SeqEqual
<1>3. (p \o lu) \o r = p \o (lu \o r)
  <2>1. lu \in Seq(T) /\ r \in Seq(T) /\ p \in Seq(T)
    BY <1>1
  <2>2. QED
    BY <2>1, ConcatAssociative
<1>4. QED
  BY <1>2, <1>3 DEF r

LEMMA EcritureDestine ==
    ASSUME NEW T, NEW p \in Seq(T), NEW q \in Seq(T), NEW m \in T
    PROVE  p \o Append(q, m) = Append(p \o q, m)
OBVIOUS

-----------------------------------------------------------------------------
(* What a step may change.                                                  *)

LEMMA DestineType ==
    ASSUME TypesChat, NEW c \in Clients
    PROVE  /\ Destine(c) \in Seq(Diffusions) /\ recus[c] \in Seq(Diffusions)
           /\ vers_cli[c] \in Seq(Diffusions) /\ vers_srv[c] \in Seq(Messages)
           /\ lignes[c] \in 0 .. MAXLIGNES /\ Envoyees(c) \in Int
<1>1. /\ recus[c] \in Seq(Diffusions) /\ vers_cli[c] \in Seq(Diffusions)
      /\ vers_srv[c] \in Seq(Messages) /\ lignes[c] \in 0 .. MAXLIGNES
  BY DEF TypesChat, TypeOKSockets
<1>2. Envoyees(c) \in Int
  BY <1>1 DEF Envoyees
<1>3. QED
  BY <1>1, <1>2 DEF Destine

LEMMA VersSrvType ==
    ASSUME TypesChat, NEW c \in Clients, NEW l \in DOMAIN vers_srv[c]
    PROVE  vers_srv[c][l] \in Messages /\ vers_srv[c][l][2] \in Int /\ l \in Nat
<1>1. vers_srv[c] \in Seq(Messages)
  BY DestineType
<1>2. vers_srv[c][l] \in Messages /\ l \in Nat
  BY <1>1
<1>3. QED
  BY <1>2 DEF Messages

LEMMA TamponType ==
    ASSUME TypeOKServeur, NEW k \in DOMAIN buf
    PROVE  buf[k] \in Messages /\ buf[k][2] \in Int /\ k \in Nat
<1>1. buf[k] \in Messages /\ k \in Nat
  BY DEF TypeOKServeur
<1>2. QED
  BY <1>1 DEF Messages

\* The line that a client adds at the end of what it has written, or nothing.
Ecrit(d) ==
    \/ vers_srv'[d] = vers_srv[d]
    \/ /\ vers_srv'[d] = Append(vers_srv[d], <<d, Envoyees(d) + 1>>)
       /\ Envoyees(d)' = Envoyees(d) + 1

LEMMA EcritCas ==
    ASSUME TypesChat, TypesChat', NEW d \in Clients, Ecrit(d)
    PROVE  /\ Len(vers_srv[d]) \in Nat /\ DOMAIN vers_srv[d] = 1 .. Len(vers_srv[d])
           /\ \A l \in DOMAIN vers_srv'[d] :
                  \/ l \in DOMAIN vers_srv[d] /\ vers_srv'[d][l] = vers_srv[d][l]
                  \/ /\ l = Len(vers_srv[d]) + 1 /\ vers_srv'[d][l] = <<d, Envoyees(d) + 1>>
                     /\ Envoyees(d)' = Envoyees(d) + 1
<1> DEFINE q == vers_srv[d]
           r == vers_srv'[d]
           e == Envoyees(d)
<1>1. q \in Seq(Messages) /\ r \in Seq(Messages) /\ e \in Int
  BY DestineType DEF TypesChat, TypeOKSockets
<1>2. r = q \/ (r = Append(q, <<d, e + 1>>) /\ Envoyees(d)' = e + 1)
  BY DEF Ecrit
<1> HIDE DEF q, r, e
<1>3. Len(q) \in Nat /\ DOMAIN q = 1 .. Len(q)
  BY <1>1
<1>4. ASSUME NEW l \in DOMAIN r, r = Append(q, <<d, e + 1>>)
      PROVE  (l \in DOMAIN q /\ r[l] = q[l]) \/ (l = Len(q) + 1 /\ r[l] = <<d, e + 1>>)
  BY <1>1, <1>4
<1>5. \A l \in DOMAIN r :
          \/ l \in DOMAIN q /\ r[l] = q[l]
          \/ l = Len(q) + 1 /\ r[l] = <<d, e + 1>> /\ Envoyees(d)' = e + 1
  BY <1>2, <1>4
<1>6. QED
  BY <1>3, <1>5 DEF q, r, e

\* A step of a client: it moves what it is sent from the socket to its screen,
\* and may send its next line.
LEMMA ClientOrdre ==
    ASSUME InvChat, TypesChat', UNCHANGED <<srv, varsServeur, j>>,
           \A d \in Clients : Destine(d)' = Destine(d) /\ Ecrit(d) /\ Envoyees(d)' >= Envoyees(d)
    PROVE  OrdreChat' /\ OrdreTampon'
<1> USE DEF varsServeur, varsFds
<1>0. TypesChat /\ TypeOKServeur /\ Base /\ OrdreChat /\ OrdreTampon
  BY DEF InvChat, Base
<1>1. \A d \in Clients : /\ Destine(d) \in Seq(Diffusions)
                         /\ Envoyees(d) \in Int /\ Envoyees(d)' \in Int
  <2> SUFFICES ASSUME NEW d \in Clients
               PROVE  /\ Destine(d) \in Seq(Diffusions)
                      /\ Envoyees(d) \in Int /\ Envoyees(d)' \in Int
    OBVIOUS
  <2>1. lignes'[d] \in Int
    BY DEF TypesChat, TypeOKSockets
  <2>2. Envoyees(d)' \in Int
    BY <2>1 DEF Envoyees
  <2>3. QED
    BY <1>0, <2>2, DestineType
<1>2. ASSUME NEW x \in Clients PROVE Croissantes(vers_srv[x], x)'
  <2>0. Croissantes(vers_srv[x], x)
    BY <1>0 DEF OrdreChat
  <2>1. ASSUME NEW k \in DOMAIN vers_srv'[x]
        PROVE  vers_srv'[x][k][1] = x /\ vers_srv'[x][k][2] <= Envoyees(x)'
    <3>1. CASE k \in DOMAIN vers_srv[x] /\ vers_srv'[x][k] = vers_srv[x][k]
      BY <1>0, <1>1, <2>0, <3>1, VersSrvType DEF Croissantes
    <3>2. CASE vers_srv'[x][k] = <<x, Envoyees(x) + 1>> /\ Envoyees(x)' = Envoyees(x) + 1
      BY <1>1, <3>2
    <3>3. QED
      BY <1>0, <3>1, <3>2, EcritCas
  <2>2. ASSUME NEW k \in DOMAIN vers_srv'[x], NEW l \in DOMAIN vers_srv'[x], k < l
        PROVE  vers_srv'[x][k][2] < vers_srv'[x][l][2]
    <3>0. /\ Len(vers_srv[x]) \in Nat
          /\ \/ k \in DOMAIN vers_srv[x] /\ vers_srv'[x][k] = vers_srv[x][k]
             \/ k = Len(vers_srv[x]) + 1
          /\ \/ l \in DOMAIN vers_srv[x] /\ vers_srv'[x][l] = vers_srv[x][l]
             \/ l = Len(vers_srv[x]) + 1 /\ vers_srv'[x][l] = <<x, Envoyees(x) + 1>>
          /\ \A y \in DOMAIN vers_srv[x] : y \in 1 .. Len(vers_srv[x])
      BY <1>0, EcritCas
    <3>1. k \in DOMAIN vers_srv[x] /\ vers_srv'[x][k] = vers_srv[x][k]
      BY <2>2, <3>0
    <3>2. vers_srv[x][k][2] \in Int /\ vers_srv[x][k][2] <= Envoyees(x)
      BY <1>0, <2>0, <3>1, VersSrvType DEF Croissantes
    <3>3. QED
      BY <1>1, <2>0, <2>2, <3>0, <3>1, <3>2 DEF Croissantes
  <2>3. QED
    BY <2>1, <2>2 DEF Croissantes
<1>3. ASSUME NEW c \in Clients PROVE EnOrdre(Destine(c))'
  <2>1. EnOrdre(Destine(c))
    BY <1>0 DEF OrdreChat
  <2>2. QED
    BY <2>1
<1>4. ASSUME NEW c \in Clients, NEW x \in Clients
      PROVE  /\ Avant(Destine(c), <<x, Envoyees(x) + 1>>)'
             /\ \A l \in DOMAIN vers_srv'[x] : Avant(Destine(c), vers_srv[x][l])'
  <2> DEFINE q == Destine(c)
             n == Envoyees(x) + 1
             p == Envoyees(x)' + 1
  <2>1. q \in Seq(Diffusions) /\ n \in Int /\ p \in Int /\ n <= p /\ Avant(q, <<x, n>>)
    BY <1>0, <1>1 DEF OrdreChat
  <2>2. Avant(q, <<x, p>>)
    <3> HIDE DEF q, n, p
    <3> QED
      BY <2>1, AvantPlus
  <2>3. ASSUME NEW l \in DOMAIN vers_srv'[x] PROVE Avant(q, vers_srv'[x][l])
    <3>1. CASE l \in DOMAIN vers_srv[x] /\ vers_srv'[x][l] = vers_srv[x][l]
      BY <1>0, <3>1 DEF OrdreChat
    <3>2. CASE vers_srv'[x][l] = <<x, n>>
      BY <2>1, <3>2
    <3>3. QED
      BY <1>0, <3>1, <3>2, EcritCas
  <2>4. QED
    BY <2>2, <2>3
<1>5. OrdreTampon'
  <2> SUFFICES ASSUME srv = "ecrire" PROVE OrdreTampon'
    BY DEF OrdreTampon
  <2>0. descr[fds[i]] \in Clients
    BY <1>0, CaseUtile DEF Base, Tour
  <2>x. PICK x \in Clients : x = descr[fds[i]]
    BY <2>0
  <2>1. /\ Croissantes(buf, x)
        /\ \A k \in DOMAIN buf : \A l \in DOMAIN vers_srv[x] : buf[k][2] < vers_srv[x][l][2]
        /\ \A k \in DOMAIN buf : \A s \in Utiles :
               s >= j => Avant(Destine(descr[fds[s]]), buf[k])
    BY <1>0, <2>x DEF OrdreTampon
  <2>2. ASSUME NEW k \in DOMAIN buf PROVE buf[k][1] = x /\ buf[k][2] <= Envoyees(x)'
    BY <1>0, <1>1, <2>1, TamponType DEF Croissantes
  <2>3. ASSUME NEW k \in DOMAIN buf, NEW l \in DOMAIN vers_srv'[x]
        PROVE  buf[k][2] < vers_srv'[x][l][2]
    <3>0. buf[k][2] \in Int /\ buf[k][2] <= Envoyees(x)
      BY <1>0, <2>1, TamponType DEF Croissantes
    <3>1. CASE l \in DOMAIN vers_srv[x] /\ vers_srv'[x][l] = vers_srv[x][l]
      BY <2>1, <3>1
    <3>2. CASE vers_srv'[x][l] = <<x, Envoyees(x) + 1>>
      BY <1>1, <3>0, <3>2
    <3>3. QED
      BY <1>0, <3>1, <3>2, EcritCas
  <2>4. Utiles' = Utiles /\ \A s \in Utiles : descr[fds[s]] \in Clients
    BY <1>0, CaseUtile DEF Utiles, Cases, Base
  <2>5. ASSUME NEW k \in DOMAIN buf, NEW s \in Utiles, s >= j
        PROVE  Avant(Destine(descr[fds[s]]), buf[k])'
    <3>1. PICK c \in Clients : c = descr[fds[s]]
      BY <2>4
    <3>2. Avant(Destine(c), buf[k]) /\ Destine(c)' = Destine(c)
      BY <2>1, <2>5, <3>1
    <3>3. Destine(descr[fds[s]])' = Destine(c)'
      BY <3>1 DEF Destine
    <3>4. QED
      BY <3>2, <3>3
  <2>6. Croissantes(buf, x)'
    BY <2>1, <2>2 DEF Croissantes
  <2>7. QED
    BY <2>x, <2>3, <2>4, <2>5, <2>6 DEF OrdreTampon, Croissantes, Envoyees
<1>6. QED
  BY <1>2, <1>3, <1>4, <1>5 DEF OrdreChat

LEMMA ServeurOrdre ==
    ASSUME OrdreChat, UNCHANGED <<pc, lignes, recus, vers_srv, vers_cli>>
    PROVE  OrdreChat'
BY DEF OrdreChat, Croissantes, Envoyees, Destine

LEMMA AuteursIntacts ==
    ASSUME InvChat, Cases' = Cases, Utiles' \subseteq Utiles,
           \A s \in Utiles' : descr'[fds'[s]] = descr[fds[s]],
           \A d \in Clients : pc[d] # "connect" => pc'[d] # "connect",
           \A d \in Clients : attente' = <<d>> => attente = <<d>> \/ pc[d] = "connect",
           \A d \in Clients : Destine(d)' = Destine(d)
    PROVE  \E A \in [Cases' -> Clients] : Auteurs(A)' /\ Signatures(A)'
<1>1. PICK A \in [Cases -> Clients] : Auteurs(A) /\ Signatures(A)
  BY DEF InvChat
<1>2. Auteurs(A)'
  BY <1>1 DEF Auteurs
<1>3. Signatures(A)'
  <2> SUFFICES ASSUME NEW c \in Clients, NEW a \in DOMAIN Destine(c)
               PROVE  Signe(Destine(c)[a], A, c)'
    BY DEF Signatures
  <2>1. Signe(Destine(c)[a], A, c)
    BY <1>1 DEF Signatures
  <2>2. QED
    BY <2>1 DEF Signe
<1>4. QED
  BY <1>1, <1>2, <1>3

-----------------------------------------------------------------------------
(* The steps of the clients.                                                *)

LEMMA InitInvChat == InitChat => InvChat
<1> SUFFICES ASSUME InitChat PROVE InvChat
  OBVIOUS
<1>1. Base
  BY BaseInitiale DEF InitChat
<1> USE DEF InitChat, InitServeur, InitSockets
<1>2. TypesChat
  BY DEF TypesChat, TypeOKSockets
<1>3. /\ \A c \in Clients : vers_srv[c] = <<>> /\ Destine(c) = <<>>
      /\ DOMAIN <<>> = {} /\ Cases = {} /\ Utiles = {}
  BY DEF Destine, Cases, Utiles
<1>4. OrdreChat /\ OrdreTampon
  BY <1>3 DEF OrdreChat, OrdreTampon, Croissantes, EnOrdre, Avant
<1>5. \E A \in [Cases -> Clients] : Auteurs(A) /\ Signatures(A)
  <2>1. \E A \in [Cases -> Clients] : A \in [Cases -> Clients]
    <3>1. \A s \in Cases : FALSE
      BY <1>3
    <3>2. [s \in Cases |-> Libre] \in [Cases -> Clients]
      BY <3>1
    <3>3. QED
      BY <3>2
  <2>2. PICK A \in [Cases -> Clients] : TRUE
    BY <2>1
  <2>3. Auteurs(A) /\ Signatures(A)
    BY <1>3, <2>2 DEF Auteurs, Signatures
  <2>4. QED
    BY <2>3
<1>6. QED
  BY <1>1, <1>2, <1>4, <1>5 DEF InvChat

LEMMA ClientChat ==
    ASSUME InvChat, NEW c \in Clients, Base', TypesChat', UNCHANGED <<srv, varsServeur, j>>,
           Destine(c)' = Destine(c), Ecrit(c), Envoyees(c)' >= Envoyees(c),
           \A d \in Clients : d # c =>
               /\ pc'[d] = pc[d] /\ lignes'[d] = lignes[d] /\ recus'[d] = recus[d]
               /\ vers_srv'[d] = vers_srv[d] /\ vers_cli'[d] = vers_cli[d],
           pc'[c] # "connect",
           attente' = attente \/ (attente' = <<c>> /\ pc[c] = "connect")
    PROVE  InvChat'
<1>1. ASSUME NEW d \in Clients
      PROVE  Destine(d)' = Destine(d) /\ Ecrit(d) /\ Envoyees(d)' >= Envoyees(d)
  <2>1. CASE d = c
    BY <2>1
  <2>2. CASE d # c
    <3>1. Envoyees(d) \in Int
      BY DestineType DEF InvChat
    <3>2. Destine(d)' = Destine(d) /\ Ecrit(d) /\ Envoyees(d)' = Envoyees(d)
      BY <2>2 DEF Destine, Ecrit, Envoyees
    <3>3. QED
      BY <3>1, <3>2
  <2>3. QED
    BY <2>1, <2>2
<1>2. OrdreChat' /\ OrdreTampon'
  BY <1>1, ClientOrdre
<1>3. /\ Cases' = Cases /\ Utiles' = Utiles
      /\ \A s \in Utiles' : descr'[fds'[s]] = descr[fds[s]]
  BY DEF varsServeur, varsFds, Cases, Utiles
<1>4. \A d \in Clients : attente' = <<d>> => attente = <<d>> \/ pc[d] = "connect"
  OBVIOUS
<1>5. \E A \in [Cases' -> Clients] : Auteurs(A)' /\ Signatures(A)'
  BY <1>1, <1>3, <1>4, AuteursIntacts
<1>6. QED
  BY <1>2, <1>5 DEF InvChat

LEMMA ConnecterChat ==
    ASSUME InvChat, NEW c \in Clients, Connecter(c), UNCHANGED <<srv, varsServeur, j>>
    PROVE  InvChat'
<1>1. Base'
  BY ConnecterBase DEF InvChat
<1>2. /\ \A d \in Clients : d # c => pc'[d] = pc[d]
      /\ pc'[c] \in {"fgets", "fini"} /\ pc[c] = "connect"
      /\ UNCHANGED <<lignes, recus, vers_srv, vers_cli, fermees>>
      /\ attente' = attente \/ attente' = <<c>>
  BY Avance DEF InvChat, Connecter, Points
<1>3. TypesChat'
  BY <1>1, <1>2 DEF Base, TypesCommuns, InvChat, TypesChat, TypeOKSockets, varsServeur, varsFds,
                    Points
<1>4. Destine(c)' = Destine(c) /\ Ecrit(c)
  BY <1>2 DEF Destine, Ecrit
<1>5. Envoyees(c)' = Envoyees(c) /\ Envoyees(c) \in Int
  BY <1>2, DestineType DEF InvChat, Envoyees
<1>6. QED
  BY <1>1, <1>2, <1>3, <1>4, <1>5, ClientChat

LEMMA FgetsChat ==
    ASSUME InvChat, NEW c \in Clients, Fgets(c), UNCHANGED <<srv, varsServeur, j>>
    PROVE  InvChat'
<1>0. PICK x \in {"write", "fini"} :
          /\ Aller(c, x) /\ pc[c] = "fgets"
          /\ UNCHANGED <<recus, varsSockets>>
          /\ \/ /\ x = "write" /\ Cardinality(LignesLues) < MAXLIGNES
                /\ lignes' = [lignes EXCEPT ![c] = @ + 1]
             \/ x = "fini" /\ UNCHANGED lignes
  BY DEF Fgets
<1>1. Base'
  BY <1>0, ConnecteBase DEF InvChat, Base, TypesCommuns, Points, Ouvert, varsSockets
<1>2. pc'[c] = x /\ \A d \in Clients : d # c => pc'[d] = pc[d]
  BY <1>0, Avance DEF InvChat, Points
<1>3. /\ lignes \in [Clients -> 0 .. MAXLIGNES]
      /\ \A d \in Clients : pc[d] = "write" => lignes[d] >= 1
  BY DEF InvChat, TypesChat, TypeOKSockets
<1>4. /\ lignes' \in [Clients -> 0 .. MAXLIGNES] /\ \A d \in Clients : d # c => lignes'[d] = lignes[d]
      /\ x = "write" => lignes'[c] = lignes[c] + 1
      /\ x = "fini" => lignes'[c] = lignes[c]
  <2>1. CASE x = "fini" /\ UNCHANGED lignes
    BY <1>3, <2>1
  <2>2. CASE /\ x = "write" /\ Cardinality(LignesLues) < MAXLIGNES
             /\ lignes' = [lignes EXCEPT ![c] = @ + 1]
    <3>1. lignes[c] + 1 \in 0 .. MAXLIGNES
      BY <1>3, <2>2, LignesBornees
    <3>2. QED
      BY <1>3, <2>2, <3>1
  <2>3. QED
    BY <1>0, <2>1, <2>2
<1>5. TypesChat'
  <2>1. \A d \in Clients : pc'[d] = "write" => lignes'[d] >= 1
    <3> SUFFICES ASSUME NEW d \in Clients, pc'[d] = "write" PROVE lignes'[d] >= 1
      OBVIOUS
    <3>1. lignes[d] \in Nat
      BY <1>3
    <3>2. CASE d = c
      BY <1>2, <1>4, <3>1, <3>2
    <3>3. CASE d # c
      BY <1>2, <1>3, <1>4, <3>3
    <3>4. QED
      BY <3>2, <3>3
  <2>2. pc' \in [Clients -> {"connect", "fgets", "write", "read", "fini", "tue"}]
    BY <1>1 DEF Base, TypesCommuns, Points
  <2>3. QED
    BY <1>0, <1>4, <2>1, <2>2 DEF InvChat, TypesChat, TypeOKSockets, varsServeur, varsFds, varsSockets
<1>6. Destine(c)' = Destine(c) /\ Ecrit(c) /\ attente' = attente
  BY <1>0 DEF Destine, Ecrit, varsSockets
<1>7. Envoyees(c)' = Envoyees(c) /\ Envoyees(c) \in Int
  <2>1. lignes[c] \in Int
    BY <1>3
  <2>2. QED
    BY <1>0, <1>2, <1>4, <2>1 DEF Envoyees
<1>8. QED
  BY <1>0, <1>1, <1>2, <1>4, <1>5, <1>6, <1>7, ClientChat DEF varsSockets

LEMMA EnvoyerChat ==
    ASSUME InvChat, NEW c \in Clients, Envoyer(c), UNCHANGED <<srv, varsServeur, j>>
    PROVE  InvChat'
<1>0. PICK x \in {"read", "fini"} :
          /\ Aller(c, x) /\ pc[c] = "write"
          /\ UNCHANGED <<lignes, recus, vers_cli, attente, fermees>>
          /\ \/ UNCHANGED vers_srv
             \/ vers_srv' = [vers_srv EXCEPT ![c] = Append(@, <<c, lignes[c]>>)]
  BY DEF Envoyer
<1>1. /\ lignes \in [Clients -> 0 .. MAXLIGNES] /\ lignes[c] >= 1
      /\ vers_srv \in [Clients -> Seq(Messages)]
  BY <1>0 DEF InvChat, TypesChat, TypeOKSockets
<1>2. vers_srv' \in [Clients -> Seq(Messages)]
      /\ \A d \in Clients : d # c => vers_srv'[d] = vers_srv[d]
  <2>1. <<c, lignes[c]>> \in Messages
    BY <1>1 DEF Messages
  <2>2. Append(vers_srv[c], <<c, lignes[c]>>) \in Seq(Messages)
    BY <1>1, <2>1
  <2>3. QED
    BY <1>0, <1>1, <2>2
<1>3. Base'
  BY <1>0, <1>2, ConnecteBase DEF InvChat, Points, Ouvert
<1>4. pc'[c] = x /\ \A d \in Clients : d # c => pc'[d] = pc[d]
  BY <1>0, Avance DEF InvChat, Points
<1>5. TypesChat'
  <2>1. pc' \in [Clients -> {"connect", "fgets", "write", "read", "fini", "tue"}]
    BY <1>3 DEF Base, TypesCommuns, Points
  <2>2. QED
    BY <1>0, <1>2, <1>4, <2>1 DEF InvChat, TypesChat, TypeOKSockets, varsServeur, varsFds
<1>6. Destine(c)' = Destine(c)
  BY <1>0 DEF Destine
<1>7. Envoyees(c)' = Envoyees(c) + 1 /\ lignes[c] = Envoyees(c) + 1 /\ Envoyees(c) \in Int
  BY <1>0, <1>1, <1>4 DEF Envoyees
<1>8. Ecrit(c)
  BY <1>0, <1>1, <1>7 DEF Ecrit
<1>9. QED
  BY <1>0, <1>2, <1>3, <1>4, <1>5, <1>6, <1>7, <1>8, ClientChat

LEMMA RecevoirChat ==
    ASSUME InvChat, NEW c \in Clients, Recevoir(c), UNCHANGED <<srv, varsServeur, j>>
    PROVE  InvChat'
<1>0. PICK x \in {"fgets", "fini"} :
          /\ Aller(c, x) /\ pc[c] = "read"
          /\ UNCHANGED <<lignes, vers_srv, attente, fermees>>
          /\ \/ \E lu \in Lectures(vers_cli[c]) :
                    /\ recus' = [recus EXCEPT ![c] = @ \o lu]
                    /\ vers_cli' = [vers_cli EXCEPT ![c] = Reste(@, lu)]
             \/ UNCHANGED <<recus, vers_cli>>
  BY DEF Recevoir
<1>1. /\ recus \in [Clients -> Seq(Diffusions)] /\ vers_cli \in [Clients -> Seq(Diffusions)]
      /\ recus[c] \in Seq(Diffusions) /\ vers_cli[c] \in Seq(Diffusions)
  BY DEF InvChat, TypesChat, TypeOKSockets
<1>2. /\ recus' \in [Clients -> Seq(Diffusions)] /\ vers_cli' \in [Clients -> Seq(Diffusions)]
      /\ \A d \in Clients : d # c => recus'[d] = recus[d] /\ vers_cli'[d] = vers_cli[d]
      /\ Destine(c)' = Destine(c)
  <2>1. CASE UNCHANGED <<recus, vers_cli>>
    BY <1>1, <2>1 DEF Destine
  <2>2. ASSUME NEW lu \in Lectures(vers_cli[c]),
               recus' = [recus EXCEPT ![c] = @ \o lu],
               vers_cli' = [vers_cli EXCEPT ![c] = Reste(@, lu)]
        PROVE  /\ recus' \in [Clients -> Seq(Diffusions)]
               /\ vers_cli' \in [Clients -> Seq(Diffusions)]
               /\ \A d \in Clients : d # c => recus'[d] = recus[d] /\ vers_cli'[d] = vers_cli[d]
               /\ Destine(c)' = Destine(c)
    <3>1. lu \in Seq(Diffusions) /\ Reste(vers_cli[c], lu) \in Seq(Diffusions)
      BY <1>1, LectureCas
    <3>2. recus[c] \o lu \in Seq(Diffusions)
      BY <1>1, <3>1
    <3>3. recus'[c] = recus[c] \o lu /\ vers_cli'[c] = Reste(vers_cli[c], lu)
      BY <1>1, <2>2
    <3>4. (recus[c] \o lu) \o Reste(vers_cli[c], lu) = recus[c] \o vers_cli[c]
      BY <1>1, LectureDestine
    <3>5. Destine(c)' = Destine(c)
      BY <3>3, <3>4 DEF Destine
    <3>6. QED
      BY <1>1, <2>2, <3>1, <3>2, <3>5
  <2>3. QED
    BY <1>0, <2>1, <2>2
<1>3. Base'
  BY <1>0, ConnecteBase DEF InvChat, Points, Ouvert, Base, TypesCommuns
<1>4. pc'[c] = x /\ \A d \in Clients : d # c => pc'[d] = pc[d]
  BY <1>0, Avance DEF InvChat, Points
<1>5. TypesChat'
  <2>1. pc' \in [Clients -> {"connect", "fgets", "write", "read", "fini", "tue"}]
    BY <1>3 DEF Base, TypesCommuns, Points
  <2>2. QED
    BY <1>0, <1>2, <1>4, <2>1 DEF InvChat, TypesChat, TypeOKSockets, varsServeur, varsFds
<1>6. Envoyees(c)' = Envoyees(c) /\ Envoyees(c) \in Int /\ Ecrit(c)
  BY <1>0, <1>4, DestineType DEF InvChat, Envoyees, Ecrit
<1>7. QED
  BY <1>0, <1>2, <1>3, <1>4, <1>5, <1>6, ClientChat

LEMMA TuerChat ==
    ASSUME InvChat, NEW c \in Clients, Tuer(c), UNCHANGED <<varsServeur, j>>
    PROVE  InvChat'
<1>0. /\ Aller(c, "tue") /\ Ouvert(c) /\ srv' = srv
      /\ UNCHANGED <<lignes, recus, vers_srv, vers_cli, attente, fermees>>
  BY DEF Tuer, varsSockets
<1>1. Base'
  BY <1>0, ConnecteBase DEF InvChat, Points, Ouvert, Base, TypesCommuns
<1>2. pc'[c] = "tue" /\ \A d \in Clients : d # c => pc'[d] = pc[d]
  BY <1>0, Avance DEF InvChat, Points
<1>3. TypesChat'
  <2>1. pc' \in [Clients -> {"connect", "fgets", "write", "read", "fini", "tue"}]
    BY <1>1 DEF Base, TypesCommuns, Points
  <2>2. QED
    BY <1>0, <1>2, <2>1 DEF InvChat, TypesChat, TypeOKSockets, varsServeur, varsFds
<1>4. Destine(c)' = Destine(c) /\ Ecrit(c)
  BY <1>0 DEF Destine, Ecrit
<1>5. Envoyees(c)' >= Envoyees(c)
  <2>1. lignes[c] \in Int
    BY DestineType DEF InvChat
  <2>2. QED
    BY <1>0, <1>2, <2>1 DEF Envoyees
<1>6. QED
  BY <1>0, <1>1, <1>2, <1>3, <1>4, <1>5, ClientChat

-----------------------------------------------------------------------------
(* The steps of the server.                                                 *)

\* A step of the server that sends nothing.
LEMMA ServeurTypes ==
    ASSUME InvChat, Base', UNCHANGED <<pc, lignes, recus, vers_cli>>,
           j' \in 1 .. nfds', srv' \in {"poll", "boucle"} => j' = 1
    PROVE  TypesChat'
BY DEF InvChat, TypesChat, TypeOKSockets, Base, TypesCommuns, Points

LEMMA ServeurChat ==
    ASSUME InvChat, Base', UNCHANGED <<pc, lignes, recus, vers_srv, vers_cli>>, OrdreTampon',
           j' \in 1 .. nfds', srv' \in {"poll", "boucle"} => j' = 1,
           Cases' = Cases, Utiles' \subseteq Utiles,
           \A s \in Utiles' : descr'[fds'[s]] = descr[fds[s]],
           attente' = attente \/ attente' = <<>>
    PROVE  InvChat'
<1>1. TypesChat'
  BY ServeurTypes
<1>2. OrdreChat'
  BY ServeurOrdre DEF InvChat
<1>3. \A d \in Clients : Destine(d)' = Destine(d)
  BY DEF Destine
<1>a. ASSUME NEW d \in Clients, attente' = <<d>> PROVE attente = <<d>>
  <2>1. <<d>> # <<>>
    OBVIOUS
  <2>2. QED
    BY <1>a, <2>1
<1>4. \E A \in [Cases' -> Clients] : Auteurs(A)' /\ Signatures(A)'
  BY <1>3, <1>a, AuteursIntacts
<1>5. QED
  BY <1>1, <1>2, <1>4 DEF InvChat

\* The slots that a step leaves alone.
LEMMA CasesChat ==
    ASSUME InvChat, UNCHANGED <<fds, nfds, descr>>
    PROVE  /\ Cases' = Cases /\ Utiles' = Utiles
           /\ \A s \in Utiles' : descr'[fds'[s]] = descr[fds[s]]
BY DEF Cases, Utiles

LEMMA PremiereCase ==
    ASSUME InvChat
    PROVE  /\ nfds \in Nat \ {0} /\ 1 \in 1 .. nfds
           /\ (srv \in {"poll", "boucle"} => j = 1)
<1>1. nfds \in Nat \ {0}
  BY DEF InvChat, Base, TypeOKServeur
<1>2. QED
  BY <1>1 DEF InvChat, TypesChat

LEMMA EntreeChat ==
    ASSUME InvChat, Poll \/ Refuser \/ Passer, UNCHANGED j
    PROVE  InvChat'
<1>1. Base'
  BY PollBase, RefuserBase, PasserBase DEF InvChat
<1>2. /\ srv \in {"poll", "boucle"} /\ srv' \in {"poll", "boucle"}
      /\ UNCHANGED <<pc, lignes, recus, vers_srv, vers_cli, fds, nfds, descr>>
  BY DEF Poll, Refuser, Passer, Suite, varsClients, varsSockets, varsFds
<1>3. attente' = attente \/ attente' = <<>>
  <2>1. CASE Refuser
    <3>1. attente # <<>> /\ attente' = Tail(attente)
      BY <2>1 DEF Refuser, InvChat, Base, Tour
    <3>2. QED
      BY <3>1, EnTete DEF InvChat
  <2>2. CASE Poll \/ Passer
    BY <2>2 DEF Poll, Passer, varsSockets
  <2>3. QED
    BY <2>1, <2>2
<1>4. OrdreTampon'
  BY <1>2 DEF OrdreTampon
<1>5. j' = 1 /\ j' \in 1 .. nfds'
  BY <1>2, PremiereCase
<1>6. QED
  BY <1>1, <1>2, <1>3, <1>4, <1>5, CasesChat, ServeurChat

LEMMA DeconnecterChat ==
    ASSUME InvChat, Deconnecter, UNCHANGED j
    PROVE  InvChat'
<1>1. Base'
  BY DeconnecterBase DEF InvChat
<1>2. /\ srv = "boucle" /\ srv' \in {"poll", "boucle"} /\ i # 0 /\ revents[i] # "rien"
      /\ UNCHANGED <<pc, lignes, recus, vers_srv, vers_cli, attente, nfds>>
      /\ fds' = [fds EXCEPT ![i] = -1] /\ descr' = [descr EXCEPT ![fds[i]] = Libre]
  BY DEF Deconnecter, Suite, varsClients
<1>3. i \in Utiles /\ Base
  BY <1>2, CaseDuTour DEF InvChat
<1>4. Cases' = Cases
  BY <1>2 DEF Cases
<1>5. ASSUME NEW s \in Utiles'
      PROVE  s \in Utiles /\ descr'[fds'[s]] = descr[fds[s]]
  <2>a. s \in Cases /\ fds'[s] # -1
    BY <1>4 DEF Utiles
  <2>b. i \in Cases /\ nfds \in Nat \ {0}
    BY <1>3 DEF Utiles, Base, TypeOKServeur
  <2>1. s \in 0 .. nfds - 1 /\ i \in 0 .. nfds - 1
    BY <2>a, <2>b DEF Cases
  <2>c. s # i /\ fds'[s] = fds[s]
    BY <1>2, <1>3, <2>a, <2>1 DEF Base, TypeOKServeur
  <2>2. s # i /\ fds'[s] = fds[s] /\ s \in Utiles
    BY <2>a, <2>c DEF Utiles
  <2>3. fds[s] # fds[i] /\ fds[s] \in Descripteurs
    BY <1>3, <2>2, CaseUtile DEF Base, CasesDescr
  <2>4. descr'[fds[s]] = descr[fds[s]]
    BY <1>2, <1>3, <2>3 DEF Base, TypeOKServeur
  <2>5. QED
    BY <2>2, <2>4
<1>6. OrdreTampon'
  BY <1>2 DEF OrdreTampon
<1>7. j' = 1 /\ j' \in 1 .. nfds'
  BY <1>2, PremiereCase
<1>8. QED
  BY <1>1, <1>2, <1>4, <1>5, <1>6, <1>7, ServeurChat

\* The client that is accepted has had no slot before.
LEMMA AccepterChat ==
    ASSUME InvChat, Accepter, UNCHANGED j
    PROVE  InvChat'
<1> DEFINE h == Head(attente)
           d0 == Nouveau
<1>0. /\ Base /\ srv = "boucle" /\ srv' \in {"poll", "boucle"} /\ attente # <<>>
      /\ UNCHANGED <<pc, lignes, recus, vers_srv, vers_cli>>
      /\ fds' = Ajouter(fds, d0) /\ descr' = [descr EXCEPT ![d0] = h]
      /\ attente' = Tail(attente) /\ nfds' = nfds + 1
  BY DEF Accepter, Admettre, Suite, varsClients, InvChat, Base, Tour
<1>1. Base'
  BY <1>0, AccepterBase
<1>2. /\ h \in Clients /\ attente = <<h>> /\ attente' = <<>> /\ pc[h] # "connect"
      /\ \A d \in Servies : descr[d] # h
  BY <1>0, EnTete
<1>3. d0 \in Descripteurs /\ descr[d0] = Libre
  BY <1>0, NouveauLibre
<1> HIDE DEF h, d0
<1>4. /\ nfds \in Nat \ {0} /\ nfds \notin Cases /\ Cases' = Cases \cup {nfds}
      /\ fds'[nfds] = d0 /\ \A s \in Cases : fds'[s] = fds[s]
      /\ nfds' \in Nat \ {0} /\ 1 \in 1 .. nfds'
  BY <1>0 DEF Cases, Ajouter, Base, TypeOKServeur
<1>5. TypesChat' /\ OrdreChat' /\ OrdreTampon'
  <2>1. j' = 1
    BY <1>0, PremiereCase
  <2>2. TypesChat'
    BY <1>0, <1>1, <1>4, <2>1, ServeurTypes
  <2>3. OrdreChat'
    BY <1>0, ServeurOrdre DEF InvChat
  <2>4. QED
    BY <1>0, <2>2, <2>3 DEF OrdreTampon
<1>6. PICK A \in [Cases -> Clients] : Auteurs(A) /\ Signatures(A)
  BY DEF InvChat
<1>h. PICK g \in Clients : g = h
  BY <1>2
<1>m. PICK n \in Nat : n = nfds
  BY <1>4
<1>c. Cases' = Cases \cup {n} /\ n \notin Cases
  BY <1>4, <1>m
<1>7. PICK B \in [Cases' -> Clients] : B[n] = g /\ \A s \in Cases : B[s] = A[s]
  <2> DEFINE B == [s \in Cases' |-> IF s = n THEN g ELSE A[s]]
  <2>1. B \in [Cases' -> Clients]
    BY <1>6, <1>c
  <2>2. B[n] = g /\ \A s \in Cases : B[s] = A[s]
    BY <1>c
  <2> HIDE DEF B
  <2>3. QED
    BY <2>1, <2>2
<1>8. \A s \in Cases : A[s] # g
  BY <1>2, <1>6, <1>h DEF Auteurs
<1>9. Auteurs(B)'
  <2>1. \A s, u \in Cases' : B[s] = B[u] => s = u
    BY <1>6, <1>7, <1>8, <1>c DEF Auteurs
  <2>2. \A s \in Cases' : pc'[B[s]] # "connect" /\ attente' # <<B[s]>>
    BY <1>0, <1>2, <1>6, <1>7, <1>h, <1>c DEF Auteurs
  <2>3. ASSUME NEW s \in Utiles' PROVE B[s] = descr'[fds'[s]]
    <3>1. CASE s = n
      BY <1>0, <1>3, <1>4, <1>7, <1>h, <1>m, <3>1 DEF Base, TypeOKServeur
    <3>2. CASE s \in Cases
      <4>1. s \in Utiles /\ fds'[s] = fds[s]
        BY <1>4, <2>3, <3>2 DEF Utiles
      <4>2. fds[s] \in Servies /\ fds[s] \in Descripteurs
        BY <1>0, <4>1, CaseUtile DEF Base
      <4>3. fds[s] # d0
        BY <1>3, <4>2 DEF Servies
      <4>4. descr'[fds[s]] = descr[fds[s]]
        BY <1>0, <4>2, <4>3 DEF Base, TypeOKServeur
      <4>5. QED
        BY <1>6, <1>7, <3>2, <4>1, <4>4 DEF Auteurs
    <3>3. QED
      BY <1>c, <2>3, <3>1, <3>2 DEF Utiles
  <2>4. QED
    BY <1>7, <2>1, <2>2, <2>3 DEF Auteurs
<1>10. Signatures(B)'
  <2> SUFFICES ASSUME NEW c \in Clients, NEW a \in DOMAIN Destine(c)
               PROVE  Signe(Destine(c)[a], B, c)'
    BY <1>0 DEF Signatures, Destine
  <2>1. Signe(Destine(c)[a], A, c) /\ Destine(c)' = Destine(c)
    BY <1>0, <1>6 DEF Signatures, Destine
  <2>2. QED
    BY <1>7, <1>c, <2>1 DEF Signe
<1>11. QED
  BY <1>1, <1>5, <1>9, <1>10, <1>7 DEF InvChat

\* The lines that the server reads are older than those that stay in the socket.
LEMMA LireDonneesChat ==
    ASSUME InvChat, Lire, NEW lu \in Lectures(vers_srv[descr[fds[i]]]),
           vers_srv' = [vers_srv EXCEPT ![descr[fds[i]]] = Reste(@, lu)],
           buf' = lu, srv' = "ecrire",
           UNCHANGED <<varsClients, vers_cli, attente, fermees, varsFds, revents, i, j>>
    PROVE  InvChat'
<1> USE DEF varsClients, varsFds
<1>0. Base /\ OrdreChat /\ TypesChat /\ j = 1 /\ srv = "boucle"
  BY PremiereCase DEF InvChat, Lire
<1>1. Base'
  BY <1>0, LireDonneesBase
<1>2. descr[fds[i]] \in Clients
  BY <1>0, CaseDuTour DEF Lire
<1>x. PICK x \in Clients : x = descr[fds[i]]
  BY <1>2
<1>3. TypesChat'
  BY <1>0, <1>1, PremiereCase, ServeurTypes
<1> DEFINE q == vers_srv[x]
           r == Reste(q, lu)
<1>4. /\ vers_srv'[x] = r /\ \A d \in Clients : d # x => vers_srv'[d] = vers_srv[d]
      /\ lu \in Lectures(q) /\ q \in Seq(Messages)
  BY <1>0, <1>x, DestineType DEF TypesChat, TypeOKSockets
<1>5. /\ Len(lu) \in Nat /\ DOMAIN lu \subseteq DOMAIN q
      /\ \A k \in DOMAIN lu : k \in Nat /\ k <= Len(lu) /\ lu[k] = q[k]
      /\ \A l \in DOMAIN r : l \in Nat \ {0} /\ l + Len(lu) \in DOMAIN q /\ r[l] = q[l + Len(lu)]
  BY <1>4, LectureCas
<1>6. \A d \in Clients : /\ Destine(d)' = Destine(d) /\ Envoyees(d)' = Envoyees(d)
                         /\ Croissantes(vers_srv[d], d) /\ EnOrdre(Destine(d))
  BY <1>0 DEF Destine, Envoyees, OrdreChat
<1>7. Croissantes(q, x)
  BY <1>6
<1>8. \A c \in Clients : \A k \in DOMAIN q : Avant(Destine(c), q[k])
  BY <1>0 DEF OrdreChat
<1> HIDE DEF q, r
<1>9. Croissantes(lu, x) /\ Croissantes(r, x)
  BY <1>5, <1>7 DEF Croissantes
<1>10. \A k \in DOMAIN lu : \A l \in DOMAIN r : lu[k][2] < r[l][2]
  <2> SUFFICES ASSUME NEW k \in DOMAIN lu, NEW l \in DOMAIN r PROVE lu[k][2] < r[l][2]
    OBVIOUS
  <2>1. /\ k \in DOMAIN q /\ l + Len(lu) \in DOMAIN q /\ k < l + Len(lu)
        /\ lu[k] = q[k] /\ r[l] = q[l + Len(lu)]
    BY <1>5
  <2>2. q[k][2] < q[l + Len(lu)][2]
    BY <1>7, <2>1 DEF Croissantes
  <2>3. QED
    BY <2>1, <2>2
<1>11. OrdreChat'
  <2>1. ASSUME NEW d \in Clients PROVE Croissantes(vers_srv[d], d)'
    <3>1. Croissantes(vers_srv'[d], d)
      BY <1>4, <1>6, <1>9
    <3>2. QED
      BY <1>6, <3>1 DEF Croissantes
  <2>2. ASSUME NEW c \in Clients, NEW d \in Clients
        PROVE  /\ Avant(Destine(c), <<d, Envoyees(d) + 1>>)'
               /\ \A l \in DOMAIN vers_srv'[d] : Avant(Destine(c), vers_srv[d][l])'
    <3>1. Avant(Destine(c), <<d, Envoyees(d) + 1>>)
      BY <1>0 DEF OrdreChat
    <3>2. ASSUME NEW l \in DOMAIN vers_srv'[d] PROVE Avant(Destine(c), vers_srv'[d][l])
      <4>1. CASE d = x
        BY <1>4, <1>5, <1>8, <3>2, <4>1
      <4>2. CASE d # x
        BY <1>0, <1>4, <3>2, <4>2 DEF OrdreChat
      <4>3. QED
        BY <4>1, <4>2
    <3>3. QED
      BY <1>6, <3>1, <3>2
  <2>3. QED
    BY <1>6, <2>1, <2>2 DEF OrdreChat
<1>12. OrdreTampon'
  <2>1. Croissantes(buf, x)'
    BY <1>6, <1>9 DEF Croissantes
  <2>2. \A k \in DOMAIN buf' : \A l \in DOMAIN vers_srv'[x] : buf'[k][2] < vers_srv'[x][l][2]
    BY <1>4, <1>10
  <2>3. Utiles' = Utiles /\ \A s \in Utiles : descr[fds[s]] \in Clients
    BY <1>0, CaseUtile DEF Utiles, Cases, Base
  <2>4. ASSUME NEW k \in DOMAIN buf', NEW s \in Utiles
        PROVE  Avant(Destine(descr[fds[s]]), buf[k])'
    <3>1. PICK c \in Clients : c = descr[fds[s]]
      BY <2>3
    <3>2. Avant(Destine(c), buf'[k]) /\ Destine(c)' = Destine(c)
      BY <1>5, <1>6, <1>8, <2>4
    <3>3. Destine(descr[fds[s]])' = Destine(c)'
      BY <3>1 DEF Destine
    <3>4. QED
      BY <3>2, <3>3
  <2>5. QED
    BY <1>x, <2>1, <2>2, <2>3, <2>4 DEF OrdreTampon, Croissantes, Envoyees
<1>13. \E A \in [Cases' -> Clients] : Auteurs(A)' /\ Signatures(A)'
  BY <1>6, CasesChat, AuteursIntacts
<1>14. QED
  BY <1>1, <1>3, <1>11, <1>12, <1>13 DEF InvChat

\* Without data there is nothing to order.
LEMMA LireChat ==
    ASSUME InvChat, Lire, UNCHANGED j
    PROVE  InvChat'
<1>0. Base /\ srv = "boucle" /\ buf = <<>> /\ i \in Utiles
  BY CaseDuTour DEF InvChat, Base, Tour, Lire
<1>1. CASE \E lu \in Lectures(vers_srv[descr[fds[i]]]) :
              /\ vers_srv' = [vers_srv EXCEPT ![descr[fds[i]]] = Reste(@, lu)]
              /\ buf' = lu
              /\ srv' = "ecrire"
              /\ UNCHANGED <<varsClients, vers_cli, attente, fermees, varsFds, revents, i>>
  BY <1>1, LireDonneesChat
<1>2. CASE srv' = "ecrire" /\ UNCHANGED <<varsClients, varsSockets, varsServeur>>
  <2> USE <1>2 DEF varsClients, varsSockets, varsServeur, varsFds
  <2>1. Base'
    BY <1>0, LireFinBase
  <2>2. OrdreTampon'
    BY <1>0 DEF OrdreTampon, Croissantes
  <2>3. j' \in 1 .. nfds' /\ (srv' \in {"poll", "boucle"} => j' = 1)
    BY DEF InvChat, TypesChat
  <2>4. /\ Cases' = Cases /\ Utiles' = Utiles
        /\ \A s \in Utiles' : descr'[fds'[s]] = descr[fds[s]]
    BY CasesChat
  <2>5. QED
    BY <2>1, <2>2, <2>3, <2>4, ServeurChat
<1>3. CASE Mourir /\ UNCHANGED varsServeur
  <2> USE <1>3 DEF Mourir, varsClients, varsServeur, varsFds
  <2>1. Base'
    BY <1>0, MourirBase
  <2>2. OrdreTampon'
    BY DEF OrdreTampon
  <2>3. j' \in 1 .. nfds'
    BY DEF InvChat, TypesChat
  <2>4. QED
    BY <2>1, <2>2, <2>3, CasesChat, ServeurChat
<1>4. QED
  BY <1>1, <1>2, <1>3 DEF Lire, LireCase

\* There are as many slots as clients at most.
LEMMA NumeroBorne ==
    ASSUME InvChat, NEW s \in Cases
    PROVE  s \in Nat \ {0} /\ s <= Cardinality(Clients)
<1>1. PICK A \in [Cases -> Clients] : \A u, v \in Cases : A[u] = A[v] => u = v
  BY DEF InvChat, Auteurs
<1>2. nfds \in Nat \ {0} /\ s \in 1 .. nfds - 1
  BY DEF InvChat, Base, TypeOKServeur, Cases
<1>3. A \in Injection(Cases, Clients)
  BY <1>1 DEF Injection, IsInjective
<1>4. Cardinality(Cases) <= Cardinality(Clients) /\ Cardinality(Clients) \in Nat
  BY <1>3, FS_Injection, FS_CardinalityType
<1>5. Cardinality(Cases) = nfds - 1
  <2>1. \A a, b \in Int : Cardinality(a .. b) = IF a <= b THEN b - a + 1 ELSE 0
    BY FS_Interval
  <2>2. 1 \in Int /\ nfds - 1 \in Int
    BY <1>2
  <2>3. Cardinality(1 .. nfds - 1) = nfds - 1
    BY <1>2, <2>1, <2>2
  <2>4. QED
    BY <2>3 DEF Cases
<1>6. QED
  BY <1>2, <1>4, <1>5

LEMMA EcrireChat ==
    ASSUME InvChat, srv = "ecrire", ~Fin, j # i, fds[j] # -1,
           vers_cli' = [vers_cli EXCEPT ![descr[fds[j]]] = Append(@, Diffuse(i, buf))],
           j' = j + 1,
           UNCHANGED <<varsClients, vers_srv, attente, fermees, varsServeur, srv>>
    PROVE  InvChat'
<1> USE DEF varsClients, varsServeur, varsFds
<1>0. Base /\ TypesChat /\ OrdreChat /\ OrdreTampon /\ TypeOKServeur
  BY DEF InvChat, Base
<1>1. Base'
  BY <1>0, BaseIntacte
<1>2. /\ nfds \in Nat \ {0} /\ j \in 1 .. nfds /\ j # nfds /\ j \in Nat \ {0}
      /\ j \in Utiles /\ i \in Utiles /\ j + 1 \in 1 .. nfds
  BY <1>0 DEF TypesChat, TypeOKServeur, Base, Tour, Utiles, Cases, Fin
<1>3. /\ Cases' = Cases /\ Utiles' = Utiles /\ Utiles \subseteq Cases
      /\ \A s \in Utiles : descr[fds[s]] \in Clients /\ fds[s] \in Servies
      /\ \A s \in Utiles : descr[fds[s]] = descr[fds[j]] => s = j
  <2>1. \A s \in Utiles : descr[fds[s]] \in Clients /\ fds[s] \in Servies
    BY <1>0, CaseUtile DEF Base
  <2>2. \A s \in Utiles : descr[fds[s]] = descr[fds[j]] => s = j
    BY <1>0, <1>2, <2>1 DEF Base, Connexions, CasesDescr
  <2>3. QED
    BY <2>1, <2>2 DEF Utiles, Cases
<1>c. PICK c \in Clients : c = descr[fds[j]]
  BY <1>2, <1>3
<1>x. PICK x \in Clients : x = descr[fds[i]]
  BY <1>2, <1>3
<1>m. PICK m : m = Diffuse(i, buf)
  OBVIOUS
<1>4. /\ m \in Diffusions /\ m.de = i + 1 /\ m.de - 1 = i /\ m.texte = buf
      /\ m.coupe = (m.de >= DIX)
  <2>1. i \in Nat \ {0} /\ i <= Cardinality(Clients) /\ Cardinality(Clients) \in Nat
    BY <1>2, <1>3, NumeroBorne, FS_CardinalityType
  <2>2. buf \in Seq(Messages)
    BY <1>0 DEF TypeOKServeur
  <2>3. i + 1 \in 2 .. Cardinality(Clients) + 1 /\ i + 1 - 1 = i
    BY <2>1
  <2>4. m = [de |-> i + 1, texte |-> buf, coupe |-> i + 1 >= DIX]
    BY <1>m DEF Diffuse
  <2>5. m.de = i + 1 /\ m.texte = buf /\ m.coupe = (i + 1 >= DIX)
    BY <2>4
  <2>6. (i + 1 >= DIX) \in BOOLEAN
    OBVIOUS
  <2>7. m \in Diffusions
    BY <2>2, <2>3, <2>4, <2>6 DEF Diffusions
  <2>8. m.coupe = (m.de >= DIX)
    BY <2>5, Zenon
  <2>9. m.de - 1 = i
    BY <2>1, <2>5
  <2>10. QED
    BY <2>5, <2>7, <2>8, <2>9
<1>5. /\ Croissantes(buf, x)
      /\ \A k \in DOMAIN buf : \A l \in DOMAIN vers_srv[x] : buf[k][2] < vers_srv[x][l][2]
      /\ \A k \in DOMAIN buf : \A s \in Utiles :
             s >= j => Avant(Destine(descr[fds[s]]), buf[k])
  BY <1>0, <1>x DEF OrdreTampon
<1>6. /\ vers_cli' \in [Clients -> Seq(Diffusions)]
      /\ Destine(c) \in Seq(Diffusions) /\ Destine(c)' = Append(Destine(c), m)
      /\ \A d \in Clients : d # c => Destine(d)' = Destine(d)
      /\ \A d \in Clients : Destine(d) \in Seq(Diffusions) /\ Envoyees(d)' = Envoyees(d)
                            /\ Envoyees(d) \in Int
  <2>1. /\ vers_cli \in [Clients -> Seq(Diffusions)]
        /\ vers_cli[c] \in Seq(Diffusions) /\ recus[c] \in Seq(Diffusions)
    BY <1>0, DestineType DEF TypesChat, TypeOKSockets
  <2>2. Append(vers_cli[c], m) \in Seq(Diffusions)
    BY <1>4, <2>1
  <2>3. vers_cli' = [vers_cli EXCEPT ![c] = Append(vers_cli[c], m)]
    BY <1>c, <1>m, <2>1
  <2>4. /\ vers_cli'[c] = Append(vers_cli[c], m)
        /\ \A d \in Clients : d # c => vers_cli'[d] = vers_cli[d]
        /\ vers_cli' \in [Clients -> Seq(Diffusions)]
    BY <2>1, <2>2, <2>3
  <2>5. recus[c] \o Append(vers_cli[c], m) = Append(recus[c] \o vers_cli[c], m)
    <3> DEFINE p == recus[c]
               q == vers_cli[c]
    <3>1. p \in Seq(Diffusions) /\ q \in Seq(Diffusions) /\ m \in Diffusions
      BY <1>4, <2>1
    <3> HIDE DEF p, q
    <3>2. p \o Append(q, m) = Append(p \o q, m)
      BY <3>1, EcritureDestine
    <3>3. QED
      BY <3>2 DEF p, q
  <2>6. \A d \in Clients : Destine(d) \in Seq(Diffusions) /\ Envoyees(d) \in Int
    BY <1>0, DestineType
  <2>7. QED
    BY <2>4, <2>5, <2>6 DEF Destine, Envoyees
<1>7. TypesChat'
  BY <1>0, <1>2, <1>6 DEF TypesChat, TypeOKSockets
<1>8. OrdreChat'
  <2>1. \A y \in Clients : Croissantes(vers_srv[y], y)'
    BY <1>0, <1>6 DEF OrdreChat, Croissantes
  <2>2. ASSUME NEW d \in Clients PROVE EnOrdre(Destine(d))'
    <3>1. CASE d = c
      <4> DEFINE q == Destine(c)
      <4>1. /\ \A k \in DOMAIN m.texte : Avant(q, m.texte[k])
            /\ \A k, l \in DOMAIN m.texte : k < l => m.texte[k][2] < m.texte[l][2]
        BY <1>2, <1>4, <1>5, <1>c DEF Croissantes
      <4>2. q \in Seq(Diffusions) /\ EnOrdre(q) /\ m \in Diffusions
        BY <1>0, <1>4, <1>6 DEF OrdreChat
      <4>3. EnOrdre(Append(q, m))
        <5> HIDE DEF q
        <5> QED
          BY <4>1, <4>2, OrdreAjout
      <4>4. QED
        BY <1>6, <3>1, <4>3
    <3>2. CASE d # c
      BY <1>0, <1>6, <3>2 DEF OrdreChat
    <3>3. QED
      BY <3>1, <3>2
  <2>3. ASSUME NEW d \in Clients, NEW b, Avant(Destine(d), b),
               \A k \in DOMAIN m.texte : m.texte[k][1] = b[1] => m.texte[k][2] < b[2]
        PROVE  Avant(Destine(d)', b)
    <3>1. CASE d = c
      <4> DEFINE q == Destine(c)
      <4>1. q \in Seq(Diffusions) /\ m \in Diffusions /\ Avant(q, b) /\ Destine(d)' = Append(q, m)
        BY <1>4, <1>6, <2>3, <3>1
      <4>2. Avant(Append(q, m), b)
        <5> HIDE DEF q
        <5> QED
          BY <2>3, <4>1, AvantAjout
      <4>3. QED
        BY <4>1, <4>2
    <3>2. CASE d # c
      BY <1>6, <2>3, <3>2
    <3>3. QED
      BY <3>1, <3>2
  <2>4. ASSUME NEW d \in Clients, NEW y \in Clients
        PROVE  /\ Avant(Destine(d), <<y, Envoyees(y) + 1>>)'
               /\ \A l \in DOMAIN vers_srv'[y] : Avant(Destine(d), vers_srv[y][l])'
    <3>1. ASSUME NEW k \in DOMAIN m.texte, m.texte[k][1] = y
          PROVE  m.texte[k][2] < Envoyees(y) + 1
      <4>1. k \in DOMAIN buf /\ m.texte[k] = buf[k] /\ buf[k][2] \in Int
        BY <1>0, <1>4, <3>1, TamponType
      <4>2. y = x /\ buf[k][2] <= Envoyees(y)
        BY <1>5, <3>1, <4>1 DEF Croissantes
      <4>3. QED
        BY <1>6, <4>1, <4>2
    <3>2. Avant(Destine(d)', <<y, Envoyees(y) + 1>>)
      <4>1. Avant(Destine(d), <<y, Envoyees(y) + 1>>)
        BY <1>0 DEF OrdreChat
      <4>2. QED
        BY <2>3, <3>1, <4>1
    <3>3. ASSUME NEW l \in DOMAIN vers_srv[y] PROVE Avant(Destine(d)', vers_srv[y][l])
      <4>1. Avant(Destine(d), vers_srv[y][l]) /\ vers_srv[y][l][1] = y
        BY <1>0 DEF OrdreChat, Croissantes
      <4>2. ASSUME NEW k \in DOMAIN m.texte, m.texte[k][1] = vers_srv[y][l][1]
            PROVE  m.texte[k][2] < vers_srv[y][l][2]
        BY <1>4, <1>5, <4>1, <4>2 DEF Croissantes
      <4>3. QED
        BY <2>3, <4>1, <4>2
    <3>4. QED
      BY <1>6, <3>2, <3>3
  <2>5. QED
    BY <2>1, <2>2, <2>4 DEF OrdreChat
<1>9. OrdreTampon'
  <2>1. Croissantes(buf, x)'
    BY <1>5, <1>6 DEF Croissantes
  <2>2. ASSUME NEW k \in DOMAIN buf, NEW s \in Utiles, s >= j + 1
        PROVE  Avant(Destine(descr[fds[s]]), buf[k])'
    <3>0. s \in Int /\ s >= j /\ s # j
      BY <1>2, <2>2 DEF Utiles, Cases
    <3>1. PICK d \in Clients : d = descr[fds[s]]
      BY <1>3
    <3>2. d # c
      BY <1>3, <1>c, <3>0, <3>1
    <3>3. Avant(Destine(d), buf[k]) /\ Destine(d)' = Destine(d)
      BY <1>5, <1>6, <3>0, <3>1, <3>2
    <3>4. Destine(descr[fds[s]])' = Destine(d)'
      BY <3>1 DEF Destine
    <3>5. QED
      BY <3>3, <3>4
  <2>3. QED
    BY <1>3, <1>5, <1>x, <2>1, <2>2 DEF OrdreTampon, Croissantes, Envoyees
<1>10. PICK A \in [Cases -> Clients] : Auteurs(A) /\ Signatures(A)
  BY DEF InvChat
<1>11. Auteurs(A)'
  BY <1>3, <1>10 DEF Auteurs
<1>12. Signe(m, A, c)
  <2>1. A[i] = x /\ A[j] = c /\ A[i] # A[j]
    BY <1>2, <1>3, <1>10, <1>c, <1>x DEF Auteurs
  <2>2. \A k \in DOMAIN m.texte : m.texte[k][1] = x
    BY <1>4, <1>5 DEF Croissantes
  <2>3. i \in Cases
    BY <1>2, <1>3
  <2>4. QED
    BY <1>4, <2>1, <2>2, <2>3 DEF Signe
<1>13. Signatures(A)'
  <2> SUFFICES ASSUME NEW d \in Clients, NEW a \in DOMAIN Destine(d)'
               PROVE  Signe(Destine(d)[a], A, d)'
    BY DEF Signatures
  <2>1. Signe(Destine(d)'[a], A, d)
    <3>1. CASE d # c
      BY <1>6, <1>10, <3>1 DEF Signatures
    <3>2. CASE d = c
      <4> DEFINE q == Destine(c)
      <4>0. q \in Seq(Diffusions) /\ a \in DOMAIN Append(q, m) /\ m \in Diffusions
        BY <1>4, <1>6, <3>2
      <4>1. \/ a \in DOMAIN q /\ Append(q, m)[a] = q[a]
            \/ Append(q, m)[a] = m
        <5> HIDE DEF q
        <5> QED
          BY <4>0, UnDePlus
      <4>2. \A b \in DOMAIN q : Signe(q[b], A, c)
        BY <1>10 DEF Signatures
      <4>3. QED
        BY <1>6, <1>12, <3>2, <4>1, <4>2
    <3>3. QED
      BY <3>1, <3>2
  <2>2. QED
    BY <1>3, <2>1 DEF Signe
<1>14. QED
  BY <1>1, <1>3, <1>7, <1>8, <1>9, <1>10, <1>11, <1>13 DEF InvChat

LEMMA DiffuserChat ==
    ASSUME InvChat, Diffuser
    PROVE  InvChat'
<1>1. CASE Ouvert(descr[fds[j]])
  BY <1>1, EcrireChat DEF Diffuser
<1>2. CASE ~Ouvert(descr[fds[j]])
  <2> USE DEF Mourir, varsClients, varsServeur, varsFds
  <2>0. Mourir /\ UNCHANGED <<varsServeur, j>> /\ srv = "ecrire" /\ i \in Utiles /\ Base
    BY <1>2 DEF Diffuser, InvChat, Base, Tour
  <2>1. Base'
    BY <2>0, MourirBase
  <2>2. OrdreTampon'
    BY <2>0 DEF OrdreTampon
  <2>3. j' \in 1 .. nfds' /\ (srv' \in {"poll", "boucle"} => j' = 1)
    BY <2>0 DEF InvChat, TypesChat
  <2>4. /\ Cases' = Cases /\ Utiles' = Utiles
        /\ \A s \in Utiles' : descr'[fds'[s]] = descr[fds[s]]
    BY <2>0, CasesChat
  <2>5. QED
    BY <2>0, <2>1, <2>2, <2>3, <2>4, ServeurChat
<1>3. QED
  BY <1>1, <1>2

LEMMA SauterChat ==
    ASSUME InvChat, Sauter
    PROVE  InvChat'
<1> USE DEF varsClients, varsSockets, varsServeur, varsFds
<1>0. /\ Base /\ srv = "ecrire" /\ srv' = "ecrire" /\ j' = j + 1 /\ j # nfds
      /\ UNCHANGED <<varsClients, varsSockets, varsServeur>>
  BY DEF Sauter, Fin, InvChat
<1>1. Base'
  BY <1>0, BaseIntacte
<1>2. j \in Nat /\ j' \in 1 .. nfds'
  BY <1>0 DEF InvChat, TypesChat, Base, TypeOKServeur
<1>3. OrdreTampon'
  <2>1. \A s \in Utiles : s >= j + 1 => s >= j
    BY <1>2 DEF Utiles, Cases
  <2>2. Utiles' = Utiles
    BY <1>0, CasesChat
  <2>3. QED
    BY <1>0, <2>1, <2>2 DEF InvChat, OrdreTampon, Croissantes, Envoyees, Destine
<1>4. /\ Cases' = Cases /\ Utiles' = Utiles
      /\ \A s \in Utiles' : descr'[fds'[s]] = descr[fds[s]]
  BY <1>0, CasesChat
<1>5. QED
  BY <1>0, <1>1, <1>2, <1>3, <1>4, ServeurChat

LEMMA FinDiffusionChat ==
    ASSUME InvChat, FinDiffusion
    PROVE  InvChat'
<1> USE DEF varsClients, varsSockets, varsFds
<1>0. /\ Base /\ srv = "ecrire" /\ j' = 1 /\ buf' = <<>> /\ Suite(nfds, revents)
      /\ UNCHANGED <<varsClients, varsSockets, varsFds>>
  BY DEF FinDiffusion, InvChat
<1>1. Base'
  BY <1>0, FinTourBase
<1>2. srv' \in {"poll", "boucle"}
  BY <1>0 DEF Suite
<1>3. OrdreTampon'
  BY <1>2 DEF OrdreTampon
<1>4. j' \in 1 .. nfds'
  BY <1>0, PremiereCase
<1>5. /\ Cases' = Cases /\ Utiles' = Utiles
      /\ \A s \in Utiles' : descr'[fds'[s]] = descr[fds[s]]
  BY <1>0, CasesChat
<1>6. QED
  BY <1>0, <1>1, <1>3, <1>4, <1>5, ServeurChat

LEMMA BegaiementChat ==
    ASSUME InvChat, UNCHANGED varsChat
    PROVE  InvChat'
<1> USE DEF varsChat, varsClients, varsSockets, varsServeur, varsFds
<1>1. Base'
  BY BaseIntacte DEF InvChat
<1>2. OrdreTampon'
  BY DEF InvChat, OrdreTampon, Croissantes, Envoyees, Destine, Utiles, Cases
<1>3. j' \in 1 .. nfds' /\ (srv' \in {"poll", "boucle"} => j' = 1)
  BY DEF InvChat, TypesChat
<1>4. /\ Cases' = Cases /\ Utiles' = Utiles
      /\ \A s \in Utiles' : descr'[fds'[s]] = descr[fds[s]]
  BY CasesChat
<1>5. QED
  BY <1>1, <1>2, <1>3, <1>4, ServeurChat

LEMMA NextInvChat == InvChat /\ [NextChat]_varsChat => InvChat'
<1> SUFFICES ASSUME InvChat, [NextChat]_varsChat PROVE InvChat'
  OBVIOUS
<1>1. ASSUME EntreeSortie, UNCHANGED j PROVE InvChat'
  BY <1>1, EntreeChat, AccepterChat, DeconnecterChat, LireChat DEF EntreeSortie
<1>2. CASE serveurChat
  BY <1>1, <1>2, DiffuserChat, SauterChat, FinDiffusionChat DEF serveurChat
<1>3. ASSUME NEW c \in Clients, unClient(c), UNCHANGED j PROVE InvChat'
  <2>1. UNCHANGED <<srv, varsServeur, j>>
    BY <1>3 DEF unClient, cli
  <2>2. QED
    BY <1>3, <2>1, ConnecterChat, FgetsChat, EnvoyerChat, RecevoirChat DEF unClient, cli
<1>4. ASSUME NEW c \in Clients, interruption(c), UNCHANGED j PROVE InvChat'
  BY <1>4, TuerChat DEF interruption
<1>5. CASE UNCHANGED varsChat
  BY <1>5, BegaiementChat
<1>6. QED
  BY <1>2, <1>3, <1>4, <1>5 DEF NextChat

LEMMA SpecInvChat == SpecChat => []InvChat
BY InitInvChat, NextInvChat, PTL DEF SpecChat

-----------------------------------------------------------------------------
(* The property of the run srv_chat.                                        *)

\* srv_chat.c, the array fds: as in srv_poll.c the slots in use and the open
\* descriptors correspond one to one, nbr_clients counts them, and no connection
\* is left open and forgotten.
THEOREM CasesCoherentesChat == SpecChat => []CasesCoherentes
<1>1. InvChat => CasesCoherentes
  BY BaseCoherente DEF InvChat
<1>2. QED
  BY <1>1, SpecInvChat, PTL

LEMMA ChatTypeOK == InvChat => TypeOKChat
BY DEF InvChat, TypesChat, TypeOKChat, Base, TypesCommuns

\* What a client is sent is not its own.
LEMMA PasASoi ==
    ASSUME InvChat, NEW c \in Clients, NEW a \in DOMAIN Destine(c),
           NEW k \in DOMAIN Destine(c)[a].texte
    PROVE  Destine(c)[a].texte[k][1] # c
BY DEF InvChat, Signatures, Signe

LEMMA MemeAuteur ==
    ASSUME InvChat, NEW c \in Clients, NEW d \in Clients,
           NEW a \in DOMAIN Destine(c), NEW b \in DOMAIN Destine(d),
           Destine(c)[a].de = Destine(d)[b].de
    PROVE  /\ Destine(c)[a].coupe = Destine(d)[b].coupe
           /\ Destine(c)[a].texte # <<>> /\ Destine(d)[b].texte # <<>> =>
                  Destine(c)[a].texte[1][1] = Destine(d)[b].texte[1][1]
<1>1. PICK A \in [Cases -> Clients] : Signatures(A)
  BY DEF InvChat
<1>2. Signe(Destine(c)[a], A, c) /\ Signe(Destine(d)[b], A, d)
  BY <1>1 DEF Signatures
<1>3. ASSUME NEW q \in Seq(Messages), q # <<>> PROVE 1 \in DOMAIN q
  BY <1>3
<1>4. Destine(c)[a].texte \in Seq(Messages) /\ Destine(d)[b].texte \in Seq(Messages)
  <2>1. Destine(c)[a] \in Diffusions /\ Destine(d)[b] \in Diffusions
    BY DestineType DEF InvChat
  <2>2. QED
    BY <2>1 DEF Diffusions
<1>5. QED
  BY <1>2, <1>3, <1>4 DEF Signe

\* srv_chat.c with cli.c: a client receives the lines of another in the order
\* in which they were sent, none twice and never its own, and the number before
\* a message always designates the same client, whoever comes and goes.
THEOREM DiffusionOrdonneeToujours == SpecChat => []DiffusionOrdonnee
<1>1. ASSUME InvChat PROVE DiffusionOrdonnee
  <2>1. TypeOKChat
    BY <1>1, ChatTypeOK
  <2>2. AuteurConnu
    BY <1>1, MemeAuteur DEF AuteurConnu
  <2>3. ASSUME NEW c \in Clients, NEW a \in DOMAIN Destine(c), NEW b \in DOMAIN Destine(c),
               NEW k \in DOMAIN Destine(c)[a].texte, NEW l \in DOMAIN Destine(c)[b].texte
        PROVE  LET m == Destine(c)[a].texte[k]   n == Destine(c)[b].texte[l] IN
               /\ m[1] # c
               /\ m[1] = n[1] /\ (a < b \/ (a = b /\ k < l)) => m[2] < n[2]
    <3>1. Destine(c)[a].texte[k][1] # c
      BY <1>1, PasASoi
    <3>2. EnOrdre(Destine(c))
      BY <1>1 DEF InvChat, OrdreChat
    <3>3. QED
      BY <3>1, <3>2 DEF EnOrdre
  <2>4. QED
    BY <2>1, <2>2, <2>3 DEF DiffusionOrdonnee
<1>2. InvChat => DiffusionOrdonnee
  BY <1>1
<1>3. QED
  BY <1>2, SpecInvChat, PTL
==============================================================================
