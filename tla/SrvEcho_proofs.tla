---------------------------- MODULE SrvEcho_proofs ----------------------------
(***************************************************************************)
(* Proofs about SrvEcho for any finite set of clients and any bounds.       *)
(***************************************************************************)
EXTENDS SrvEcho, FiniteSetTheorems, TLAPS

USE BornesAssumption, ClientsAssumption

-----------------------------------------------------------------------------
(* The inductive invariant.                                                 *)

\* What has been sent by c and not been printed by it: at most one line.
Reponses(c)  == Len(vers_cli[c])
Lues(c)      == Len(EnCours(c))
Demandes(c)  == Len(vers_srv[c])
Recues(c)    == Len(recus[c])
EnAttente(c) == Reponses(c) + Lues(c) + Demandes(c)

\* A client waits for the answer to its line before it sends another one, and
\* only one that is interrupted leaves a line in the hands of the server.
Echange(c) ==
    /\ pc[c] \in {"connect", "fgets", "write"} => EnAttente(c) = 0
    /\ pc[c] = "read" => EnAttente(c) = 1
    /\ EnAttente(c) <= 1
    /\ pc[c] \in {"connect", "fgets", "read"} => lignes[c] = Recues(c) + EnAttente(c)
    /\ pc[c] = "write" => lignes[c] = Recues(c) + 1
    /\ EnCours(c) # <<>> => pc[c] \in {"read", "tue"}
    /\ EnCours(c) # <<>> /\ pc[c] = "read" => c \notin fermees
    /\ pc[c] = "fini" /\ c \notin fermees => EnAttente(c) = 0

Echanges == \A c \in Clients : Echange(c)

\* The server ends are those of the connection that is served and of the one
\* that waits.
Descripteurs ==
    \A c \in Clients : pc[c] # "connect" /\ c \notin fermees =>
        \/ client = c /\ srv \in {"read", "write"}
        \/ attente = <<c>>

\* The point of the server tells whom it serves and what it holds.
SessionCoherente ==
    /\ srv \in {"read", "write"} =>
           client \in Clients \ fermees /\ pc[client] # "connect"
    /\ srv \in {"accept", "read"} => buf = <<>>
    /\ srv = "write" => buf # <<>>
    /\ srv = "mort" => fermees = Clients /\ \E c \in Clients : pc[c] = "tue"
    /\ srv # "mort" => \A c \in fermees : pc[c] # "connect"
    /\ \A c \in Clients : attente = <<c>> =>
           pc[c] # "connect" /\ c \notin fermees /\ (srv \in {"read", "write"} => c # client)

IInv == TypeOK /\ Echanges /\ Descripteurs /\ SessionCoherente

-----------------------------------------------------------------------------
(* The queues.                                                              *)

LEMMA Vide ==
    ASSUME NEW T, NEW q \in Seq(T)
    PROVE  Len(q) \in Nat /\ (Len(q) = 0 <=> q = <<>>)
OBVIOUS

LEMMA Jointe ==
    ASSUME NEW T, NEW q \in Seq(T), NEW r \in Seq(T)
    PROVE  q \o r \in Seq(T) /\ Len(q \o r) = Len(q) + Len(r)
OBVIOUS

LEMMA Seul ==
    ASSUME NEW T, NEW q \in Seq(T), Len(q) <= 1, q # <<>>
    PROVE  Head(q) \in T /\ q = <<Head(q)>> /\ Tail(q) = <<>>
<1> DEFINE n == Len(q)
<1>1. n \in Nat /\ n # 0 /\ n <= 1
  OBVIOUS
<1>2. n = 1
  <2> HIDE DEF n
  <2>1. QED
    BY <1>1
<1>3. Head(q) = q[1] /\ q[1] \in T /\ q = <<q[1]>>
  BY <1>2
<1>4. Tail(q) = <<>>
  <2>1. Tail(q) \in Seq(T) /\ Len(Tail(q)) = 0
    BY <1>2
  <2>2. QED
    BY <2>1
<1>5. QED
  BY <1>3, <1>4

\* The queues of a client, and their lengths.
LEMMA Files ==
    ASSUME TypeOK, NEW c \in Clients
    PROVE  /\ vers_cli[c] \in Seq(Messages) /\ EnCours(c) \in Seq(Messages)
           /\ vers_srv[c] \in Seq(Messages) /\ recus[c] \in Seq(Messages)
           /\ lignes[c] \in 0 .. MAXLIGNES
<1>1. EnCours(c) \in Seq(Messages)
  BY DEF TypeOK, EnCours
<1>2. QED
  BY <1>1 DEF TypeOK, TypeOKSockets

LEMMA Longueurs ==
    ASSUME TypeOK, NEW c \in Clients
    PROVE  /\ Reponses(c) \in Nat /\ Lues(c) \in Nat
           /\ Demandes(c) \in Nat /\ Recues(c) \in Nat /\ EnAttente(c) \in Nat
           /\ Reponses(c) = 0 <=> vers_cli[c] = <<>>
           /\ Lues(c) = 0 <=> EnCours(c) = <<>>
           /\ Demandes(c) = 0 <=> vers_srv[c] = <<>>
<1>1. /\ Reponses(c) \in Nat /\ Lues(c) \in Nat
      /\ Demandes(c) \in Nat /\ Recues(c) \in Nat
      /\ Reponses(c) = 0 <=> vers_cli[c] = <<>>
      /\ Lues(c) = 0 <=> EnCours(c) = <<>>
      /\ Demandes(c) = 0 <=> vers_srv[c] = <<>>
  BY Files, Vide DEF Reponses, Lues, Demandes, Recues
<1>2. EnAttente(c) \in Nat
  BY <1>1 DEF EnAttente
<1>3. QED
  BY <1>1, <1>2

\* A queue of one message is read whole.
LEMMA LectureEntiere ==
    ASSUME NEW T, NEW q \in Seq(T), Len(q) <= 1, NEW lu \in Lectures(q)
    PROVE  lu = q /\ Len(q) = 1 /\ Reste(q, lu) = <<>>
<1>1. PICK n \in 1 .. Len(q) : lu = SubSeq(q, 1, n)
  BY DEF Lectures
<1>2. n = 1 /\ Len(q) = 1
  <2>1. Len(q) \in Nat
    OBVIOUS
  <2>2. QED
    BY <1>1, <2>1
<1>3. lu = q
  BY <1>1, <1>2
<1>4. Reste(q, lu) = <<>>
  BY <1>2, <1>3 DEF Reste
<1>5. QED
  BY <1>2, <1>3, <1>4

\* The bound on the lines bounds those of each client.
LEMMA LignesBornees ==
    ASSUME TypeOK, Cardinality(LignesLues) < MAXLIGNES, NEW c \in Clients
    PROVE  lignes[c] + 1 \in 0 .. MAXLIGNES
<1> DEFINE L == {c} \X (1 .. MAXLIGNES)
<1>1. lignes[c] \in 0 .. MAXLIGNES
  BY DEF TypeOK, TypeOKSockets
<1>2. SUFFICES ASSUME lignes[c] = MAXLIGNES PROVE FALSE
  BY <1>1
<1>3. IsFiniteSet({c}) /\ Cardinality({c}) = 1
  BY FS_Singleton
<1>4. IsFiniteSet(1 .. MAXLIGNES) /\ Cardinality(1 .. MAXLIGNES) = MAXLIGNES
  <2>1. 1 \in Int /\ MAXLIGNES \in Int /\ MAXLIGNES >= 0
    OBVIOUS
  <2>2. QED
    BY <2>1, FS_Interval
<1>5. Cardinality(L) = MAXLIGNES
  <2> DEFINE S == {c}
             T == 1 .. MAXLIGNES
  <2>1. IsFiniteSet(S) /\ IsFiniteSet(T) /\ Cardinality(S) = 1 /\ Cardinality(T) = MAXLIGNES
    BY <1>3, <1>4
  <2>2. Cardinality(S \X T) = Cardinality(S) * Cardinality(T)
    <3> HIDE DEF S, T
    <3> QED
      BY <2>1, FS_Product
  <2>3. Cardinality(S \X T) = 1 * MAXLIGNES
    <3> HIDE DEF S, T
    <3> QED
      BY <2>1, <2>2
  <2>4. QED
    BY <2>3
<1>6. L \subseteq LignesLues
  BY <1>2 DEF LignesLues, Messages
<1>7. IsFiniteSet(LignesLues)
  <2>1. IsFiniteSet(Messages)
    BY <1>4, FS_Product DEF Messages
  <2>2. QED
    BY <2>1, FS_Subset DEF LignesLues
<1>8. Cardinality(L) <= Cardinality(LignesLues) /\ Cardinality(LignesLues) \in Nat
  BY <1>6, <1>7, FS_Subset, FS_CardinalityType
<1>9. QED
  BY <1>5, <1>8

-----------------------------------------------------------------------------
(* Every action keeps the invariant.                                        *)

LEMMA InitIInv == Init => IInv
<1> SUFFICES ASSUME Init PROVE IInv
  OBVIOUS
<1> USE DEF Init, InitSockets
<1>1. TypeOK
  BY DEF TypeOK, TypeOKSockets
<1>2. Echanges
  BY DEF Echanges, Echange, EnAttente, Reponses, Lues, Demandes, Recues, EnCours
<1>3. Descripteurs /\ SessionCoherente
  BY DEF Descripteurs, SessionCoherente
<1>4. QED
  BY <1>1, <1>2, <1>3 DEF IInv

\* What a step leaves alone of a client.
Intact(c) ==
    /\ recus'[c] = recus[c] /\ vers_cli'[c] = vers_cli[c]
    /\ vers_srv'[c] = vers_srv[c] /\ EnCours(c)' = EnCours(c)

LEMMA CompteIntact ==
    ASSUME NEW c, Intact(c)
    PROVE  /\ Recues(c)' = Recues(c) /\ Reponses(c)' = Reponses(c)
           /\ Lues(c)' = Lues(c) /\ Demandes(c)' = Demandes(c)
           /\ EnAttente(c)' = EnAttente(c)
BY DEF Intact, Recues, Reponses, Lues, Demandes, EnAttente

LEMMA EchangeIntact ==
    ASSUME NEW d \in Clients, Echange(d), Intact(d), pc'[d] = pc[d],
           lignes'[d] = lignes[d], d \in fermees' <=> d \in fermees
    PROVE  Echange(d)'
<1>1. EnCours(d)' = EnCours(d) /\ EnAttente(d)' = EnAttente(d) /\ Recues(d)' = Recues(d)
  BY CompteIntact DEF Intact
<1>2. QED
  BY <1>1 DEF Echange

\* What a step of the client c leaves alone: the other clients and the server.
Autres(c) ==
    /\ \A d \in Clients : d # c => pc'[d] = pc[d] /\ lignes'[d] = lignes[d] /\ Intact(d)
    /\ client' = client /\ buf' = buf /\ srv' = srv /\ fermees' = fermees
    /\ pc'[c] # "connect" /\ pc[c] # "tue"

\* It changes what waits only when it connects.
Attente(c) ==
    /\ \/ attente' = attente
       \/ attente' = <<c>> /\ c \notin fermees /\ pc[c] = "connect" /\ attente = <<>>
    /\ pc[c] = "connect" => attente' = <<c>> \/ srv = "mort"

\* Such a step keeps the invariant when it keeps that of the client.
LEMMA ClientIInv ==
    ASSUME IInv, NEW c \in Clients, TypeOK', Echange(c)', Autres(c), Attente(c)
    PROVE  IInv'
<1> USE DEF Autres, Attente
<1>1. Echanges'
  BY EchangeIntact DEF IInv, Echanges
<1>2. Descripteurs'
  <2> SUFFICES ASSUME NEW d \in Clients, pc'[d] # "connect", d \notin fermees
               PROVE  (client = d /\ srv \in {"read", "write"}) \/ attente' = <<d>>
    BY DEF Descripteurs
  <2>1. srv # "mort"
    BY DEF IInv, SessionCoherente
  <2>2. CASE d = c
    BY <2>1, <2>2 DEF IInv, Descripteurs
  <2>3. CASE d # c
    BY <2>3 DEF IInv, Descripteurs
  <2>4. QED
    BY <2>2, <2>3
<1>3. SessionCoherente'
  <2>1. \A d \in Clients : pc[d] # "connect" => pc'[d] # "connect"
    OBVIOUS
  <2>2. \A d \in Clients : pc[d] = "tue" => pc'[d] = "tue"
    OBVIOUS
  <2>3. \A d \in Clients : attente' = <<d>> =>
            pc'[d] # "connect" /\ d \notin fermees /\ (srv \in {"read", "write"} => d # client)
    BY <2>1 DEF IInv, SessionCoherente
  <2>4. fermees \subseteq Clients
    BY DEF IInv, TypeOK, TypeOKSockets
  <2>5. QED
    BY <2>1, <2>2, <2>3, <2>4 DEF IInv, SessionCoherente
<1>4. QED
  BY <1>1, <1>2, <1>3 DEF IInv

LEMMA ConnecterIInv ==
    ASSUME IInv, NEW c \in Clients, Connecter(c), UNCHANGED <<srv, client, buf>>
    PROVE  IInv'
<1> USE DEF Connecter, Aller
<1>1. TypeOK'
  <2>1. <<c>> \in Seq(Clients) /\ Len(<<c>>) = 1
    OBVIOUS
  <2>2. attente' \in Seq(Clients) /\ Len(attente') <= 1
    <3>1. CASE attente' = attente
      BY <3>1 DEF IInv, TypeOK, TypeOKSockets
    <3>2. CASE attente' = <<c>>
      BY <2>1, <3>2
    <3>3. QED
      BY <3>1, <3>2
  <2>3. pc' \in [Clients -> {"connect", "fgets", "write", "read", "fini", "tue"}]
    BY DEF IInv, TypeOK, TypeOKSockets
  <2>4. QED
    BY <2>2, <2>3 DEF IInv, TypeOK, TypeOKSockets
<1>2. \A d \in Clients : Intact(d) /\ lignes'[d] = lignes[d] /\ (d # c => pc'[d] = pc[d])
  BY DEF Intact, EnCours, IInv, TypeOK, TypeOKSockets
<1>3. pc[c] = "connect" /\ pc'[c] \in {"fgets", "fini"} /\ fermees' = fermees
  BY DEF IInv, TypeOK, TypeOKSockets
<1>4. Echange(c)'
  BY <1>2, <1>3, CompteIntact DEF Intact, IInv, Echanges, Echange
<1>5. srv # "mort" => c \notin fermees
  BY DEF IInv, SessionCoherente
<1>6. Autres(c) /\ Attente(c)
  BY <1>2, <1>3, <1>5 DEF Autres, Attente
<1>7. QED
  BY <1>1, <1>4, <1>6, ClientIInv

LEMMA FgetsIInv ==
    ASSUME IInv, NEW c \in Clients, Fgets(c), UNCHANGED <<srv, client, buf>>
    PROVE  IInv'
<1> USE DEF Fgets, Aller, varsSockets
<1>1. TypeOK'
  <2>1. lignes' \in [Clients -> 0 .. MAXLIGNES]
    BY LignesBornees DEF IInv, TypeOK, TypeOKSockets
  <2>2. QED
    BY <2>1 DEF IInv, TypeOK, TypeOKSockets
<1>2. \A d \in Clients : Intact(d) /\ (d # c => pc'[d] = pc[d] /\ lignes'[d] = lignes[d])
  BY DEF Intact, EnCours, IInv, TypeOK, TypeOKSockets
<1>3. /\ pc[c] = "fgets" /\ UNCHANGED <<attente, fermees>>
      /\ \/ pc'[c] = "write" /\ lignes'[c] = lignes[c] + 1
         \/ pc'[c] = "fini" /\ lignes'[c] = lignes[c]
  BY DEF IInv, TypeOK, TypeOKSockets
<1>4. Echange(c)'
  <2>1. EnAttente(c) = 0 /\ lignes[c] = Recues(c) + EnAttente(c) /\ EnCours(c) = <<>>
    BY <1>3 DEF IInv, Echanges, Echange
  <2>2. Recues(c) \in Nat
    BY Longueurs DEF IInv
  <2>3. EnAttente(c)' = 0 /\ Recues(c)' = Recues(c) /\ EnCours(c)' = <<>>
    BY <1>2, <2>1, CompteIntact DEF Intact
  <2>4. QED
    BY <1>3, <2>1, <2>2, <2>3 DEF Echange
<1>5. Autres(c) /\ Attente(c)
  BY <1>2, <1>3 DEF Autres, Attente
<1>6. QED
  BY <1>1, <1>4, <1>5, ClientIInv

LEMMA EnvoyerIInv ==
    ASSUME IInv, NEW c \in Clients, Envoyer(c), UNCHANGED <<srv, client, buf>>
    PROVE  IInv'
<1> USE DEF Envoyer, Aller
<1>0. /\ <<c, lignes[c]>> \in Messages /\ lignes[c] = Recues(c) + 1
      /\ Append(vers_srv[c], <<c, lignes[c]>>) \in Seq(Messages)
  <2>1. lignes[c] = Recues(c) + 1
    BY DEF IInv, Echanges, Echange
  <2>2. <<c, lignes[c]>> \in Messages
    BY <2>1, Files, Longueurs DEF IInv, Messages
  <2>3. vers_srv[c] \in Seq(Messages)
    BY Files DEF IInv
  <2>4. QED
    BY <2>1, <2>2, <2>3
<1>1. TypeOK'
  <2>1. vers_srv' \in [Clients -> Seq(Messages)]
    BY <1>0 DEF IInv, TypeOK, TypeOKSockets
  <2>2. QED
    BY <2>1 DEF IInv, TypeOK, TypeOKSockets
<1>2. \A d \in Clients \ {c} : Intact(d) /\ pc'[d] = pc[d] /\ lignes'[d] = lignes[d]
  BY DEF Intact, EnCours, IInv, TypeOK, TypeOKSockets
<1>3. /\ pc[c] = "write" /\ UNCHANGED <<attente, fermees, lignes, recus, vers_cli>>
      /\ pc'[c] \in {"fini", "read"} /\ EnCours(c)' = EnCours(c)
      /\ pc'[c] = "fini" => c \in fermees /\ vers_srv' = vers_srv
      /\ pc'[c] = "read" => vers_srv'[c] = Append(vers_srv[c], <<c, lignes[c]>>)
  BY DEF IInv, TypeOK, TypeOKSockets, EnCours
<1>4. Echange(c)'
  <2>1. /\ EnAttente(c) = 0 /\ lignes[c] = Recues(c) + 1 /\ EnCours(c) = <<>>
        /\ Recues(c) \in Nat /\ Reponses(c) \in Nat /\ Lues(c) \in Nat /\ Demandes(c) \in Nat
    BY <1>3, Longueurs DEF IInv, Echanges, Echange
  <2>2. Recues(c)' = Recues(c) /\ Reponses(c)' = Reponses(c) /\ Lues(c)' = Lues(c)
    BY <1>3 DEF Recues, Reponses, Lues
  <2>3. CASE pc'[c] = "fini"
    <3>1. EnAttente(c)' = 0
      BY <1>3, <2>1, <2>2, <2>3 DEF EnAttente, Demandes
    <3>2. QED
      BY <1>3, <2>1, <2>3, <3>1 DEF Echange
  <2>4. CASE pc'[c] = "read"
    <3>1. Demandes(c)' = Demandes(c) + 1
      <4>1. vers_srv[c] \in Seq(Messages)
        BY Files DEF IInv
      <4>2. QED
        BY <1>3, <2>4, <4>1 DEF Demandes
    <3>2. EnAttente(c)' = 1
      BY <2>1, <2>2, <3>1 DEF EnAttente
    <3>3. QED
      BY <1>3, <2>1, <2>2, <2>4, <3>2 DEF Echange
  <2>5. QED
    BY <1>3, <2>3, <2>4
<1>5. Autres(c) /\ Attente(c)
  BY <1>2, <1>3 DEF Autres, Attente
<1>6. QED
  BY <1>1, <1>4, <1>5, ClientIInv

\* An answer comes whole; there is no end of file before it: a client whose
\* connection the server has closed has its line unread, and ends.
LEMMA RecevoirCas ==
    ASSUME IInv, NEW c \in Clients, Recevoir(c)
    PROVE  /\ EnCours(c) = <<>> /\ EnAttente(c) = 1
           /\ \/ /\ Reponses(c) = 1 /\ vers_srv[c] = <<>>
                 /\ recus' = [recus EXCEPT ![c] = @ \o vers_cli[c]]
                 /\ vers_cli' = [vers_cli EXCEPT ![c] = <<>>]
                 /\ Aller(c, "fgets")
              \/ /\ c \in fermees
                 /\ Aller(c, "fini")
                 /\ UNCHANGED <<recus, vers_cli>>
<1>1. TypeOK /\ EnAttente(c) = 1 /\ (EnCours(c) # <<>> => c \notin fermees)
  BY DEF Recevoir, IInv, Echanges, Echange
<1>2. /\ Reponses(c) \in Nat /\ Lues(c) \in Nat /\ Demandes(c) \in Nat
      /\ Reponses(c) = 0 <=> vers_cli[c] = <<>>
      /\ Lues(c) = 0 <=> EnCours(c) = <<>>
      /\ Demandes(c) = 0 <=> vers_srv[c] = <<>>
  BY <1>1, Longueurs
<1>3. ASSUME NEW lu \in Lectures(vers_cli[c])
      PROVE  /\ lu = vers_cli[c] /\ Reste(vers_cli[c], lu) = <<>> /\ Reponses(c) = 1
             /\ EnCours(c) = <<>> /\ vers_srv[c] = <<>>
  <2>1. Reponses(c) <= 1
    BY <1>1, <1>2 DEF EnAttente
  <2>2. lu = vers_cli[c] /\ Reponses(c) = 1 /\ Reste(vers_cli[c], lu) = <<>>
    BY <1>1, <2>1, Files, LectureEntiere DEF Reponses
  <2>3. QED
    BY <1>1, <1>2, <2>2 DEF EnAttente
<1>4. CASE \E lu \in Lectures(vers_cli[c]) :
              /\ recus' = [recus EXCEPT ![c] = @ \o lu]
              /\ vers_cli' = [vers_cli EXCEPT ![c] = Reste(@, lu)]
              /\ Aller(c, "fgets")
  BY <1>1, <1>3, <1>4
<1>5. CASE /\ vers_cli[c] = <<>> /\ c \in fermees
           /\ Aller(c, IF vers_srv[c] = <<>> THEN "fgets" ELSE "fini")
           /\ UNCHANGED <<recus, vers_cli>>
  <2>1. EnCours(c) = <<>>
    BY <1>1, <1>5
  <2>2. vers_srv[c] # <<>>
    BY <1>1, <1>2, <1>5, <2>1 DEF EnAttente
  <2>3. QED
    BY <1>1, <1>5, <2>1, <2>2
<1>6. QED
  BY <1>4, <1>5 DEF Recevoir

LEMMA RecevoirIInv ==
    ASSUME IInv, NEW c \in Clients, Recevoir(c), UNCHANGED <<srv, client, buf>>
    PROVE  IInv'
<1> USE DEF Aller
<1>1. TypeOK'
  <2>1. recus[c] \o vers_cli[c] \in Seq(Messages) /\ <<>> \in Seq(Messages)
    BY Files DEF IInv
  <2>0. recus \in [Clients -> Seq(Messages)] /\ vers_cli \in [Clients -> Seq(Messages)]
    BY DEF IInv, TypeOK, TypeOKSockets
  <2>2. recus' \in [Clients -> Seq(Messages)] /\ vers_cli' \in [Clients -> Seq(Messages)]
    <3>1. CASE UNCHANGED <<recus, vers_cli>>
      BY <2>0, <3>1
    <3>2. CASE /\ recus' = [recus EXCEPT ![c] = @ \o vers_cli[c]]
               /\ vers_cli' = [vers_cli EXCEPT ![c] = <<>>]
      BY <2>0, <2>1, <3>2
    <3>3. QED
      BY <3>1, <3>2, RecevoirCas
  <2>3. pc' \in [Clients -> {"connect", "fgets", "write", "read", "fini", "tue"}]
    BY RecevoirCas DEF IInv, TypeOK, TypeOKSockets
  <2>4. QED
    BY <2>2, <2>3 DEF IInv, TypeOK, TypeOKSockets, Recevoir
<1>2. \A d \in Clients \ {c} : Intact(d) /\ pc'[d] = pc[d] /\ lignes'[d] = lignes[d]
  BY RecevoirCas DEF Recevoir, Intact, EnCours, IInv, TypeOK, TypeOKSockets
<1>3. /\ pc[c] = "read" /\ UNCHANGED <<attente, fermees, lignes, vers_srv>>
      /\ EnCours(c)' = <<>> /\ EnCours(c) = <<>> /\ EnAttente(c) = 1
      /\ pc'[c] \in {"fini", "fgets"}
      /\ pc'[c] = "fini" => c \in fermees /\ Intact(c)
      /\ pc'[c] = "fgets" =>
             /\ Reponses(c) = 1 /\ vers_srv[c] = <<>> /\ vers_cli'[c] = <<>>
             /\ recus'[c] = recus[c] \o vers_cli[c]
  <2>0. /\ recus \in [Clients -> Seq(Messages)] /\ vers_cli \in [Clients -> Seq(Messages)]
        /\ pc \in [Clients -> {"connect", "fgets", "write", "read", "fini", "tue"}]
    BY DEF IInv, TypeOK, TypeOKSockets
  <2>1. /\ pc[c] = "read" /\ UNCHANGED <<attente, fermees, lignes, vers_srv>>
        /\ EnCours(c)' = EnCours(c) /\ EnCours(c) = <<>> /\ EnAttente(c) = 1
    BY RecevoirCas DEF Recevoir, EnCours
  <2>2. CASE c \in fermees /\ Aller(c, "fini") /\ UNCHANGED <<recus, vers_cli>>
    BY <2>0, <2>1, <2>2 DEF Intact
  <2>3. CASE /\ Reponses(c) = 1 /\ vers_srv[c] = <<>>
             /\ recus' = [recus EXCEPT ![c] = @ \o vers_cli[c]]
             /\ vers_cli' = [vers_cli EXCEPT ![c] = <<>>]
             /\ Aller(c, "fgets")
    BY <2>0, <2>1, <2>3
  <2>4. QED
    BY <2>2, <2>3, RecevoirCas
<1>4. Echange(c)'
  <2>1. lignes[c] = Recues(c) + EnAttente(c)
    BY <1>3 DEF IInv, Echanges, Echange
  <2>2. CASE pc'[c] = "fini"
    BY <1>3, <2>2, CompteIntact DEF Echange
  <2>3. CASE pc'[c] = "fgets"
    <3>1. recus[c] \in Seq(Messages) /\ vers_cli[c] \in Seq(Messages)
      BY Files DEF IInv
    <3>2. Recues(c)' = Recues(c) + Reponses(c)
      BY <1>3, <2>3, <3>1, Jointe DEF Recues, Reponses
    <3>3. EnAttente(c)' = 0
      <4>1. vers_srv'[c] = <<>> /\ vers_cli'[c] = <<>> /\ EnCours(c)' = <<>>
        BY <1>3, <2>3
      <4>2. Reponses(c)' = 0 /\ Lues(c)' = 0 /\ Demandes(c)' = 0
        BY <4>1 DEF Reponses, Lues, Demandes
      <4>3. QED
        BY <4>2 DEF EnAttente
    <3>4. Recues(c) \in Nat
      BY Longueurs DEF IInv
    <3>5. QED
      BY <1>3, <2>1, <2>3, <3>2, <3>3, <3>4 DEF Echange
  <2>4. QED
    BY <1>3, <2>2, <2>3
<1>5. Autres(c) /\ Attente(c)
  BY <1>2, <1>3 DEF Autres, Attente
<1>6. QED
  BY <1>1, <1>4, <1>5, ClientIInv

LEMMA TuerIInv ==
    ASSUME IInv, NEW c \in Clients, Tuer(c), UNCHANGED <<client, buf>>
    PROVE  IInv'
<1> USE DEF Tuer, Ouvert, Aller, varsSockets
<1>1. TypeOK'
  BY DEF IInv, TypeOK, TypeOKSockets
<1>2. \A d \in Clients : Intact(d) /\ (d # c => pc'[d] = pc[d] /\ lignes'[d] = lignes[d])
  BY DEF Intact, EnCours, IInv, TypeOK, TypeOKSockets
<1>3. pc'[c] = "tue" /\ pc[c] \in {"fgets", "write", "read"} /\ attente' = attente
  BY DEF IInv, TypeOK, TypeOKSockets
<1>4. Echange(c)'
  BY <1>2, <1>3, CompteIntact DEF IInv, Echanges, Echange
<1>5. Autres(c) /\ Attente(c)
  BY <1>2, <1>3 DEF Autres, Attente
<1>6. QED
  BY <1>1, <1>4, <1>5, ClientIInv

LEMMA AccepterIInv == ASSUME IInv, Accepter PROVE IInv'
<1> USE DEF Accepter, varsClients
<1> DEFINE c == Head(attente)
<1>1. c \in Clients /\ attente = <<c>> /\ attente' = <<>>
  <2>1. attente \in Seq(Clients) /\ Len(attente) <= 1 /\ attente # <<>>
    BY DEF IInv, TypeOK, TypeOKSockets
  <2>2. QED
    BY <2>1, Seul
<1>2. TypeOK'
  BY <1>1 DEF IInv, TypeOK, TypeOKSockets
<1>3. Echanges'
  <2>1. buf = <<>>
    BY DEF IInv, SessionCoherente
  <2>2. \A d \in Clients : Intact(d)
    BY <2>1 DEF Intact, EnCours
  <2>3. QED
    BY <2>2, EchangeIntact DEF IInv, Echanges
<1>4. Descripteurs'
  BY <1>1 DEF IInv, Descripteurs
<1>5. SessionCoherente'
  <2>1. pc[c] # "connect" /\ c \notin fermees
    BY <1>1 DEF IInv, SessionCoherente
  <2>2. \A d \in Clients : attente' # <<d>>
    BY <1>1
  <2>3. QED
    BY <1>1, <2>1, <2>2 DEF IInv, SessionCoherente
<1>6. QED
  BY <1>2, <1>3, <1>4, <1>5 DEF IInv

\* The server reads the line of its client, and that is the only one.
LEMMA LireCas ==
    ASSUME IInv, Lire
    PROVE  /\ client \in Clients /\ Demandes(client) = 1 /\ EnAttente(client) = 1
           /\ vers_srv' = [vers_srv EXCEPT ![client] = <<>>]
           /\ buf' = vers_srv[client] /\ buf' # <<>> /\ srv' = "write"
           /\ EnCours(client) = <<>> /\ vers_cli[client] = <<>>
           /\ UNCHANGED <<pc, lignes, recus, vers_cli, attente, fermees, client>>
<1>1. PICK lu \in Lectures(vers_srv[client]) :
          /\ vers_srv' = [vers_srv EXCEPT ![client] = Reste(@, lu)]
          /\ buf' = lu
  BY DEF Lire
<1>2. TypeOK /\ client \in Clients /\ EnCours(client) = <<>> /\ EnAttente(client) <= 1
  BY DEF Lire, IInv, SessionCoherente, EnCours, Echanges, Echange
<1>3. /\ Reponses(client) \in Nat /\ Lues(client) \in Nat /\ Demandes(client) \in Nat
      /\ Reponses(client) = 0 <=> vers_cli[client] = <<>>
      /\ Lues(client) = 0 <=> EnCours(client) = <<>>
  BY <1>2, Longueurs
<1>4. Demandes(client) <= 1
  BY <1>2, <1>3 DEF EnAttente
<1>5. lu = vers_srv[client] /\ Demandes(client) = 1 /\ Reste(vers_srv[client], lu) = <<>>
  BY <1>2, <1>4, Files, LectureEntiere DEF Demandes
<1>6. vers_cli[client] = <<>> /\ EnAttente(client) = 1
  BY <1>2, <1>3, <1>5 DEF EnAttente
<1>7. vers_srv[client] # <<>>
  BY <1>2, <1>5, Longueurs
<1>8. QED
  BY <1>1, <1>2, <1>5, <1>6, <1>7 DEF Lire, varsClients

LEMMA LireIInv == ASSUME IInv, Lire PROVE IInv'
<1>0. srv = "read"
  BY DEF Lire
<1>1. TypeOK'
  <2>1. vers_srv[client] \in Seq(Messages) /\ <<>> \in Seq(Messages)
    BY LireCas, Files DEF IInv
  <2>2. vers_srv' \in [Clients -> Seq(Messages)] /\ buf' \in Seq(Messages)
    BY <2>1, LireCas DEF IInv, TypeOK, TypeOKSockets
  <2>3. QED
    BY <2>2, LireCas DEF IInv, TypeOK, TypeOKSockets
<1>2. ASSUME NEW d \in Clients PROVE Echange(d)'
  <2>1. CASE d = client
    <3>1. /\ vers_srv'[d] = <<>> /\ EnCours(d)' = vers_srv[d] /\ EnCours(d)' # <<>>
          /\ vers_cli'[d] = <<>> /\ vers_cli[d] = <<>> /\ EnCours(d) = <<>>
          /\ Demandes(d) = 1 /\ EnAttente(d) = 1
      BY <2>1, LireCas DEF IInv, TypeOK, TypeOKSockets, EnCours
    <3>2. EnAttente(d)' = 1
      BY <3>1 DEF EnAttente, Reponses, Lues, Demandes
    <3>3. /\ Echange(d) /\ pc'[d] = pc[d] /\ lignes'[d] = lignes[d] /\ Recues(d)' = Recues(d)
          /\ d \notin fermees /\ d \notin fermees'
      BY <1>0, <2>1, LireCas DEF IInv, Echanges, Recues, SessionCoherente
    <3>4. pc[d] \in {"connect", "fgets", "write", "read", "fini", "tue"}
      BY DEF IInv, TypeOK, TypeOKSockets
    <3>5. QED
      BY <3>1, <3>2, <3>3, <3>4 DEF Echange
  <2>2. CASE d # client
    <3>1. Intact(d)
      BY <2>2, LireCas DEF Intact, EnCours, IInv, TypeOK, TypeOKSockets
    <3>2. QED
      BY <3>1, LireCas, EchangeIntact DEF IInv, Echanges
  <2>3. QED
    BY <2>1, <2>2
<1>3. Descripteurs'
  BY <1>0, LireCas DEF IInv, Descripteurs
<1>4. SessionCoherente'
  BY <1>0, LireCas DEF IInv, SessionCoherente
<1>5. QED
  BY <1>1, <1>2, <1>3, <1>4 DEF IInv, Echanges

\* The server exits in the session of a client that has not read its answer:
\* one that was interrupted.
LEMMA MourirIInv ==
    ASSUME IInv, srv = "write", ~Ouvert(client), Mourir, UNCHANGED <<client, buf>>
    PROVE  IInv'
<1> USE DEF Mourir, varsClients
<1>1. TypeOK'
  BY DEF IInv, TypeOK, TypeOKSockets
<1>2. client \in Clients /\ EnCours(client) # <<>>
  BY DEF IInv, SessionCoherente, EnCours
<1>3. pc[client] = "tue"
  BY <1>2 DEF IInv, Echanges, Echange, Ouvert
<1>4. ASSUME NEW d \in Clients PROVE Echange(d)'
  <2>1. Intact(d) /\ pc'[d] = pc[d] /\ lignes'[d] = lignes[d]
    BY DEF Intact, EnCours
  <2>2. EnCours(d) # <<>> => pc[d] # "read"
    BY <1>3 DEF EnCours
  <2>3. /\ EnCours(d)' = EnCours(d) /\ EnAttente(d)' = EnAttente(d)
        /\ Recues(d)' = Recues(d) /\ d \in fermees'
    BY <2>1, CompteIntact DEF Intact
  <2>4. QED
    BY <2>1, <2>2, <2>3 DEF IInv, Echanges, Echange
<1>5. Descripteurs'
  BY DEF Descripteurs
<1>6. SessionCoherente'
  BY <1>2, <1>3 DEF SessionCoherente
<1>7. QED
  BY <1>1, <1>4, <1>5, <1>6 DEF IInv, Echanges

\* The line goes back whole.
LEMMA RepondreIInv ==
    ASSUME IInv, Ecrire, Ouvert(client)
    PROVE  IInv'
<1>0. /\ srv = "write" /\ srv' = "read" /\ buf' = <<>>
      /\ vers_cli' = [vers_cli EXCEPT ![client] = @ \o buf]
      /\ UNCHANGED <<pc, lignes, recus, vers_srv, attente, fermees, client>>
      /\ client \in Clients /\ buf = EnCours(client) /\ EnCours(client) # <<>>
  BY DEF Ecrire, varsClients, IInv, SessionCoherente, EnCours
<1>1. TypeOK'
  <2>1. vers_cli[client] \o buf \in Seq(Messages) /\ <<>> \in Seq(Messages)
    BY <1>0, Files DEF IInv
  <2>2. vers_cli' \in [Clients -> Seq(Messages)]
    BY <1>0, <2>1 DEF IInv, TypeOK, TypeOKSockets
  <2>3. QED
    BY <1>0, <2>2 DEF IInv, TypeOK, TypeOKSockets
<1>2. ASSUME NEW d \in Clients PROVE Echange(d)'
  <2>1. CASE d = client
    <3>1. /\ vers_cli'[d] = vers_cli[d] \o EnCours(d) /\ EnCours(d)' = <<>>
          /\ vers_cli[d] \in Seq(Messages) /\ EnCours(d) \in Seq(Messages)
      BY <1>0, <2>1, Files DEF IInv, TypeOK, TypeOKSockets, EnCours
    <3>2. Reponses(d)' = Reponses(d) + Lues(d)
      BY <3>1, Jointe DEF Reponses, Lues
    <3>6. Lues(d)' = 0 /\ Demandes(d)' = Demandes(d)
      BY <1>0, <3>1 DEF Lues, Demandes
    <3>3. EnAttente(d)' = EnAttente(d)
      <4>1. Reponses(d) \in Nat /\ Lues(d) \in Nat /\ Demandes(d) \in Nat
        BY Longueurs DEF IInv
      <4>2. QED
        BY <3>2, <3>6, <4>1 DEF EnAttente
    <3>4. Recues(d)' = Recues(d) /\ Echange(d)
      BY <1>0 DEF Recues, IInv, Echanges
    <3>5. QED
      BY <1>0, <3>1, <3>3, <3>4 DEF Echange
  <2>2. CASE d # client
    <3>1. Intact(d)
      BY <1>0, <2>2 DEF Intact, EnCours, IInv, TypeOK, TypeOKSockets
    <3>2. QED
      BY <1>0, <3>1, EchangeIntact DEF IInv, Echanges
  <2>3. QED
    BY <2>1, <2>2
<1>3. Descripteurs'
  BY <1>0 DEF IInv, Descripteurs
<1>4. SessionCoherente'
  BY <1>0 DEF IInv, SessionCoherente
<1>5. QED
  BY <1>1, <1>2, <1>3, <1>4 DEF IInv, Echanges

LEMMA FinirSessionIInv == ASSUME IInv, FinirSession PROVE IInv'
<1> USE DEF FinirSession, varsClients
<1>0. client \in Clients /\ buf = <<>>
  BY DEF IInv, SessionCoherente
<1>1. TypeOK'
  BY <1>0 DEF IInv, TypeOK, TypeOKSockets
<1>2. ASSUME NEW d \in Clients PROVE Echange(d)'
  <2>1. Intact(d) /\ pc'[d] = pc[d] /\ lignes'[d] = lignes[d] /\ EnCours(d)' = <<>>
    BY <1>0 DEF Intact, EnCours
  <2>2. EnAttente(d)' = EnAttente(d) /\ Recues(d)' = Recues(d)
    BY <2>1, CompteIntact
  <2>3. d \in fermees => d \in fermees'
    OBVIOUS
  <2>4. QED
    BY <2>1, <2>2, <2>3 DEF IInv, Echanges, Echange
<1>3. Descripteurs'
  BY <1>0 DEF IInv, Descripteurs
<1>4. SessionCoherente'
  BY <1>0 DEF IInv, SessionCoherente
<1>5. QED
  BY <1>1, <1>2, <1>3, <1>4 DEF IInv, Echanges

LEMMA NextIInv == IInv /\ [Next]_vars => IInv'
<1> SUFFICES ASSUME IInv, [Next]_vars PROVE IInv'
  OBVIOUS
<1>1. CASE serveur
  <2>1. CASE Ecrire
    <3>1. CASE Ouvert(client)
      BY <2>1, <3>1, RepondreIInv
    <3>2. CASE ~Ouvert(client)
      BY <2>1, <3>2, MourirIInv DEF Ecrire
    <3>3. QED
      BY <3>1, <3>2
  <2>2. QED
    BY <1>1, <2>1, AccepterIInv, LireIInv, FinirSessionIInv DEF serveur
<1>2. ASSUME NEW c \in Clients, unClient(c) PROVE IInv'
  BY <1>2, ConnecterIInv, FgetsIInv, EnvoyerIInv, RecevoirIInv DEF unClient, cli
<1>3. ASSUME NEW c \in Clients, interruption(c) PROVE IInv'
  BY <1>3, TuerIInv DEF interruption
<1>4. CASE UNCHANGED vars
  <2>1. TypeOK'
    BY <1>4 DEF vars, varsClients, varsSockets, IInv, TypeOK, TypeOKSockets
  <2>2. \A d \in Clients : Intact(d) /\ pc'[d] = pc[d] /\ lignes'[d] = lignes[d]
    BY <1>4 DEF vars, varsClients, varsSockets, Intact, EnCours
  <2>3. Echanges'
    BY <1>4, <2>2, EchangeIntact DEF vars, varsSockets, IInv, Echanges
  <2>4. Descripteurs' /\ SessionCoherente'
    BY <1>4 DEF vars, varsClients, varsSockets, IInv, Descripteurs, SessionCoherente
  <2>5. QED
    BY <2>1, <2>3, <2>4 DEF IInv
<1>5. QED
  BY <1>1, <1>2, <1>3, <1>4 DEF Next

LEMMA SpecIInv == Spec => []IInv
BY InitIInv, NextIInv, PTL DEF Spec

-----------------------------------------------------------------------------
(* The properties of the run srv_echo.                                      *)

\* srv_echo.c, the loop over accept: no connection is left open and forgotten,
\* and a client that ends by itself never brings the server down.
THEOREM ConnexionsSuresEcho == Spec => []ConnexionsSures
<1>1. IInv => ConnexionsSures
  BY DEF IInv, Descripteurs, SessionCoherente, ConnexionsSures
<1>2. QED
  BY <1>1, SpecIInv, PTL

-----------------------------------------------------------------------------
(* The refinement.                                                          *)

\* The sequence that stands for the lines sent by c.
Flux(c) == recus[c] \o vers_cli[c] \o EnCours(c) \o vers_srv[c]

LEMMA Une ==
    ASSUME NEW T, NEW r \in Seq(T), NEW q \in Seq(T)
    PROVE  /\ r \o q \o <<>> \o <<>> = r \o q
           /\ r \o <<>> \o q \o <<>> = r \o q
           /\ r \o <<>> \o <<>> \o q = r \o q
           /\ r \o <<>> \o <<>> \o <<>> = r
<1>1. r \o <<>> = r /\ r \o q \in Seq(T)
  OBVIOUS
<1>2. (r \o q) \o <<>> = r \o q
  BY <1>1
<1>3. QED
  BY <1>1, <1>2

LEMMA FluxIntact ==
    ASSUME NEW c, Intact(c)
    PROVE  Flux(c)' = Flux(c)
BY DEF Intact, Flux

\* A step that hands no line over and brings none is a stutter.
LEMMA Begaiement ==
    ASSUME \A c \in Clients : Flux(c)' = Flux(c), recus' = recus
    PROVE  UNCHANGED EchoDe!vars
BY DEF EchoDe!vars, Flux

\* write of a client is the step Envoyer of Echo, unless it fails.
LEMMA EnvoyerEcho ==
    ASSUME IInv, IInv', NEW c \in Clients, Envoyer(c), UNCHANGED <<srv, client, buf>>
    PROVE  EchoDe!Envoyer(c) \/ UNCHANGED EchoDe!vars
<1> USE DEF Envoyer
<1>1. recus' = recus /\ \A d \in Clients : EnCours(d)' = EnCours(d)
  BY DEF EnCours
<1>2. CASE c \in fermees
  BY <1>1, <1>2, Begaiement, FluxIntact DEF Intact
<1>3. CASE c \notin fermees
  <2>1. /\ EnAttente(c) = 0 /\ lignes[c] = Recues(c) + 1
        /\ vers_cli[c] = <<>> /\ EnCours(c) = <<>> /\ vers_srv[c] = <<>>
    <3>1. EnAttente(c) = 0 /\ lignes[c] = Recues(c) + 1
      BY DEF IInv, Echanges, Echange
    <3>2. QED
      BY <3>1, Longueurs DEF IInv, EnAttente
  <2>2. /\ vers_srv' = [vers_srv EXCEPT ![c] = Append(@, <<c, lignes[c]>>)]
        /\ vers_srv \in [Clients -> Seq(Messages)] /\ vers_cli' = vers_cli
    BY <1>3 DEF IInv, TypeOK, TypeOKSockets
  <2>3. vers_srv'[c] = <<<<c, lignes[c]>>>> /\ vers_srv'[c] # <<>>
    BY <2>1, <2>2
  <2>4. Flux(c) = recus[c]
    <3>1. recus[c] \in Seq(Messages)
      BY Files DEF IInv
    <3>2. recus[c] \o <<>> \o <<>> \o <<>> = recus[c]
      BY <3>1, Une
    <3>3. QED
      BY <2>1, <3>2 DEF Flux
  <2>5. Flux(c)' = recus[c] \o <<<<c, lignes[c]>>>>
    <3>1. EnCours(c)' = <<>> /\ vers_cli'[c] = <<>> /\ recus'[c] = recus[c]
      BY <1>1, <2>1, <2>2
    <3>2. recus[c] \in Seq(Messages) /\ <<<<c, lignes[c]>>>> \in Seq(Messages)
      <4>1. vers_srv'[c] \in Seq(Messages)
        BY DEF IInv, TypeOK, TypeOKSockets
      <4>2. QED
        BY <2>3, <4>1, Files DEF IInv
    <3>3. recus[c] \o <<>> \o <<>> \o <<<<c, lignes[c]>>>> = recus[c] \o <<<<c, lignes[c]>>>>
      BY <3>2, Une
    <3>4. QED
      BY <2>3, <3>1, <3>3 DEF Flux
  <2>6. Flux(c)' = Append(Flux(c), <<c, Len(Flux(c)) + 1>>)
    <3>1. recus[c] \in Seq(Messages)
      BY Files DEF IInv
    <3>2. QED
      BY <2>1, <2>4, <2>5, <3>1 DEF Recues
  <2>7. \A d \in Clients \ {c} : Flux(d)' = Flux(d)
    BY <1>1, <2>2, FluxIntact DEF Intact
  <2>8. QED
    BY <1>1, <2>4, <2>6, <2>7 DEF EchoDe!Envoyer, Flux
<1>4. QED
  BY <1>2, <1>3

\* read of a client is the step Recevoir of Echo, unless it fails.
LEMMA RecevoirEcho ==
    ASSUME IInv, IInv', NEW c \in Clients, Recevoir(c), UNCHANGED <<srv, client, buf>>
    PROVE  EchoDe!Recevoir(c) \/ UNCHANGED EchoDe!vars
<1>1. vers_srv' = vers_srv /\ \A d \in Clients : EnCours(d)' = EnCours(d)
  BY DEF EnCours, Recevoir
<1>2. CASE UNCHANGED <<recus, vers_cli>>
  BY <1>1, <1>2, Begaiement, FluxIntact DEF Intact
<1>3. CASE /\ Reponses(c) = 1 /\ vers_srv[c] = <<>>
           /\ recus' = [recus EXCEPT ![c] = @ \o vers_cli[c]]
           /\ vers_cli' = [vers_cli EXCEPT ![c] = <<>>]
  <2>1. /\ recus \in [Clients -> Seq(Messages)] /\ vers_cli \in [Clients -> Seq(Messages)]
        /\ recus[c] \in Seq(Messages) /\ vers_cli[c] \in Seq(Messages)
    BY Files DEF IInv, TypeOK, TypeOKSockets
  <2>2. EnCours(c) = <<>> /\ EnAttente(c) = 1
    BY <1>3, RecevoirCas
  <2>3. Flux(c) = recus[c] \o vers_cli[c]
    <3>1. recus[c] \o vers_cli[c] \o <<>> \o <<>> = recus[c] \o vers_cli[c]
      BY <2>1, Une
    <3>2. QED
      BY <1>3, <2>2, <3>1 DEF Flux
  <2>4. recus'[c] = Flux(c)
    BY <1>3, <2>1, <2>3
  <2>5. Flux(c)' = recus'[c]
    <3>1. vers_cli'[c] = <<>> /\ EnCours(c)' = <<>> /\ vers_srv'[c] = <<>>
      BY <1>1, <1>3, <2>1, <2>2
    <3>2. recus'[c] \in Seq(Messages)
      BY <1>3, <2>1, Jointe
    <3>3. recus'[c] \o <<>> \o <<>> \o <<>> = recus'[c]
      BY <3>2, Une
    <3>4. QED
      BY <3>1, <3>3 DEF Flux
  <2>6. \A d \in Clients \ {c} : Flux(d)' = Flux(d)
    BY <1>1, <1>3, <2>1, FluxIntact DEF Intact
  <2>7. recus[c] # Flux(c)
    <3>1. Len(recus[c] \o vers_cli[c]) = Len(recus[c]) + Len(vers_cli[c])
      BY <2>1, Jointe
    <3>2. Recues(c) \in Nat
      BY Longueurs DEF IInv
    <3>3. Len(Flux(c)) = Recues(c) + 1
      BY <1>3, <2>3, <3>1 DEF Reponses, Recues
    <3>4. QED
      BY <3>2, <3>3 DEF Recues
  <2>8. recus' = [recus EXCEPT ![c] = Flux(c)]
    BY <1>3, <2>1, <2>3
  <2>9. \A d \in Clients : Flux(d)' = Flux(d)
    BY <2>4, <2>5, <2>6
  <2>10. QED
    BY <2>7, <2>8, <2>9 DEF EchoDe!Recevoir, Flux
<1>4. QED
  BY <1>2, <1>3, RecevoirCas

\* The server only moves a line from one of its sides to the other.
LEMMA ServeurEcho ==
    ASSUME IInv, IInv', serveur
    PROVE  UNCHANGED EchoDe!vars
<1>0. TypeOK /\ TypeOK' /\ \A c \in Clients : EnAttente(c) <= 1 /\ EnAttente(c)' <= 1
  BY DEF IInv, Echanges, Echange
<1>1. CASE Lire
  <2>1. \A c \in Clients \ {client} : Flux(c)' = Flux(c)
    <3>1. \A c \in Clients \ {client} : Intact(c)
      BY <1>1, LireCas DEF Intact, EnCours, IInv, TypeOK, TypeOKSockets
    <3>2. QED
      BY <3>1, FluxIntact
  <2>2. Flux(client)' = Flux(client)
    <3>1. /\ client \in Clients /\ EnCours(client) = <<>> /\ vers_cli[client] = <<>>
          /\ vers_srv'[client] = <<>> /\ vers_cli'[client] = <<>>
          /\ EnCours(client)' = vers_srv[client] /\ recus' = recus /\ client' = client
      BY <1>1, LireCas DEF IInv, TypeOK, TypeOKSockets, EnCours
    <3>2. recus[client] \in Seq(Messages) /\ vers_srv[client] \in Seq(Messages)
      BY <3>1, Files DEF IInv
    <3>3. /\ recus[client] \o <<>> \o <<>> \o vers_srv[client] = recus[client] \o vers_srv[client]
          /\ recus[client] \o <<>> \o vers_srv[client] \o <<>> = recus[client] \o vers_srv[client]
      BY <3>2, Une
    <3>4. QED
      BY <3>1, <3>3 DEF Flux
  <2>3. QED
    BY <1>1, <2>1, <2>2, LireCas, Begaiement
<1>2. CASE Ecrire /\ Ouvert(client)
  <2>0. /\ vers_cli' = [vers_cli EXCEPT ![client] = @ \o buf] /\ buf' = <<>>
        /\ UNCHANGED <<recus, vers_srv, client>>
        /\ client \in Clients /\ buf = EnCours(client) /\ EnCours(client) # <<>>
    BY <1>2 DEF Ecrire, varsClients, IInv, SessionCoherente, EnCours
  <2>1. \A c \in Clients \ {client} : Flux(c)' = Flux(c)
    <3>1. \A c \in Clients \ {client} : Intact(c)
      BY <2>0 DEF Intact, EnCours, IInv, TypeOK, TypeOKSockets
    <3>2. QED
      BY <3>1, FluxIntact
  <2>2. Flux(client)' = Flux(client)
    <3>1. vers_cli[client] = <<>> /\ vers_srv[client] = <<>>
      BY <1>0, <2>0, Longueurs DEF EnAttente
    <3>2. recus[client] \in Seq(Messages) /\ EnCours(client) \in Seq(Messages)
      BY <2>0, Files DEF IInv
    <3>3. /\ vers_cli'[client] = EnCours(client) /\ EnCours(client)' = <<>>
          /\ vers_srv'[client] = <<>> /\ recus'[client] = recus[client]
          /\ client' = client
      BY <2>0, <3>1, <3>2 DEF IInv, TypeOK, TypeOKSockets, EnCours
    <3>4. /\ recus[client] \o <<>> \o EnCours(client) \o <<>> = recus[client] \o EnCours(client)
          /\ recus[client] \o EnCours(client) \o <<>> \o <<>> = recus[client] \o EnCours(client)
      BY <3>2, Une
    <3>5. QED
      BY <3>1, <3>3, <3>4 DEF Flux
  <2>3. QED
    BY <2>0, <2>1, <2>2, Begaiement
<1>3. CASE Accepter \/ FinirSession \/ (Ecrire /\ ~Ouvert(client))
  <2>1. recus' = recus /\ vers_cli' = vers_cli /\ vers_srv' = vers_srv
    BY <1>3 DEF Accepter, FinirSession, Ecrire, Mourir, varsClients
  <2>2. \A c \in Clients : EnCours(c)' = EnCours(c)
    BY <1>3 DEF Accepter, FinirSession, Ecrire, IInv, SessionCoherente, EnCours
  <2>3. QED
    BY <2>1, <2>2, FluxIntact, Begaiement DEF Intact
<1>4. QED
  BY <1>1, <1>2, <1>3 DEF serveur

\* srv_echo.c sends back to each client what it has sent: in order, each line
\* once, nothing else.
THEOREM RaffinementEcho == Spec => RaffineEcho
<1>1. Init => EchoDe!Init
  BY DEF Init, InitSockets, EchoDe!Init, EnCours
<1>2. ASSUME IInv, IInv', [Next]_vars
      PROVE  [\E c \in Clients : EchoDe!Envoyer(c) \/ EchoDe!Recevoir(c)]_(EchoDe!vars)
  <2>1. CASE serveur
    BY <1>2, <2>1, ServeurEcho
  <2>2. ASSUME NEW c \in Clients, unClient(c)
        PROVE  EchoDe!Envoyer(c) \/ EchoDe!Recevoir(c) \/ UNCHANGED EchoDe!vars
    <3>1. CASE Connecter(c) \/ Fgets(c)
      BY <2>2, <3>1, Begaiement, FluxIntact
         DEF Connecter, Fgets, varsSockets, unClient, cli, Intact, EnCours
    <3>2. QED
      BY <1>2, <2>2, <3>1, EnvoyerEcho, RecevoirEcho DEF unClient, cli
  <2>3. ASSUME NEW c \in Clients, interruption(c)
        PROVE  UNCHANGED EchoDe!vars
    BY <2>3, Begaiement, FluxIntact DEF interruption, Tuer, varsSockets, Intact, EnCours
  <2>4. CASE UNCHANGED vars
    BY <2>4, Begaiement, FluxIntact DEF vars, varsClients, varsSockets, Intact, EnCours
  <2>5. QED
    BY <1>2, <2>1, <2>2, <2>3, <2>4 DEF Next
<1>3. QED
  BY <1>1, <1>2, SpecIInv, PTL DEF Spec, RaffineEcho, EchoDe!Spec
=============================================================================
