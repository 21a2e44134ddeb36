------------------------------- MODULE SrvChat -------------------------------
(***************************************************************************)
(* srv_chat.c with its clients: every line is sent to the other clients.    *)
(***************************************************************************)
EXTENDS SrvMultiplexe

CONSTANT DIX   \* bound: the first number with two digits (10)

ASSUME ChatAssumption == DIX \in Nat

VARIABLE j   \* the slot of the client that the message is being sent to

varsChat == <<varsClients, varsSockets, srv, varsServeur, j>>

InitChat == InitServeur /\ j = 1

\* "Client <i+1>: <buf>".  The length given to write, resRead+10, cuts off the
\* end of the last line when i+1 has two digits.
Diffuse(n, texte) == [de |-> n + 1, texte |-> texte, coupe |-> n + 1 >= DIX]

Fin == j = nfds

\* Mutant: the message goes to its author too.
DiffuserATous ==
    /\ srv = "ecrire" /\ ~Fin
    /\ fds[j] # -1
    /\ LET c == descr[fds[j]] IN
       IF Ouvert(c)
       THEN /\ Len(vers_cli[c]) < TAMPON
            /\ vers_cli' = [vers_cli EXCEPT ![c] = Append(@, Diffuse(i, buf))]
            /\ j' = j + 1
            /\ UNCHANGED <<varsClients, vers_srv, attente, fermees, varsServeur, srv>>
       ELSE Mourir /\ UNCHANGED <<varsServeur, j>>

\* SIGPIPE, which the server does not handle, comes before the error of write.
Diffuser ==
    /\ srv = "ecrire" /\ ~Fin
    /\ j # i /\ fds[j] # -1
    /\ LET c == descr[fds[j]] IN
       IF Ouvert(c)
       THEN /\ Len(vers_cli[c]) < TAMPON
            /\ vers_cli' = [vers_cli EXCEPT ![c] = Append(@, Diffuse(i, buf))]
            /\ j' = j + 1
            /\ UNCHANGED <<varsClients, vers_srv, attente, fermees, varsServeur, srv>>
       ELSE Mourir /\ UNCHANGED <<varsServeur, j>>

Sauter ==
    /\ srv = "ecrire" /\ ~Fin
    /\ j = i \/ fds[j] = -1
    /\ j' = j + 1
    /\ UNCHANGED <<varsClients, varsSockets, varsServeur, srv>>

FinDiffusion ==
    /\ srv = "ecrire" /\ Fin
    /\ buf' = <<>>
    /\ j' = 1
    /\ Suite(nfds, revents)
    /\ UNCHANGED <<varsClients, varsSockets, varsFds>>

serveurChat == (EntreeSortie /\ UNCHANGED j) \/ Diffuser \/ Sauter \/ FinDiffusion

NextChat ==
    \/ serveurChat
    \/ \E c \in Clients : (unClient(c) \/ interruption(c)) /\ UNCHANGED j

\* Nothing must happen: a client waits as long as the others are silent.
SpecChat == InitChat /\ [][NextChat]_varsChat

-----------------------------------------------------------------------------
Diffusions == [de : 2 .. Cardinality(Clients) + 1, texte : Seq(Messages), coupe : BOOLEAN]

\* Every variable of cli.c and srv_chat.c keeps its type.
TypeOKChat ==
    /\ TypeOKSockets(Diffusions)
    /\ TypeOKServeur
    /\ srv \in {"poll", "boucle", "ecrire", "mort"}
    /\ j \in 1 .. nfds

\* All that was sent to c, read or not.
Destine(c) == recus[c] \o vers_cli[c]

\* The number before a message always designates the same client, whoever
\* comes and goes, and so all the messages of a client arrive whole or none does.
AuteurConnu ==
    \A c, d \in Clients :
        \A a \in DOMAIN Destine(c), b \in DOMAIN Destine(d) :
            LET m == Destine(c)[a]   n == Destine(d)[b] IN
            m.de = n.de /\ m.texte # <<>> /\ n.texte # <<>>
                => m.texte[1][1] = n.texte[1][1] /\ m.coupe = n.coupe

\* A client receives the lines of another in the order in which they were sent,
\* none of them twice, and under a number that is always the same; it never
\* receives its own.
DiffusionOrdonnee ==
    /\ TypeOKChat
    /\ \A c \in Clients : LET q == Destine(c) IN
           \A a, b \in DOMAIN q :
               \A k \in DOMAIN q[a].texte, l \in DOMAIN q[b].texte :
                   LET m == q[a].texte[k]   n == q[b].texte[l] IN
                   /\ m[1] # c
                   /\ m[1] = n[1] /\ (a < b \/ (a = b /\ k < l)) => m[2] < n[2]
    /\ AuteurConnu

\* The comment at the head of srv_chat.c: the server sends the lines that it is
\* sent to the other clients.  Where no client is refused, it does not let go
\* of a client that has ended by itself before it has read all of its lines.
PasDePerte ==
    \A c \in Clients :
        pc[c] = "fini" /\ c \in fermees /\ srv # "mort" => vers_srv[c] = <<>>
=============================================================================
