------------------------------- MODULE SrvEcho -------------------------------
(***************************************************************************)
(* srv_echo.c with its clients: one session after the other.                *)
(***************************************************************************)
EXTENDS SocketsUnix

VARIABLES client,   \* cli, the connection that is being served
          buf       \* what has been read and not been written back

vars == <<varsClients, varsSockets, srv, client, buf>>

Personne == "personne"

Init == InitSockets /\ srv = "accept" /\ client = Personne /\ buf = <<>>

Accepter ==
    /\ srv = "accept"
    /\ attente # <<>>
    /\ client' = Head(attente)
    /\ attente' = Tail(attente)
    /\ srv' = "read"
    /\ UNCHANGED <<varsClients, vers_srv, vers_cli, fermees, buf>>

\* Mutant: the server peeks at the data.
LireSansRetirer ==
    /\ srv = "read"
    /\ \E lu \in Lectures(vers_srv[client]) : buf' = lu
    /\ srv' = "write"
    /\ UNCHANGED <<varsClients, varsSockets, client>>

\* Mutant: the session ends without a close.
FinirSansFermer ==
    /\ srv = "read"
    /\ vers_srv[client] = <<>> /\ ~Ouvert(client)
    /\ srv' = "accept"
    /\ UNCHANGED <<varsClients, varsSockets, client, buf>>

Lire ==
    /\ srv = "read"
    /\ \E lu \in Lectures(vers_srv[client]) :
          /\ vers_srv' = [vers_srv EXCEPT ![client] = Reste(@, lu)]
          /\ buf' = lu
    /\ srv' = "write"
    /\ UNCHANGED <<varsClients, vers_cli, attente, fermees, client>>

\* SIGPIPE, which the server does not handle, comes before the error of write.
Ecrire ==
    /\ srv = "write"
    /\ IF Ouvert(client)
       THEN /\ Len(vers_cli[client]) < TAMPON
            /\ vers_cli' = [vers_cli EXCEPT ![client] = @ \o buf]
            /\ srv' = "read" /\ buf' = <<>>
            /\ UNCHANGED <<varsClients, vers_srv, attente, fermees, client>>
       ELSE Mourir /\ UNCHANGED <<client, buf>>

\* Mutant: the server tries to read again after an error.
FinirSansErreur ==
    /\ srv = "read"
    /\ vers_srv[client] = <<>> /\ ~Ouvert(client) /\ vers_cli[client] = <<>>
    /\ fermees' = fermees \cup {client}
    /\ srv' = "accept"
    /\ client' = Personne
    /\ UNCHANGED <<varsClients, vers_srv, vers_cli, attente, buf>>

\* read returns 0, or an error if the client left without reading: the session
\* ends.
FinirSession ==
    /\ srv = "read"
    /\ vers_srv[client] = <<>> /\ ~Ouvert(client)
    /\ fermees' = fermees \cup {client}
    /\ srv' = "accept"
    /\ client' = Personne
    /\ UNCHANGED <<varsClients, vers_srv, vers_cli, attente, buf>>

serveur == Accepter \/ Lire \/ Ecrire \/ FinirSession

unClient(c)     == cli(c) /\ UNCHANGED <<client, buf>>
interruption(c) == Tuer(c) /\ UNCHANGED <<client, buf>>

Next ==
    \/ serveur
    \/ \E c \in Clients : unClient(c) \/ interruption(c)
    \/ (\A c \in Clients : pc[c] \in {"fini", "tue"}) /\ UNCHANGED vars

\* The processes are scheduled; fgets reads a file, so that it always returns.
\* Nobody has to interrupt a client.
Spec == /\ Init /\ [][Next]_vars
        /\ WF_vars(serveur) /\ \A c \in Clients : WF_vars(unClient(c))

-----------------------------------------------------------------------------
\* Every variable of cli.c and srv_echo.c keeps its type.
TypeOK ==
    /\ TypeOKSockets(Messages)
    /\ srv \in {"accept", "read", "write", "mort"}
    /\ client \in Clients \cup {Personne}
    /\ buf \in Seq(Messages)

EnCours(c) == IF client = c THEN buf ELSE <<>>

\* Each client gets its own lines back, in order and each once.
EchoDe == INSTANCE Echo WITH
    envoyes <- [c \in Clients |-> recus[c] \o vers_cli[c] \o EnCours(c) \o vers_srv[c]]
RaffineEcho == EchoDe!Spec

\* A connection stays open on the server's side only while it waits or is
\* served: no descriptor is left behind.  A client that ends by itself never brings
\* the server down: only one that is interrupted while the server answers it does.
ConnexionsSures ==
    /\ TypeOK
    /\ \A c \in Clients : pc[c] # "connect" /\ c \notin fermees =>
           \/ client = c /\ srv \in {"read", "write"}
           \/ attente = <<c>>
    /\ srv = "mort" => \E c \in Clients : pc[c] = "tue"

\* Every client is served and ends, or is refused because the server is dead.
ClientsServis == \A c \in Clients : <>(pc[c] \in {"fini", "tue"})
=============================================================================
