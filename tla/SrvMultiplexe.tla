---------------------------- MODULE SrvMultiplexe ----------------------------
(***************************************************************************)
(* What srv_poll.c and srv_chat.c share: poll over the array fds, and the   *)
(* loop over its slots that accepts, closes and reads.  What is done with   *)
(* the data that have been read is added by the modules that extend this.   *)
(***************************************************************************)
EXTENDS SocketsUnix, FiniteSetsExt

CONSTANTS nbre_client_max,
          Indefini   \* what the member revents of a slot fresh from realloc,
                     \* which is tested before poll has written it, may hold

\* A set of events is abstracted to what the loop tells apart: POLLHUP, POLLIN
\* alone, or nothing that it reacts to.
Evenements == {"rien", "POLLIN", "POLLHUP"}

Libre == "libre"   \* instead of a connection, for a descriptor that is free

ASSUME ServeurAssumption ==
    /\ nbre_client_max \in Nat /\ Libre \notin Clients
    /\ Indefini \subseteq Evenements /\ Indefini # {}

VARIABLES fds, revents,   \* the members fd and revents of the array fds
          nfds, nbr_clients, i,
          buf,            \* what has been read and not been written
          descr           \* the connection of each descriptor of the server

varsFds     == <<fds, nfds, nbr_clients, descr>>
varsServeur == <<varsFds, revents, i, buf>>

sock         == 3                              \* the listening socket
Descripteurs == 4 .. 3 + Cardinality(Clients)
Cases        == 1 .. nfds - 1                  \* the slots of the clients

InitServeur ==
    /\ InitSockets
    /\ srv = "poll"
    /\ fds = [s \in {0} |-> sock]
    /\ revents = [s \in {0} |-> "rien"]
    /\ nfds = 1
    /\ nbr_clients = 0
    /\ i = 0
    /\ buf = <<>>
    /\ descr = [d \in Descripteurs |-> Libre]

\* The end of the body of the loop for slot i; n slots with the events r then.
\* When the loop ends, i is gone and r is dead: poll writes all of it anew.
Suite(n, r) ==
    IF i + 1 = n
    THEN srv' = "poll" /\ i' = 0 /\ revents' = [s \in 0 .. n - 1 |-> "rien"]
    ELSE srv' = "boucle" /\ i' = i + 1 /\ revents' = r

-----------------------------------------------------------------------------
\* What poll writes for the connection c.
Etat(c) ==
    CASE c \notin Clients     -> "rien"
      [] ~Ouvert(c)           -> "POLLHUP"
      [] vers_srv[c] # <<>>   -> "POLLIN"
      [] OTHER                -> "rien"

\* poll ignores the slots whose fd is negative.
Revents(s) ==
    IF s = 0 THEN IF attente # <<>> THEN "POLLIN" ELSE "rien"
    ELSE IF fds[s] = -1 THEN "rien" ELSE Etat(descr[fds[s]])

Poll ==
    /\ srv = "poll"
    /\ \E s \in 0 .. nfds - 1 : Revents(s) # "rien"
    /\ revents' = [s \in 0 .. nfds - 1 |-> Revents(s)]
    /\ i' = 0
    /\ srv' = "boucle"
    /\ UNCHANGED <<varsClients, varsSockets, fds, nfds, nbr_clients, buf, descr>>

\* The kernel gives the smallest descriptor that is free.
Nouveau == Min({d \in Descripteurs : descr[d] = Libre})

Ajouter(f, x) == [s \in 0 .. nfds |-> IF s < nfds THEN f[s] ELSE x]

\* accept, into a new slot at the end of the array.
Admettre ==
    /\ srv = "boucle" /\ i = 0 /\ revents[0] = "POLLIN"
    /\ fds' = Ajouter(fds, Nouveau)
    /\ descr' = [descr EXCEPT ![Nouveau] = Head(attente)]
    /\ attente' = Tail(attente)
    /\ nfds' = nfds + 1
    /\ nbr_clients' = nbr_clients + 1
    /\ \E v \in Indefini : Suite(nfds + 1, Ajouter(revents, v))
    /\ UNCHANGED <<varsClients, vers_srv, vers_cli, fermees, buf>>

\* Mutant: the limit is off by one.
AccepterUnDeTrop == nbr_clients <= nbre_client_max /\ Admettre

Accepter == nbr_clients < nbre_client_max /\ Admettre

\* Mutant: the refused connection is accepted and forgotten.
RefuserSansFermer ==
    /\ srv = "boucle" /\ i = 0 /\ revents[0] = "POLLIN"
    /\ nbr_clients >= nbre_client_max
    /\ attente' = Tail(attente)
    /\ Suite(nfds, revents)
    /\ UNCHANGED <<varsClients, vers_srv, vers_cli, fermees, varsFds, buf>>

Refuser ==
    /\ srv = "boucle" /\ i = 0 /\ revents[0] = "POLLIN"
    /\ nbr_clients >= nbre_client_max
    /\ attente' = Tail(attente)
    /\ fermees' = fermees \cup {Head(attente)}
    /\ Suite(nfds, revents)
    /\ UNCHANGED <<varsClients, vers_srv, vers_cli, varsFds, buf>>

\* Mutant: the slot keeps its descriptor.
DeconnecterSansEffacer ==
    /\ srv = "boucle" /\ i # 0 /\ revents[i] = "POLLHUP"
    /\ fermees' = fermees \cup {descr[fds[i]]}
    /\ descr' = [descr EXCEPT ![fds[i]] = Libre]
    /\ nbr_clients' = nbr_clients - 1
    /\ Suite(nfds, revents)
    /\ UNCHANGED <<varsClients, vers_srv, vers_cli, attente, fds, nfds, buf>>

\* Data that wait when the client has left are not read any more.
Deconnecter ==
    /\ srv = "boucle" /\ i # 0 /\ revents[i] = "POLLHUP"
    /\ fermees' = fermees \cup {descr[fds[i]]}
    /\ descr' = [descr EXCEPT ![fds[i]] = Libre]
    /\ fds' = [fds EXCEPT ![i] = -1]
    /\ nbr_clients' = nbr_clients - 1
    /\ Suite(nfds, revents)
    /\ UNCHANGED <<varsClients, vers_srv, vers_cli, attente, nfds, buf>>

Passer ==
    /\ srv = "boucle" /\ revents[i] = "rien"
    /\ Suite(nfds, revents)
    /\ UNCHANGED <<varsClients, varsSockets, varsFds, buf>>

\* Mutant: the server peeks at the data.
LireSansRetirer ==
    /\ srv = "boucle" /\ i # 0 /\ revents[i] = "POLLIN"
    /\ \E lu \in Lectures(vers_srv[descr[fds[i]]]) : buf' = lu
    /\ srv' = "ecrire"
    /\ UNCHANGED <<varsClients, varsSockets, varsFds, revents, i>>

\* read blocks while the connection is open and empty; at its end it returns 0,
\* or an error, and main returns, if the client left without reading.
LireCase ==
    LET c == descr[fds[i]] IN
    \/ \E lu \in Lectures(vers_srv[c]) :
          /\ vers_srv' = [vers_srv EXCEPT ![c] = Reste(@, lu)]
          /\ buf' = lu
          /\ srv' = "ecrire"
          /\ UNCHANGED <<varsClients, vers_cli, attente, fermees, varsFds, revents, i>>
    \/ /\ vers_srv[c] = <<>> /\ ~Ouvert(c)
       /\ IF vers_cli[c] = <<>>
          THEN srv' = "ecrire" /\ UNCHANGED <<varsClients, varsSockets>>
          ELSE Mourir
       /\ UNCHANGED varsServeur

\* Mutant: POLLIN is looked for before POLLHUP.
LireDAbord == srv = "boucle" /\ i # 0 /\ revents[i] # "rien" /\ LireCase

Lire == srv = "boucle" /\ i # 0 /\ revents[i] = "POLLIN" /\ LireCase

EntreeSortie == Poll \/ Accepter \/ Refuser \/ Deconnecter \/ Passer \/ Lire

unClient(c)     == cli(c) /\ UNCHANGED varsServeur
interruption(c) == Tuer(c) /\ UNCHANGED varsServeur

-----------------------------------------------------------------------------
TypeOKServeur ==
    /\ nfds \in Nat \ {0}
    /\ fds \in [0 .. nfds - 1 -> Descripteurs \cup {sock, -1}]
    /\ revents \in [0 .. nfds - 1 -> Evenements]
    /\ nbr_clients \in 0 .. nbre_client_max
    /\ i \in 0 .. nfds
    /\ buf \in Seq(Messages)
    /\ descr \in [Descripteurs -> Clients \cup {Libre}]

\* The slots and the open descriptors correspond one to one, although the
\* kernel gives the number of a closed descriptor to the next client: no slot
\* designates the connection of another, and none is left without a slot.  The
\* counter that decides of the refusals is exact, and the connections that are
\* open on the side of the server are those of its slots, and the one that waits.
CasesCoherentes ==
    LET utiles == {s \in Cases : fds[s] # -1} IN
    /\ TypeOKServeur
    /\ \A s, u \in utiles : fds[s] = fds[u] => s = u
    /\ {fds[s] : s \in utiles} = {d \in Descripteurs : descr[d] # Libre}
    /\ nbr_clients = Cardinality(utiles)
    /\ srv # "mort" =>
           \A c \in Clients : pc[c] # "connect" /\ c \notin fermees =>
               (\E d \in Descripteurs : descr[d] = c) \/ attente = <<c>>

\* The server never waits for a single client: when it reads there is something
\* to read.
LectureSansBlocage ==
    srv = "boucle" /\ i # 0 /\ revents[i] = "POLLIN" =>
        fds[i] # -1 /\ vers_srv[descr[fds[i]]] # <<>>
=============================================================================
