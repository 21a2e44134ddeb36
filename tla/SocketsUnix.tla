----------------------------- MODULE SocketsUnix -----------------------------
(***************************************************************************)
(* The clients cli.c and the AF_UNIX stream sockets between them and one of *)
(* the servers srv_echo.c, srv_poll.c and srv_chat.c.  A client is one      *)
(* process: it connects once.  Its n-th line is the message <<c, n>>; the   *)
(* kernel keeps what is written until the other end reads it, and a read    *)
(* returns some or all of what waits.                                       *)
(***************************************************************************)
EXTENDS Integers, Sequences, FiniteSets

CONSTANTS Clients,
          MAXLIGNES,   \* bound: lines that all the clients send together
          TAMPON       \* bound: writes that a socket buffer holds

ASSUME BornesAssumption == MAXLIGNES \in Nat /\ TAMPON \in Nat \ {0}
ASSUME ClientsAssumption == IsFiniteSet(Clients)

VARIABLES pc, lignes,   \* of each client: its point, the lines it has read
          recus,        \* what each client has printed after "Serveur: "
          vers_srv,     \* of each connection: written by the client, not read
          vers_cli,     \* of each connection: written by the server, not read
          attente,      \* the connections that the server has not accepted
          fermees,      \* the connections whose server end is closed
          srv           \* the point of the server, "mort" when it has exited

varsClients == <<pc, lignes, recus>>
varsSockets == <<vers_srv, vers_cli, attente, fermees>>

InitSockets ==
    /\ pc = [c \in Clients |-> "connect"]
    /\ lignes = [c \in Clients |-> 0]
    /\ recus = [c \in Clients |-> <<>>]
    /\ vers_srv = [c \in Clients |-> <<>>]
    /\ vers_cli = [c \in Clients |-> <<>>]
    /\ attente = <<>>
    /\ fermees = {}

\* The client end of the connection of c is open.
Ouvert(c) == pc[c] \in {"fgets", "write", "read"}

\* What a read of the queue q may return: some of it, from the beginning.
Lectures(q) == {SubSeq(q, 1, n) : n \in 1 .. Len(q)}
Reste(q, lu) == SubSeq(q, Len(lu) + 1, Len(q))

Aller(c, point) == pc' = [pc EXCEPT ![c] = point]

-----------------------------------------------------------------------------
\* listen(sock, 0): one connection can wait, connect blocks the others.
Connecter(c) ==
    /\ pc[c] = "connect"
    /\ IF srv = "mort"
       THEN Aller(c, "fini") /\ UNCHANGED attente
       ELSE attente = <<>> /\ attente' = <<c>> /\ Aller(c, "fgets")
    /\ UNCHANGED <<lignes, recus, vers_srv, vers_cli, fermees>>

Messages == Clients \X (1 .. MAXLIGNES)

\* The lines that the clients have read so far.
LignesLues == {m \in Messages : m[2] <= lignes[m[1]]}

\* fgets returns a line, or NULL: then the client closes its socket and ends.
Fgets(c) ==
    /\ pc[c] = "fgets"
    /\ \/ /\ Cardinality(LignesLues) < MAXLIGNES
          /\ lignes' = [lignes EXCEPT ![c] = @ + 1]
          /\ Aller(c, "write")
       \/ Aller(c, "fini") /\ UNCHANGED lignes
    /\ UNCHANGED <<recus, varsSockets>>

\* A write to a closed connection raises SIGPIPE: gere ends the client.
Envoyer(c) ==
    /\ pc[c] = "write"
    /\ IF c \in fermees
       THEN Aller(c, "fini") /\ UNCHANGED vers_srv
       ELSE /\ Len(vers_srv[c]) < TAMPON
            /\ vers_srv' = [vers_srv EXCEPT ![c] = Append(@, <<c, lignes[c]>>)]
            /\ Aller(c, "read")
    /\ UNCHANGED <<lignes, recus, vers_cli, attente, fermees>>

\* The end of the file is printed as an empty answer; the server having closed
\* a connection that it had not read to the end is an error (ECONNRESET).
Recevoir(c) ==
    /\ pc[c] = "read"
    /\ \/ \E lu \in Lectures(vers_cli[c]) :
              /\ recus' = [recus EXCEPT ![c] = @ \o lu]
              /\ vers_cli' = [vers_cli EXCEPT ![c] = Reste(@, lu)]
              /\ Aller(c, "fgets")
       \/ /\ vers_cli[c] = <<>> /\ c \in fermees
          /\ Aller(c, IF vers_srv[c] = <<>> THEN "fgets" ELSE "fini")
          /\ UNCHANGED <<recus, vers_cli>>
    /\ UNCHANGED <<lignes, vers_srv, attente, fermees>>

cli(c) ==
    /\ Connecter(c) \/ Fgets(c) \/ Envoyer(c) \/ Recevoir(c)
    /\ UNCHANGED srv

\* The user interrupts a client: the kernel closes its socket.
Tuer(c) ==
    /\ Ouvert(c)
    /\ Aller(c, "tue")
    /\ UNCHANGED <<lignes, recus, varsSockets, srv>>

-----------------------------------------------------------------------------
\* The server exits: every server end is closed.
Mourir ==
    /\ srv' = "mort"
    /\ fermees' = Clients
    /\ attente' = <<>>
    /\ UNCHANGED <<varsClients, vers_srv, vers_cli>>

TypeOKSockets(Reponses) ==
    /\ pc \in [Clients -> {"connect", "fgets", "write", "read", "fini", "tue"}]
    /\ lignes \in [Clients -> 0 .. MAXLIGNES]
    /\ recus \in [Clients -> Seq(Reponses)]
    /\ vers_srv \in [Clients -> Seq(Messages)]
    /\ vers_cli \in [Clients -> Seq(Reponses)]
    /\ attente \in Seq(Clients) /\ Len(attente) <= 1
    /\ fermees \subseteq Clients
=============================================================================
