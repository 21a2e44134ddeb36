------------------------------- MODULE SrvPoll -------------------------------
(***************************************************************************)
(* srv_poll.c with its clients: every line is sent back.                    *)
(***************************************************************************)
EXTENDS SrvMultiplexe

vars == <<varsClients, varsSockets, srv, varsServeur>>

Init == InitServeur

\* SIGPIPE, which the server does not handle, comes before the error of write.
Repondre ==
    /\ srv = "ecrire"
    /\ LET c == descr[fds[i]] IN
       IF Ouvert(c)
       THEN /\ Len(vers_cli[c]) < TAMPON
            /\ vers_cli' = [vers_cli EXCEPT ![c] = @ \o buf]
            /\ buf' = <<>>
            /\ Suite(nfds, revents)
            /\ UNCHANGED <<varsClients, vers_srv, attente, fermees, varsFds>>
       ELSE Mourir /\ UNCHANGED varsServeur

serveur == EntreeSortie \/ Repondre

Next ==
    \/ serveur
    \/ \E c \in Clients : unClient(c) \/ interruption(c)
    \/ (\A c \in Clients : pc[c] \in {"fini", "tue"}) /\ UNCHANGED vars

\* The processes are scheduled; fgets reads a file, so that it always returns.
\* Nobody has to interrupt a client.
Spec == /\ Init /\ [][Next]_vars
        /\ WF_vars(serveur) /\ \A c \in Clients : WF_vars(unClient(c))

-----------------------------------------------------------------------------
\* Every variable of cli.c and srv_poll.c keeps its type.
TypeOK ==
    /\ TypeOKSockets(Messages)
    /\ srv \in {"poll", "boucle", "ecrire", "mort"}

EnCours(c) == IF srv \in {"ecrire", "mort"} /\ buf # <<>> /\ descr[fds[i]] = c
              THEN buf ELSE <<>>

\* Each client gets its own lines back, in order and each once.
EchoDe == INSTANCE Echo WITH
    envoyes <- [c \in Clients |-> recus[c] \o vers_cli[c] \o EnCours(c) \o vers_srv[c]]
RaffineEcho == EchoDe!Spec

\* A client that ends by itself never brings the server down: only one that is
\* interrupted while the server answers it does.
MortParInterruption ==
    /\ TypeOK
    /\ srv = "mort" => \E c \in Clients : pc[c] = "tue"

\* Every client is served and ends, or is refused.
ClientsServis == \A c \in Clients : <>(pc[c] \in {"fini", "tue"})
=============================================================================
