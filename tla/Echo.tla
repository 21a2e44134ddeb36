-------------------------------- MODULE Echo --------------------------------
(***************************************************************************)
(* What srv_echo.c and srv_poll.c promise to each client: it receives the   *)
(* lines that it has sent, in order, each once, and nothing else.           *)
(***************************************************************************)
EXTENDS Naturals, Sequences

CONSTANT Clients

VARIABLES envoyes, recus   \* of each client: the lines sent and received

vars == <<envoyes, recus>>

Init == envoyes = [c \in Clients |-> <<>>] /\ recus = [c \in Clients |-> <<>>]

Envoyer(c) ==
    /\ envoyes[c] = recus[c]          \* a client waits for its answer
    /\ envoyes' = [envoyes EXCEPT ![c] = Append(@, <<c, Len(@) + 1>>)]
    /\ UNCHANGED recus

Recevoir(c) ==
    /\ recus[c] # envoyes[c]
    /\ recus' = [recus EXCEPT ![c] = envoyes[c]]
    /\ UNCHANGED envoyes

Spec == Init /\ [][\E c \in Clients : Envoyer(c) \/ Recevoir(c)]_vars
=============================================================================
