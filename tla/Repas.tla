-------------------------------- MODULE Repas --------------------------------
(***************************************************************************)
(* What a dining program promises, whatever it synchronises with: a table  *)
(* of Convives, some of whom exclude one another (EnConflit), each eating   *)
(* at most NombreDeRepas times.  A meal starts when nombre_repas of the     *)
(* philosopher is incremented (mange) and ends when he starts to put the    *)
(* cutlery back (poser_couverts).                                           *)
(***************************************************************************)
EXTENDS Naturals

CONSTANTS Convives,          \* the philosophers
          EnConflit(_, _),   \* who may not eat at the same time as whom
          NombreDeRepas      \* meals each of them takes before leaving

VARIABLES mangent,           \* the philosophers who are eating
          repas              \* meals started by each philosopher

vars == <<mangent, repas>>

Init ==
    /\ mangent = {}
    /\ repas = [p \in Convives |-> 0]

Commencer(p) ==
    /\ p \notin mangent
    /\ \A q \in mangent : ~EnConflit(p, q)
    /\ repas[p] < NombreDeRepas
    /\ mangent' = mangent \cup {p}
    /\ repas' = [repas EXCEPT ![p] = @ + 1]

Finir(p) ==
    /\ p \in mangent
    /\ mangent' = mangent \ {p}
    /\ UNCHANGED repas

Next == \E p \in Convives : Commencer(p) \/ Finir(p)

Spec == Init /\ [][Next]_vars
=============================================================================
