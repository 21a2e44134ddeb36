------------------------------ MODULE FileBornee ------------------------------
(***************************************************************************)
(* What the producer/consumer programs are meant to be: a first-in          *)
(* first-out queue that never holds more than Capacite data.  The state is  *)
(* what the program prints: the productions and the consumptions, in order. *)
(***************************************************************************)
EXTENDS Naturals, Sequences

CONSTANTS Donnees, Capacite

VARIABLES produits, consommes

vars == <<produits, consommes>>

Init == produits = <<>> /\ consommes = <<>>

Deposer ==
    /\ Len(produits) - Len(consommes) < Capacite
    /\ \E d \in Donnees : produits' = Append(produits, d)
    /\ UNCHANGED consommes

\* The oldest datum that has not been consumed.
Retirer ==
    /\ Len(consommes) < Len(produits)
    /\ consommes' = Append(consommes, produits[Len(consommes) + 1])
    /\ UNCHANGED produits

Spec == Init /\ [][Deposer \/ Retirer]_vars
=============================================================================
