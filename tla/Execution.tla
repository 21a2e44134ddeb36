------------------------------ MODULE Execution ------------------------------
(***************************************************************************)
(* The small programs of the laboratories are modelled in Tubes, MiniTail,  *)
(* Premiers, Signaux, Forks, Recouvrement, Projection, ListeFichiers and    *)
(* Absolu, and one of them is executed at a time: this one.                 *)
(***************************************************************************)
VARIABLE programme
=============================================================================
