------------------------------ MODULE MCSrvChat ------------------------------
(***************************************************************************)
(* SrvChat for TLC: the clients are interchangeable.                        *)
(***************************************************************************)
EXTENDS SrvChat, TLC

Symetrie == Permutations(Clients)
=============================================================================
