----------------------------- MODULE MCProjection -----------------------------
(***************************************************************************)
(* Projection for TLC: one of its programs, alone.                          *)
(***************************************************************************)
EXTENDS Projection

SpecProjection ==
    InitProjection /\ [][NextProjection /\ UNCHANGED programme]_<<programme, varsProjection>>
=============================================================================
