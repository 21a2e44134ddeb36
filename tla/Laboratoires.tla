----------------------------- MODULE Laboratoires -----------------------------
(***************************************************************************)
(* The small programs of the laboratories, one of which is executed.  Their *)
(* models share nothing but the choice of the program: what is not part of  *)
(* it rests.                                                                *)
(***************************************************************************)
EXTENDS Tubes, MiniTail, Premiers, Signaux, Forks, Recouvrement, Projection, ListeFichiers, Absolu

vars == <<programme, varsTubes, varsTail, varsPremiers, varsSignaux, varsForks,
          varsRecouvrement, varsProjection, varsListe, varsAbsolu>>

Programmes ==
    UNION {ProgrammesTubes, ProgrammesTail, ProgrammesPremiers, ProgrammesSignaux, ProgrammesForks,
           ProgrammesRecouvrement, ProgrammesProjection, ProgrammesListe, ProgrammesAbsolu}

Init ==
    /\ programme \in Programmes
    /\ IF programme \in ProgrammesTubes        THEN InitTubes        ELSE ReposTubes
    /\ IF programme \in ProgrammesTail         THEN InitTail         ELSE ReposTail
    /\ IF programme \in ProgrammesPremiers     THEN InitPremiers     ELSE ReposPremiers
    /\ IF programme \in ProgrammesSignaux      THEN InitSignaux      ELSE ReposSignaux
    /\ IF programme \in ProgrammesForks        THEN InitForks        ELSE ReposForks
    /\ IF programme \in ProgrammesRecouvrement THEN InitRecouvrement ELSE ReposRecouvrement
    /\ IF programme \in ProgrammesProjection   THEN InitProjection   ELSE ReposProjection
    /\ IF programme \in ProgrammesListe        THEN InitListe        ELSE ReposListe
    /\ IF programme \in ProgrammesAbsolu       THEN InitAbsolu       ELSE ReposAbsolu

-----------------------------------------------------------------------------
\* What a step of one program leaves alone: the variables of the others.
Hors(autres) == UNCHANGED <<programme, autres>>
Labos1 == <<varsTubes, varsTail, varsPremiers>>
Labos2 == <<varsSignaux, varsForks, varsRecouvrement>>
Labos3 == <<varsProjection, varsListe, varsAbsolu>>

\* The program that is executed, with what the kernel does for it.
VersLaFin ==
    \/ programme \in ProgrammesTail /\ tail /\ Hors(<<varsTubes, varsPremiers, Labos2, Labos3>>)
    \/ /\ programme \in ProgrammesPremiers /\ NextPremiers
       /\ Hors(<<varsTubes, varsTail, Labos2, Labos3>>)
    \/ /\ programme \in ProgrammesSignaux /\ processusSignaux
       /\ Hors(<<varsForks, varsRecouvrement, Labos1, Labos3>>)
    \/ /\ programme \in ProgrammesForks /\ VersLaFinForks
       /\ Hors(<<varsSignaux, varsRecouvrement, Labos1, Labos3>>)
    \/ /\ programme \in ProgrammesRecouvrement /\ processusRecouvrement
       /\ Hors(<<varsSignaux, varsForks, Labos1, Labos3>>)
    \/ /\ programme \in ProgrammesProjection /\ NextProjection
       /\ Hors(<<varsListe, varsAbsolu, Labos1, Labos2>>)
    \/ /\ programme \in ProgrammesListe /\ NextListe
       /\ Hors(<<varsProjection, varsAbsolu, Labos1, Labos2>>)
    \/ /\ programme \in ProgrammesAbsolu /\ Monter
       /\ Hors(<<varsProjection, varsListe, Labos1, Labos2>>)

\* The user and the other processes, and the commands of Tubes, whose fairness
\* is their own.
Exterieur ==
    \/ /\ programme \in ProgrammesTubes /\ NextTubes
       /\ Hors(<<varsTail, varsPremiers, Labos2, Labos3>>)
    \/ /\ programme \in ProgrammesTail /\ ecrivain
       /\ Hors(<<varsTubes, varsPremiers, Labos2, Labos3>>)
    \/ /\ programme \in ProgrammesSignaux /\ utilisateurSignaux
       /\ Hors(<<varsForks, varsRecouvrement, Labos1, Labos3>>)
    \/ /\ programme \in ProgrammesForks /\ utilisateurForks
       /\ Hors(<<varsSignaux, varsRecouvrement, Labos1, Labos3>>)
    \/ /\ programme \in ProgrammesRecouvrement /\ Commande
       /\ Hors(<<varsSignaux, varsForks, Labos1, Labos3>>)
    \/ /\ programme \in ProgrammesAbsolu /\ deplaceur
       /\ Hors(<<varsProjection, varsListe, Labos1, Labos2>>)

Next == VersLaFin \/ Exterieur

\* What is executed is scheduled; nobody has to send a signal, press a key, end
\* a command or move a directory.
Spec == Init /\ [][Next]_vars /\ FairTubes /\ WF_vars(VersLaFin)

-----------------------------------------------------------------------------
\* The programs that promise to end do: the pipes if the second command plays
\* its part, a handler that must not be cut, the trees of processes, the programs
\* that cover themselves, the searches that are not endless, the climb.
Terminaison ==
    []<>(/\ CalmeTubes /\ CalmeSignaux /\ CalmeForks /\ CalmeRecouvrement
         /\ CalmeProjection /\ CalmeListe /\ CalmeAbsolu)
=============================================================================
