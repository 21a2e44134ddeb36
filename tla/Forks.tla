--------------------------------- MODULE Forks ---------------------------------
(***************************************************************************)
(* The programs of fork-exec that multiply: mystere.c, mystereGraphviz.c,   *)
(* multipleFils.c, getChar.c and miseEnBouche.c.  A process is named by     *)
(* the forks that lead to it: <<>> is the first one, p \o <<k>> the k-th    *)
(* child of p.  What it prints waits in its own buffer of stdio, which a    *)
(* fork copies, unless the output is a terminal.                            *)
(***************************************************************************)
EXTENDS Execution, Integers, FiniteSets, SequencesExt

CONSTANT NFILS   \* bound: children of multipleFils.c and getChar.c (10)

ASSUME ForksAssumption == NFILS \in Nat

VARIABLES terminal,   \* the output is a terminal
          etats,      \* the point of each process
          tampons,    \* the lines in the buffer of each process
          entetes,    \* how often the first line has been output
          lignes      \* the other lines that have been output

varsForks == <<terminal, etats, tampons, entetes, lignes>>

ProgrammesForks == {"mystere", "mystereGraphviz", "multipleFils", "getChar", "miseEnBouche"}
Ancetre   == <<>>
Adoptif  == <<0>>              \* init, which adopts orphans
Entete   == <<<<-1>>, <<>>>>   \* the line that is printed before the forks
Accolade == <<<<-2>>, <<>>>>   \* the last line of mystereGraphviz.c
Mystere  == programme \in {"mystere", "mystereGraphviz"}

\* mystere.c is executed in a terminal, mystereGraphviz.c to be read by dot.
InitForks ==
    /\ programme \in ProgrammesForks
    /\ terminal \in CASE programme = "mystere" -> {TRUE} [] programme = "mystereGraphviz" -> {FALSE}
                      [] OTHER -> BOOLEAN
    /\ etats = [p \in {Ancetre} |->
                    IF programme \in {"multipleFils", "getChar"} THEN "boucle" ELSE "debut"]
    /\ tampons = [p \in {Ancetre} |-> {}] /\ entetes = 0 /\ lignes = {}

\* Another program is executed.
ReposForks ==
    /\ terminal = FALSE /\ etats = [p \in {Ancetre} |-> "parti"]
    /\ tampons = [p \in {Ancetre} |-> {}] /\ entetes = 0 /\ lignes = {}

EnfantsDe(p) == {q \in DOMAIN etats : Len(q) = Len(p) + 1 /\ IsPrefix(p, q)}
Vivant(p)    == p \in DOMAIN etats /\ etats[p] \notin {"zombie", "parti"}
getppid(p)   == IF p # Ancetre /\ Vivant(Front(p)) THEN Front(p) ELSE Adoptif

\* A set of lines leaves the process.
Emettre(sortantes) ==
    /\ entetes' = entetes + Cardinality(sortantes \cap {Entete})
    /\ lignes' = lignes \cup (sortantes \ {Entete})

\* printf: the line leaves at once for a terminal, waits in the buffer for the rest.
Imprimer(p, ls) ==
    IF terminal THEN Emettre(ls) /\ UNCHANGED tampons
    ELSE tampons' = [tampons EXCEPT ![p] = @ \cup ls] /\ UNCHANGED <<entetes, lignes>>

\* The end of main, which flushes the buffer, after the children in "recoltes"
\* have been waited for.
Terminer(p, recoltes) ==
    LET derniere == IF programme = "mystereGraphviz" /\ p = Ancetre THEN {Accolade} ELSE {} IN
    /\ Emettre(tampons[p] \cup derniere)
    /\ tampons' = [tampons EXCEPT ![p] = {}]
    /\ etats' = [q \in DOMAIN etats |->
                    IF q = p THEN "zombie" ELSE IF q \in recoltes THEN "parti" ELSE etats[q]]

-----------------------------------------------------------------------------
\* Mutant: fflush is forgotten.
VideSansFflush == {}

\* The programs that flush what they print first.
Vide == {"mystereGraphviz"}

\* The line that is printed before the forks.
Presentation(p) ==
    /\ etats[p] = "debut"
    /\ IF programme \in Vide THEN Emettre({Entete}) /\ UNCHANGED tampons
       ELSE Imprimer(p, {Entete})
    /\ etats' = [etats EXCEPT ![p] = IF Mystere THEN "fork1" ELSE "fork5"]

\* if (fork()*fork()) fork(); else fork() || fork(): where the process and its
\* child go on.  The product is 0 in a process that one of the forks has made.
Suite(point) ==
    CASE point = "fork1" -> <<"fork2", "fork2nul">> [] point = "fork2" -> <<"fork3", "fork4">>
      [] point = "fork2nul" -> <<"fork4", "fork4">> [] point = "fork4" -> <<"ecrire", "fork5">>
      [] OTHER -> <<"ecrire", "ecrire">>

\* fork: the child gets a copy of the buffer.
Naitre(p, suite) ==
    LET fils == Append(p, Cardinality(EnfantsDe(p)) + 1) IN
    /\ etats' = [q \in DOMAIN etats \cup {fils} |->
                    IF q = p THEN suite[1] ELSE IF q = fils THEN suite[2] ELSE etats[q]]
    /\ tampons' = [q \in DOMAIN etats \cup {fils} |-> tampons[IF q = fils THEN p ELSE q]]
    /\ UNCHANGED <<entetes, lignes>>

Fourche(p) ==
    /\ etats[p] \in {"fork1", "fork2", "fork2nul", "fork3", "fork4", "fork5"}
    /\ Naitre(p, Suite(etats[p]))

\* The loop of multipleFils.c and getChar.c, which the children leave, and the
\* end of multipleFils.c.
Boucle(p) ==
    /\ etats[p] = "boucle"
    /\ IF Cardinality(EnfantsDe(p)) < NFILS
       THEN Naitre(p, <<"boucle", "ecrire">>)
       ELSE IF programme = "getChar"
       THEN etats' = [etats EXCEPT ![p] = "getchar"] /\ UNCHANGED <<tampons, entetes, lignes>>
       ELSE Terminer(p, {})

\* The user presses a key.
Touche(p) == etats[p] = "getchar" /\ Terminer(p, {})

\* printf of getpid() and getppid().
Presenter(p) ==
    /\ etats[p] = "ecrire"
    /\ IF programme = "mystereGraphviz" /\ p = Ancetre
       THEN UNCHANGED <<tampons, entetes, lignes>>
       ELSE Imprimer(p, {<<getppid(p), p>>})
    /\ etats' = [etats EXCEPT ![p] = IF Mystere THEN "attendre" ELSE "finir"]

\* while (waitpid(-1, ...) != -1): until every child has ended, in any order.
AttendreEnfants(p) ==
    /\ etats[p] = "attendre"
    /\ \A q \in EnfantsDe(p) : etats[q] = "zombie"
    /\ Terminer(p, EnfantsDe(p))

Finir(p) == etats[p] = "finir" /\ Terminer(p, {})

processusForks(p) ==
    Presentation(p) \/ Fourche(p) \/ Boucle(p) \/ Presenter(p) \/ AttendreEnfants(p) \/ Finir(p)

\* The shell waits for the first process, init for the orphans.
Recolter(p) ==
    /\ etats[p] = "zombie" /\ getppid(p) = Adoptif
    /\ etats' = [etats EXCEPT ![p] = "parti"] /\ UNCHANGED <<tampons, entetes, lignes>>

VersLaFinForks ==
    UNCHANGED terminal /\ \E p \in DOMAIN etats : processusForks(p) \/ Recolter(p)

utilisateurForks == UNCHANGED terminal /\ \E p \in DOMAIN etats : Touche(p)

-----------------------------------------------------------------------------
TypeOKForks ==
    /\ DOMAIN tampons = DOMAIN etats
    /\ \A p \in DOMAIN etats : p # Ancetre => Front(p) \in DOMAIN etats
    /\ entetes \in 0 .. Cardinality(DOMAIN etats)

\* fork_Clone_Exec_etc.md:206, "un processus père et 10 processus fils": the
\* mystery makes 11 processes.  Each of them names its true father, which waits
\* for it, and mystereGraphviz.c draws the edge of every child, after a single
\* header and before its brace, although the processes end in any order.
ArbreExact ==
    /\ TypeOKForks
    /\ terminal => entetes <= 1
    /\ Mystere =>
           /\ Cardinality(DOMAIN etats) <= 11
           /\ \A l \in lignes \ {Accolade} : l[2] # Ancetre => l[1] = Front(l[2])
    /\ programme = "mystereGraphviz" =>
           /\ entetes <= 1 /\ (lignes # {} => entetes = 1)
           /\ Accolade \in lignes => Cardinality(lignes) = 11

\* What must come in the end: no process is left, zombies included; getChar.c,
\* whose children stay zombies until then (lines 22-27), needs its key.
CalmeForks == programme = "getChar" \/ \A p \in DOMAIN etats : etats[p] = "parti"
=============================================================================
