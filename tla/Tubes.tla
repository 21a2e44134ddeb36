-------------------------------- MODULE Tubes --------------------------------
(***************************************************************************)
(* shellPipe.c, shellFifo.c and shellFifo-2.c: the father forks two         *)
(* processes that execute two commands, the output of the first being read  *)
(* by the second through a pipe, a named pipe, or a pipe that is named      *)
(* /proc/self/fd/N.                                                         *)
(*                                                                          *)
(* p0 and p1 are the ends of the pipe, "0" and "1" the standard descriptors *)
(* of a command or, with the named pipe, what it has opened.  The commands  *)
(* are external: the first writes as much as it wants, the second reads to  *)
(* the end, or stops when it likes, or does not read at all.                *)
(***************************************************************************)
EXTENDS Execution, Integers, FiniteSets

CONSTANTS CAPACITE,   \* bound: writes that a pipe holds
          MAXECRIT    \* bound: writes of a first command that ends

ASSUME TubesAssumption == CAPACITE \in Nat \ {0} /\ MAXECRIT \in Nat

VARIABLES nature,      \* of the second command: what it does with its input
          pc, desc,    \* of each process: its point, its ends of the pipe
          reste,       \* what the first command has still to write
          tube,        \* the number of writes in the pipe
          fifo         \* the named pipe is in the directory

varsTubes == <<nature, pc, desc, reste, tube, fifo>>

ProgrammesTubes == {"shellPipe", "shellFifo", "shellFifo2"}
Enfants   == {"commande1", "commande2"}
Processus == Enfants \cup {"pere"}
Infini    == -1
Termines  == {"sorti", "sigpipe"}

Lecteurs  == {p \in Processus : desc[p] \cap {"p0", "0"} # {}}
Ecrivains == {p \in Processus : desc[p] \cap {"p1", "1"} # {}}

\* A command that writes for ever and one that reads to the end never end.
\* shellFifo.c may find the named pipe of an execution that was interrupted.
InitTubes ==
    /\ programme \in ProgrammesTubes
    /\ nature \in {"tout", "debut", "rien"}
    /\ reste \in 0 .. MAXECRIT \cup {Infini}
    /\ ~(nature = "tout" /\ reste = Infini)
    /\ pc = [p \in Processus |-> IF p = "pere" THEN "creer" ELSE "absent"]
    /\ desc = [p \in Processus |-> {}]
    /\ tube = 0
    /\ fifo \in (IF programme = "shellFifo" THEN BOOLEAN ELSE {FALSE})

\* Another program is executed.
ReposTubes ==
    /\ nature = "tout" /\ reste = 0 /\ tube = 0 /\ fifo = FALSE
    /\ pc = [p \in Processus |-> IF p = "pere" THEN "fini" ELSE "absent"]
    /\ desc = [p \in Processus |-> {}]

Aller(p, ou) == pc' = [pc EXCEPT ![p] = ou]
Sortir(p, ou) ==
    /\ Aller(p, ou)
    /\ desc' = [desc EXCEPT ![p] = {}]

-----------------------------------------------------------------------------
\* pipe, or mkfifo, which fails if the name is taken.
Creer ==
    /\ pc["pere"] = "creer"
    /\ IF programme = "shellFifo"
       THEN /\ Aller("pere", IF fifo THEN "fini" ELSE "fork1")
            /\ fifo' = TRUE
            /\ UNCHANGED desc
       ELSE /\ Aller("pere", "fork1")
            /\ desc' = [desc EXCEPT !["pere"] = {"p0", "p1"}]
            /\ UNCHANGED fifo

\* A child inherits the descriptors of its father.
Fork(enfant, ici, ensuite) ==
    /\ pc["pere"] = ici
    /\ pc' = [pc EXCEPT !["pere"] = ensuite, ![enfant] = "preparer"]
    /\ desc' = [desc EXCEPT ![enfant] = desc["pere"]]

\* Mutant: the father forgets to close the end that it would write to.
FermerLectureSeule ==
    /\ pc["pere"] = "fermer"
    /\ Aller("pere", "attendre1")
    /\ desc' = [desc EXCEPT !["pere"] = @ \ {"p0"}]

\* The father closes both ends; shellFifo.c has none.
Fermer ==
    /\ pc["pere"] = "fermer"
    /\ Aller("pere", "attendre1")
    /\ desc' = [desc EXCEPT !["pere"] = {}]

Fork1 == Fork("commande1", "fork1", "fork2")

Fork2 == Fork("commande2", "fork2", "fermer")

\* waitpid
Attendre(enfant, ici, ensuite) ==
    /\ pc["pere"] = ici
    /\ pc[enfant] \in Termines
    /\ Aller("pere", ensuite)
    /\ UNCHANGED desc

\* unlink, in shellFifo.c.
Supprimer ==
    /\ pc["pere"] = "supprimer"
    /\ fifo' = FALSE
    /\ Aller("pere", "fini")
    /\ UNCHANGED desc

pere ==
    /\ \/ Creer
       \/ (Fork1 \/ Fork2 \/ Fermer) /\ UNCHANGED fifo
       \/ Attendre("commande1", "attendre1", "attendre2") /\ UNCHANGED fifo
       \/ Attendre("commande2", "attendre2", "supprimer") /\ UNCHANGED fifo
       \/ Supprimer
    /\ UNCHANGED <<nature, reste, tube>>

-----------------------------------------------------------------------------
\* Mutant: dup2 is forgotten.
RedirigerSansDup2 ==
    /\ pc["commande1"] = "preparer" /\ programme # "shellFifo"
    /\ desc' = [desc EXCEPT !["commande1"] = {}]
    /\ Aller("commande1", "exec")

\* The redirection of the output: dup2, close; shellFifo-2.c leaves p0 open.
Rediriger1 ==
    /\ pc["commande1"] = "preparer" /\ programme # "shellFifo"
    /\ desc' = [desc EXCEPT !["commande1"] =
                    {"1"} \cup (IF programme = "shellFifo2" THEN {"p0"} ELSE {})]
    /\ Aller("commande1", "exec")

\* Of the input; shellFifo-2.c gives p0 to the command by its name.
Rediriger2 ==
    /\ pc["commande2"] = "preparer"
    /\ desc' = [desc EXCEPT !["commande2"] =
                    CASE programme = "shellPipe" -> {"0"}
                      [] programme = "shellFifo" -> {}
                      [] programme = "shellFifo2" -> {"p0"}]
    /\ Aller("commande2", "exec")

\* The second command has opened the named pipe, even if it has ended since.
Ouvert2 ==
    \/ "0" \in desc["commande2"]
    \/ pc["commande2"] \in Termines /\ nature # "rien"

\* The open of a named pipe waits until the other end has been opened.
OuvrirFifo1 ==
    \/ /\ pc["commande1"] = "preparer" /\ programme = "shellFifo"
       /\ desc' = [desc EXCEPT !["commande1"] = {"1"}]
       /\ Aller("commande1", "ouvrir")
    \/ /\ pc["commande1"] = "ouvrir"
       /\ Ouvert2
       /\ Aller("commande1", "exec") /\ UNCHANGED desc

OuvrirFifo2 ==
    \/ /\ pc["commande2"] = "actif" /\ programme = "shellFifo" /\ desc["commande2"] = {}
       /\ nature # "rien"
       /\ desc' = [desc EXCEPT !["commande2"] = {"0"}]
       /\ Aller("commande2", "ouvrir")
    \/ /\ pc["commande2"] = "ouvrir"
       /\ pc["commande1"] \notin {"absent", "preparer"}
       /\ Aller("commande2", "actif") /\ UNCHANGED desc

\* execvp, which does not return if it succeeds.
Exec(p) ==
    /\ pc[p] = "exec"
    /\ \/ Aller(p, "actif") /\ UNCHANGED <<desc, nature>>
       \/ Sortir(p, "sorti") /\ nature' = IF p = "commande2" THEN "rien" ELSE nature

\* The first command writes; it receives SIGPIPE if nobody can read any more.
Ecrire ==
    /\ pc["commande1"] = "actif" /\ reste # 0
    /\ IF Lecteurs = {}
       THEN Sortir("commande1", "sigpipe") /\ UNCHANGED <<reste, tube>>
       ELSE /\ tube < CAPACITE
            /\ tube' = tube + 1
            /\ reste' = IF reste = Infini THEN Infini ELSE reste - 1
            /\ UNCHANGED <<pc, desc>>

Finir1 == pc["commande1"] = "actif" /\ reste = 0 /\ Sortir("commande1", "sorti")

Pret2 == pc["commande2"] = "actif" /\ nature # "rien" /\ desc["commande2"] # {}

Lire == Pret2 /\ tube > 0 /\ tube' = tube - 1

\* The end of the file: the pipe is empty and nobody can write to it.
FinDeFichier == Pret2 /\ tube = 0 /\ Ecrivains = {} /\ Sortir("commande2", "sorti")

Abandonner ==
    /\ pc["commande2"] = "actif"
    /\ nature = "rien" \/ (nature = "debut" /\ Pret2)
    /\ Sortir("commande2", "sorti")

commande1 ==
    \/ (Rediriger1 \/ OuvrirFifo1 \/ Finir1) /\ UNCHANGED <<nature, reste, tube, fifo>>
    \/ Exec("commande1") /\ UNCHANGED <<reste, tube, fifo>>
    \/ Ecrire /\ UNCHANGED <<nature, fifo>>

Arret2 == Abandonner /\ UNCHANGED <<nature, reste, tube, fifo>>

commande2 ==
    \/ (Rediriger2 \/ OuvrirFifo2 \/ FinDeFichier) /\ UNCHANGED <<nature, reste, tube, fifo>>
    \/ Exec("commande2") /\ UNCHANGED <<reste, tube, fifo>>
    \/ Lire /\ UNCHANGED <<nature, pc, desc, reste, fifo>>
    \/ Arret2

NextTubes == pere \/ commande1 \/ commande2

\* The processes are scheduled, and a second command that does not read to the
\* end stops one day.
FairTubes ==
    /\ WF_varsTubes(pere) /\ WF_varsTubes(commande1)
    /\ WF_varsTubes(commande2) /\ WF_varsTubes(Arret2)

-----------------------------------------------------------------------------
\* Every variable keeps its type.
TypeOKTubes ==
    /\ pc["pere"] \in {"creer", "fork1", "fork2", "fermer", "attendre1", "attendre2", "supprimer",
                      "fini"}
    /\ \A p \in Enfants : pc[p] \in {"absent", "preparer", "ouvrir", "exec", "actif"} \cup Termines
    /\ desc \in [Processus -> SUBSET {"p0", "p1", "0", "1"}]
    /\ reste \in 0 .. MAXECRIT \cup {Infini}
    /\ tube \in 0 .. CAPACITE

\* A second command that reads to the end has read all that the first wrote:
\* it never takes an end of file for the end of the data.  The first command is
\* killed by SIGPIPE only if the second has ended, although it may write before
\* the second has been created.
ToutLu ==
    /\ TypeOKTubes
    /\ pc["commande1"] = "sigpipe" => pc["commande2"] \in Termines
    /\ nature = "tout" /\ pc["commande2"] \in Termines =>
           pc["commande1"] \in Termines /\ tube = 0

\* What a program needs of the second command in order to end: shellPipe.c
\* nothing, shellFifo.c that it opens the named pipe, and shellFifo-2.c that it
\* reads to the end, since commande1 keeps a reading end and gets no SIGPIPE.
Cooperatif ==
    \/ programme = "shellPipe"
    \/ programme = "shellFifo" /\ nature # "rien"
    \/ programme = "shellFifo2" /\ nature = "tout"

\* What must come then: the end.  No end of the pipe that is left open keeps a
\* reader waiting for an end of file, or a writer for a reader.
CalmeTubes == Cooperatif => pc["pere"] = "fini"
=============================================================================
