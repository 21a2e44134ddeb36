----------------------------- MODULE Recouvrement -----------------------------
(***************************************************************************)
(* The programs that cover themselves by another one: exec0.c, execvp0.c,   *)
(* exec0fin.c and execAvecChemin.c, which look for a command along PATH,    *)
(* exec5.c, which covers itself, and descripteursFichiers.c, which          *)
(* redirects before.  A directory of PATH is TRUE when it has the command.  *)
(***************************************************************************)
EXTENDS Execution, Integers, SequencesExt

CONSTANT NDOSSIERS   \* bound: directories of PATH

ASSUME RecouvrementAssumption == NDOSSIERS \in Nat

VARIABLES contexte,   \* what is given: argument, PATH, terminal, closed descriptors
          attendant,  \* where the process that forks is, if there is one
          exec,       \* where the process that is covered is
          restants,   \* the directories that strtok has not returned yet
          lancee,     \* the directory the command was found in, 0 before
          fds,        \* what each descriptor points to
          fd_in, fd_out,
          compteur5,   \* the argument of exec5.c
          imprimes,   \* the numbers exec5.c has output
          statut,     \* how the covered process ended: -1 when a signal killed it
          exit_statut \* the status that the process that forks ends with

varsDescripteurs == <<fds, fd_in, fd_out>>
varsExec5        == <<compteur5, imprimes>>
varsFin          == <<statut, exit_statut>>
varsRecouvrement ==
    <<contexte, attendant, exec, restants, lancee, varsDescripteurs, varsExec5, varsFin>>

Redirection == "descripteursFichiers"
AvecPere    == {"exec0fin", "execAvecChemin"}
ProgrammesRecouvrement == {"exec0", "execvp0", "exec5", Redirection} \cup AvecPere

Numeros   == 0 .. 4
Standards == {0, 1, 2}
Libre     == "libre"
Rien      == -1   \* no argument; no descriptor
Ouverts(fermes) == [d \in Numeros |-> IF d \in Standards \ fermes THEN "terminal" ELSE Libre]

Contexte(arguments, chemins, fermes) ==
    [argument : arguments, chemin : chemins, terminal : BOOLEAN, fermes : fermes]
Chemins == SeqOf(BOOLEAN, NDOSSIERS)

\* The argument of exec5.c is a number; 7 stands for what is refused too.  PATH
\* may be undefined, <<>>, for execAvecChemin.c, which asks for it itself.
InitRecouvrement ==
    /\ programme \in ProgrammesRecouvrement
    /\ contexte \in
         CASE programme = "exec5" -> Contexte(Rien .. 7, {<<FALSE>>, <<TRUE>>}, {{}})
           [] programme = Redirection -> Contexte({0}, {<<FALSE>>, <<TRUE>>}, SUBSET Standards)
           [] programme = "execAvecChemin" -> Contexte({Rien, 0}, Chemins, {{}})
           [] OTHER -> Contexte({Rien, 0}, Chemins \ {<<>>}, {{}})
    /\ attendant = IF programme \in AvecPere THEN "fork" ELSE "aucun"
    /\ exec = CASE programme \in AvecPere -> "absent" [] programme = Redirection -> "ouvrir"
                 [] OTHER -> "exec"
    /\ restants = contexte.chemin /\ lancee = 0
    /\ fds = Ouverts(contexte.fermes) /\ fd_in = Rien /\ fd_out = Rien
    /\ compteur5 = contexte.argument /\ imprimes = <<>>
    /\ statut = 0 /\ exit_statut = 0

ReposRecouvrement ==
    /\ contexte = [argument |-> 0, chemin |-> <<>>, terminal |-> FALSE, fermes |-> {}]
    /\ attendant = "aucun" /\ exec = "fini" /\ restants = <<>> /\ lancee = 0
    /\ fds = Ouverts({}) /\ fd_in = Rien /\ fd_out = Rien
    /\ compteur5 = 0 /\ imprimes = <<>> /\ statut = 1 /\ exit_statut = 0

-----------------------------------------------------------------------------
\* The covered process exits, or returns from main.
Achever(s) == exec' = "fini" /\ statut' = s /\ UNCHANGED exit_statut

\* The lowest descriptor that is free.
Nouveau(table) == CHOOSE d \in Numeros : table[d] = Libre /\ \A e \in 0 .. d - 1 : table[e] # Libre

\* open(argv[1], O_RDONLY) and creat(argv[2], 0666): a failure is only told.
OuvrirEntree ==
    /\ exec = "ouvrir" /\ exec' = "creer"
    /\ \/ fd_in' = Nouveau(fds) /\ fds' = [fds EXCEPT ![fd_in'] = "in"]
       \/ fd_in' = Rien /\ UNCHANGED fds
    /\ UNCHANGED <<contexte, attendant, restants, lancee, fd_out, varsExec5, varsFin>>

CreerSortie ==
    /\ exec = "creer" /\ exec' = "dup2"
    /\ \/ fd_out' = Nouveau(fds) /\ fds' = [fds EXCEPT ![fd_out'] = "out"]
       \/ fd_out' = Rien /\ UNCHANGED fds
    /\ UNCHANGED <<contexte, attendant, restants, lancee, fd_in, varsExec5, varsFin>>

\* The three dup2: || does not try those that come after a failure.
Dupliquer ==
    /\ exec = "dup2" /\ exec' = "fermer"
    /\ fds' = LET avecIn == [fds EXCEPT ![0] = fds[fd_in]] IN
              IF fd_in = Rien THEN fds
              ELSE IF fd_out = Rien THEN avecIn
              ELSE [avecIn EXCEPT ![1] = avecIn[fd_out], ![2] = avecIn[fd_out]]
    /\ UNCHANGED <<contexte, attendant, restants, lancee, fd_in, fd_out, varsExec5, varsFin>>

\* Mutant: only the input is closed.
FermerIn ==
    /\ exec = "fermer" /\ exec' = "exec"
    /\ fds' = [d \in Numeros |-> IF d = fd_in THEN Libre ELSE fds[d]]
    /\ UNCHANGED <<contexte, attendant, restants, lancee, fd_in, fd_out, varsExec5, varsFin>>

\* close of both, whatever number they have.
FermerLesDeux ==
    /\ exec = "fermer" /\ exec' = "exec"
    /\ fds' = [d \in Numeros |-> IF d \in {fd_in, fd_out} THEN Libre ELSE fds[d]]
    /\ UNCHANGED <<contexte, attendant, restants, lancee, fd_in, fd_out, varsExec5, varsFin>>

-----------------------------------------------------------------------------
\* execlp and execvp: the first directory of PATH that has the command; without
\* an argument the program has ended before.
execvp ==
    /\ exec = "exec" /\ programme \notin {"execAvecChemin", "exec5"}
    /\ IF contexte.argument = Rien \/ TRUE \notin Range(contexte.chemin)
       THEN Achever(1) /\ UNCHANGED lancee
       ELSE /\ lancee' = SelectInSeq(contexte.chemin, LAMBDA d : d)
            /\ exec' = "commande" /\ UNCHANGED varsFin
    /\ UNCHANGED <<contexte, attendant, restants, varsDescripteurs, varsExec5>>

\* An iteration of exec_avec_chemin: execv only returns when it fails.
exec_avec_chemin ==
    /\ exec = "exec" /\ programme = "execAvecChemin"
    /\ IF restants = <<>> THEN Achever(1) /\ UNCHANGED <<restants, lancee>>
       ELSE /\ restants' = Tail(restants)
            /\ IF Head(restants)
               THEN exec' = "commande" /\ lancee' = Len(contexte.chemin) - Len(restants) + 1
               ELSE UNCHANGED <<exec, lancee>>
            /\ UNCHANGED varsFin
    /\ UNCHANGED <<contexte, attendant, varsDescripteurs, varsExec5>>

\* main of exec5.c, from its start to the next: 5 is not counted down without an
\* argument, and a line that is not on a terminal is lost with its buffer.
main5 ==
    /\ exec = "exec" /\ programme = "exec5"
    /\ IF compteur5 \notin {Rien} \cup 1 .. 5 THEN Achever(1) /\ UNCHANGED varsExec5
       ELSE /\ compteur5' = IF compteur5 = Rien THEN 5 ELSE compteur5 - 1
            /\ LET trouve == contexte.chemin[1]
               IN  /\ imprimes' = IF compteur5' < 5 /\ (contexte.terminal \/ ~trouve)
                                  THEN Append(imprimes, 5 - compteur5') ELSE imprimes
                   /\ IF trouve THEN UNCHANGED <<exec, varsFin>> ELSE Achever(1)
    /\ UNCHANGED <<contexte, attendant, restants, lancee, varsDescripteurs>>

\* The command ends, or a signal kills it.
Commande ==
    /\ exec = "commande"
    /\ \E s \in {-1, 0, 1} : Achever(s)
    /\ UNCHANGED <<contexte, attendant, restants, lancee, varsDescripteurs, varsExec5>>

\* main of exec0fin.c and execAvecChemin.c: the fork, unless no command is given;
Forker ==
    /\ attendant = "fork"
    /\ IF contexte.argument = Rien
       THEN attendant' = "fini" /\ exit_statut' = 1 /\ UNCHANGED exec
       ELSE attendant' = "waitpid" /\ exec' = "exec" /\ UNCHANGED exit_statut
    /\ UNCHANGED <<contexte, restants, lancee, varsDescripteurs, varsExec5, statut>>

\* waitpid, and exit: exit_statut is only assigned if the command has exited.
Waitpid ==
    /\ attendant = "waitpid" /\ exec = "fini" /\ attendant' = "fini"
    /\ exit_statut' = IF statut # -1 THEN statut ELSE exit_statut
    /\ UNCHANGED <<contexte, exec, restants, lancee, varsDescripteurs, varsExec5, statut>>

processusRecouvrement ==
    \/ OuvrirEntree \/ CreerSortie \/ Dupliquer \/ FermerLesDeux \/ execvp \/ exec_avec_chemin
    \/ main5 \/ Forker \/ Waitpid

-----------------------------------------------------------------------------
\* Where the command must be found.
Premiere == IF TRUE \in Range(contexte.chemin)
            THEN CHOOSE i \in DOMAIN contexte.chemin :
                     contexte.chemin[i] /\ \A j \in 1 .. i - 1 : ~contexte.chemin[j]
            ELSE 0

TypeOKRecouvrement ==
    /\ fds \in [Numeros -> {"terminal", "in", "out", Libre}]
    /\ fd_in \in Rien .. 4 /\ fd_out \in Rien .. 4 /\ compteur5 \in Rien .. 7
    /\ statut \in {-1, 0, 1} /\ exit_statut \in {0, 1}

\* The table that descripteursFichiers.c:47-49 shows, when both files open and
\* the standard descriptors were open; a file that did not open leaves what it
\* should have replaced, and the output is redirected only if the input is.  A
\* standard descriptor that was closed, and that one of the two files has got, is
\* closed again even if it had to be redirected.  Nothing else is open.
TableExacte ==
    /\ {fd_in, fd_out} \cap Standards \subseteq contexte.fermes
    /\ fds = [d \in Numeros |->
                 IF d \in {fd_in, fd_out} THEN Libre
                 ELSE CASE d = 0 /\ fd_in # Rien -> "in"
                        [] d \in {1, 2} /\ fd_in # Rien /\ fd_out # Rien -> "out"
                        [] OTHER -> Ouverts(contexte.fermes)[d]]

\* A command that runs is the one PATH promises, with the descriptors described
\* above, whichever were closed at the start; what finds no command fails.
\* exec5.c covers itself down to the fifth.  A program that forks ends after its
\* command and with the status of it, but with success when a signal has killed
\* it, and fails when it was given none.
CommandeLancee ==
    /\ TypeOKRecouvrement
    /\ exec = "commande" => lancee = Premiere /\ TableExacte
    /\ exec = "fini" /\ lancee = 0 => statut = 1
    /\ programme = "exec5" /\ exec = "fini" /\ contexte.terminal /\ contexte.chemin[1] =>
           LET depart == IF contexte.argument = Rien THEN 5 ELSE contexte.argument
           IN  imprimes = [i \in 1 .. (IF depart \in 1 .. 5 THEN depart ELSE 0) |->
                               5 - depart + i]
    /\ attendant = "fini" =>
           \/ exec = "fini" /\ exit_statut = IF statut = -1 THEN 0 ELSE statut
           \/ exec = "absent" /\ contexte.argument = Rien /\ exit_statut = 1

\* What must come: the end of the program, unless its command goes on.
CalmeRecouvrement ==
    attendant = "fini" \/ (attendant = "aucun" /\ exec = "fini") \/ exec = "commande"
=============================================================================
