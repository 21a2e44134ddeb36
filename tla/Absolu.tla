-------------------------------- MODULE Absolu --------------------------------
(***************************************************************************)
(* absolute.c: the path of the current directory, found by climbing to the  *)
(* root and looking each directory up in its parent by its inode, while     *)
(* another process moves directories.                                       *)
(***************************************************************************)
EXTENDS Execution, Integers, SequencesExt

CONSTANTS Dossiers,          \* the directories other than the root
          MAXDEPLACEMENTS    \* bound: directories that are moved meanwhile

ASSUME AbsoluAssumption ==
    /\ MAXDEPLACEMENTS \in Nat
    /\ IsFiniteSet(Dossiers) /\ {"/", ".", ".."} \cap Dossiers = {}

VARIABLES parents,        \* where each directory is
          montes,         \* the mount points: one at most
          memeNumero,     \* its file system gives its root the inode of "/"
          ici,            \* the current directory of the program
          courant,        \* cur_dir_fd
          parent,         \* parent_dir_fd
          chemin,         \* absolute_path
          pas,            \* the call that comes next
          deplacements,
          vus             \* the paths the current directory has had meanwhile

varsAbsolu == <<parents, montes, memeNumero, ici, courant, parent, chemin, pas, deplacements, vus>>
Monde      == <<parents, montes, memeNumero, ici, deplacements, vus>>

RacineFS == "/"
Lieux == Dossiers \cup {RacineFS}
InodeRacine  == <<2>>
InodeAilleurs == <<3>>

\* fstat gives the inode of what is mounted, readdir that of what it hides.
inode(d)  == IF d = RacineFS THEN InodeRacine
             ELSE IF d \notin montes THEN <<1, d>>
             ELSE IF memeNumero THEN InodeRacine ELSE InodeAilleurs
d_ino(p, nom) ==
    CASE nom = "."  -> inode(p)
      [] nom = ".." -> inode(IF p = RacineFS \/ p \in montes THEN p ELSE parents[p])
      [] OTHER      -> <<1, nom>>
Entrees(p) == {".", ".."} \cup {d \in Dossiers : parents[d] = p}

\* c is the path of d from the root, in the directories ps.
EstChemin(ps, d, c) ==
    /\ d = IF c = <<>> THEN RacineFS ELSE Last(c)
    /\ \A k \in DOMAIN c : ps[c[k]] = IF k = 1 THEN RacineFS ELSE c[k - 1]

Parcours      == SeqOf(Dossiers, Cardinality(Dossiers))
Chemin(ps, d) == CHOOSE c \in Parcours : EstChemin(ps, d, c)
Arbre(ps)     == \A d \in Dossiers : \E c \in Parcours : EstChemin(ps, d, c)

ProgrammesAbsolu == {"absolute"}

InitAbsolu ==
    /\ programme \in ProgrammesAbsolu
    /\ parents \in {ps \in [Dossiers -> Lieux] : Arbre(ps)}
    /\ montes \in {{}} \cup {{d} : d \in Dossiers}
    /\ memeNumero \in (IF montes = {} THEN {FALSE} ELSE BOOLEAN)
    /\ ici \in Lieux /\ courant = ici /\ parent = ici
    /\ chemin = <<>> /\ pas = "openat" /\ deplacements = 0
    /\ vus = {Chemin(parents, ici)}

ReposAbsolu ==
    /\ parents = [d \in Dossiers |-> RacineFS] /\ montes = {} /\ memeNumero = FALSE
    /\ ici = RacineFS /\ courant = RacineFS /\ parent = RacineFS
    /\ chemin = <<>> /\ pas = "fini" /\ deplacements = 0 /\ vus = {}

-----------------------------------------------------------------------------
\* openat(cur_dir_fd, ".."); the directory opened before is closed after it.
openat ==
    /\ pas = "openat" /\ pas' = "readdir"
    /\ parent' = IF courant = RacineFS THEN RacineFS ELSE parents[courant]
    /\ UNCHANGED <<Monde, courant, chemin>>

\* readdir, until an entry has the inode: the first one in an unknown order.
readdir ==
    /\ pas = "readdir"
    /\ LET trouves == {e \in Entrees(parent) : d_ino(parent, e) = inode(courant)}
       IN  IF trouves = {} THEN pas' = "erreur" /\ UNCHANGED chemin
           ELSE pas' = "fstat" /\ \E e \in trouves : chemin' = <<e>> \o chemin
    /\ UNCHANGED <<Monde, courant, parent>>

\* Mutant: one level too many.
fstatRacinePassee ==
    /\ pas = "fstat" /\ courant' = parent
    /\ pas' = IF inode(courant) = InodeRacine THEN "fini" ELSE "openat"
    /\ UNCHANGED <<Monde, parent, chemin>>

\* fstat of the parent: it is the root when it has the inode of "/".
fstat ==
    /\ pas = "fstat" /\ courant' = parent
    /\ pas' = IF inode(parent) = InodeRacine THEN "fini" ELSE "openat"
    /\ UNCHANGED <<Monde, parent, chemin>>

\* Another process moves a directory, on a single file system, not into itself.
Deplacer(d, vers) ==
    /\ pas \notin {"fini", "erreur"} /\ montes = {} /\ deplacements < MAXDEPLACEMENTS
    /\ vers # parents[d] /\ d \notin ToSet(Chemin(parents, vers))
    /\ parents' = [parents EXCEPT ![d] = vers]
    /\ deplacements' = deplacements + 1
    /\ vus' = vus \cup {Chemin(parents', ici)}
    /\ UNCHANGED <<montes, memeNumero, ici, courant, parent, chemin, pas>>

Monter == openat \/ readdir \/ fstat
deplaceur == \E d \in Dossiers, vers \in Lieux : Deplacer(d, vers)

-----------------------------------------------------------------------------
TypeOKAbsolu ==
    /\ parents \in [Dossiers -> Lieux] /\ Arbre(parents) /\ {ici, courant, parent} \subseteq Lieux
    /\ pas \in {"openat", "readdir", "fstat", "fini", "erreur"}

\* Without a mount point above and below the root, the path that is printed is one
\* the current directory has had meanwhile when one directory at most has been
\* moved, and nothing fails when none has.  Two moves can give a path that never
\* was, and a mount point a path from there on, "..", or an error.
CheminExact ==
    /\ TypeOKAbsolu
    /\ montes \cap ToSet(Chemin(parents, ici)) = {} /\ ici # RacineFS =>
           /\ pas = "fini" /\ deplacements <= 1 => chemin \in vus
           /\ deplacements = 0 => pas # "erreur"
    /\ ici = RacineFS /\ pas = "fini" /\ programme \in ProgrammesAbsolu =>
           chemin \in {<<".">>, <<"..">>}

\* What must come if directories are not moved for ever: the root, or a failure.
CalmeAbsolu == pas \in {"fini", "erreur"}
=============================================================================
