------------------------------- MODULE MiniTail -------------------------------
(***************************************************************************)
(* mini-tail.c, mini-tail-PlusieursFichiers.c and mini-tail-INOTIFY.c: the  *)
(* program prints what another process, which is external, appends to one   *)
(* or several files.  The first two look at the sizes of the files every    *)
(* second, the third waits for the kernel to notify it.                     *)
(*                                                                          *)
(* A byte is a number: 0 in the initial content, n for the n-th that is     *)
(* appended.                                                                *)
(***************************************************************************)
EXTENDS Execution, Integers, SequencesExt, FiniteSetsExt

CONSTANTS NFICHIERS,   \* argc - 1, of the programs that take several files
          MAXAJOUTS    \* bound: bytes that are appended

ASSUME MiniTailAssumption == NFICHIERS \in Nat \ {0} /\ MAXAJOUTS \in Nat

VARIABLES fichier,     \* the content of each file
          ecrits,      \* the number of bytes that were appended
          tronques,    \* the files that were truncated (bound: each once)
          surveilles,  \* the files with an inotify watch
          notif,       \* the events that wait in the inotify descriptor
          point, num,  \* the point of the program, its index i
          taille,      \* old_size, prev_sizes, watched[].size
          position,    \* the offsets of the file descriptors
          st_size,     \* what the last fstat has returned
          depart,      \* auxiliary: the size where the display starts
          affiche      \* what has been printed of each file

varsFichiers == <<fichier, ecrits, tronques, notif>>
varsTail == <<varsFichiers, surveilles, point, num, taille, position, st_size, depart, affiche>>

ProgrammesTail == {"mini-tail", "mini-tail-PlusieursFichiers", "mini-tail-INOTIFY"}
Inotify        == programme = "mini-tail-INOTIFY"
Tous           == 1 .. NFICHIERS
Nombre         == IF programme = "mini-tail" THEN 1 ELSE NFICHIERS

InitVide ==
    /\ ecrits = 0 /\ tronques = {} /\ surveilles = {} /\ notif = <<>>
    /\ num = 1 /\ st_size = 0
    /\ taille = [f \in Tous |-> 0] /\ position = taille /\ depart = taille
    /\ affiche = [f \in Tous |-> <<>>]

InitTail ==
    /\ programme \in ProgrammesTail
    /\ fichier \in [Tous -> {<<>>, <<0>>}]
    /\ point = (IF Inotify THEN "surveiller" ELSE "ouvrir")
    /\ InitVide

\* Another program is executed.
ReposTail == fichier = [f \in Tous |-> <<>>] /\ point = "arrete" /\ InitVide

-----------------------------------------------------------------------------
\* The kernel merges an event with the last one that waits, if it is the same.
Notifier(f) ==
    notif' = IF f \in surveilles /\ (notif = <<>> \/ Last(notif) # f)
             THEN Append(notif, f) ELSE notif

inchange == UNCHANGED <<surveilles, point, num, taille, position, st_size, depart, affiche>>

Ajouter(f) ==
    /\ ecrits < MAXAJOUTS
    /\ fichier' = [fichier EXCEPT ![f] = Append(@, ecrits + 1)]
    /\ ecrits' = ecrits + 1
    /\ Notifier(f)
    /\ UNCHANGED tronques /\ inchange

Tronquer(f) ==
    /\ f \notin tronques
    /\ \E n \in 0 .. Len(fichier[f]) - 1 :
           fichier' = [fichier EXCEPT ![f] = SubSeq(@, 1, n)]
    /\ tronques' = tronques \cup {f}
    /\ Notifier(f)
    /\ UNCHANGED ecrits /\ inchange

ecrivain == point # "arrete" /\ \E f \in 1 .. Nombre : Ajouter(f) \/ Tronquer(f)

-----------------------------------------------------------------------------
\* The index and the point after the file num, in the initialisation
PreparerSuivant ==
    IF num < Nombre
    THEN num' = num + 1 /\ point' = (IF Inotify THEN "surveiller" ELSE "ouvrir")
    ELSE num' = 1 /\ point' = (IF Inotify THEN "attendre" ELSE "mesurer")

\* and in the loop.
Suivant ==
    IF Inotify THEN point' = "attendre" /\ UNCHANGED num
    ELSE point' = "mesurer" /\ num' = IF num < Nombre THEN num + 1 ELSE 1

\* inotify_add_watch
Surveiller ==
    /\ point = "surveiller"
    /\ surveilles' = surveilles \cup {num}
    /\ point' = "ouvrir"
    /\ UNCHANGED <<varsFichiers, num, taille, position, st_size, depart, affiche>>

\* open and the first fstat.
Ouvrir ==
    /\ point = "ouvrir"
    /\ LET n == Len(fichier[num]) IN
       /\ st_size' = n
       /\ taille' = [taille EXCEPT ![num] = n]
       /\ IF Inotify THEN point' = "premier" /\ UNCHANGED <<num, depart>>
          ELSE depart' = [depart EXCEPT ![num] = n] /\ PreparerSuivant
    /\ UNCHANGED <<varsFichiers, surveilles, position, affiche>>

\* What a read of n bytes at the offset p of the file f returns.
Lu(f, p, n) == SubSeq(fichier[f], p + 1, Min({p + n, Len(fichier[f])}))

\* The buffer is printed to its end, even if less has been read.
Tampon(lu, n) == lu \o [b \in 1 .. n - Len(lu) |-> "indetermine"]

\* The initial content, in mini-tail-INOTIFY.c.
AfficherTout ==
    /\ point = "premier"
    /\ LET lu == Lu(num, 0, st_size) IN
       /\ affiche' = [affiche EXCEPT ![num] = Tampon(lu, st_size)]
       /\ position' = [position EXCEPT ![num] = Len(lu)]
    /\ PreparerSuivant
    /\ UNCHANGED <<varsFichiers, surveilles, taille, st_size, depart>>

\* Mutant: the read takes all the events and the program handles the first.
AttendreEtVider ==
    /\ point = "attendre" /\ notif # <<>>
    /\ num' = Head(notif)
    /\ notif' = <<>>
    /\ point' = "mesurer"
    /\ UNCHANGED <<fichier, ecrits, tronques, surveilles, taille, position, st_size, depart, affiche>>

\* read blocks until an event waits, and takes one.
AttendreEvenement ==
    /\ point = "attendre" /\ notif # <<>>
    /\ num' = Head(notif)
    /\ notif' = Tail(notif)
    /\ point' = "mesurer"
    /\ UNCHANGED <<fichier, ecrits, tronques, surveilles, taille, position, st_size, depart, affiche>>

\* sleep, and fstat.
Mesurer ==
    /\ point = "mesurer"
    /\ st_size' = Len(fichier[num])
    /\ IF st_size' = taille[num] THEN Suivant ELSE point' = "afficher" /\ UNCHANGED num
    /\ UNCHANGED <<varsFichiers, surveilles, taille, position, depart, affiche>>

Grandi == st_size > taille[num]

\* Mutant: lseek is forgotten where the file has grown.
DebutSansLseek == IF Inotify /\ ~Grandi THEN 0 ELSE position[num]

\* Where the read begins.  Two programs go to the old size if the file has
\* grown; the third goes to the beginning if it has shrunk.
Debut == IF Inotify THEN (IF Grandi THEN position[num] ELSE 0)
         ELSE (IF Grandi THEN taille[num] ELSE position[num])

\* The read, the printf and what the end of the round does.
AfficherChangement ==
    /\ point = "afficher"
    /\ LET n  == IF Grandi THEN st_size - taille[num] ELSE st_size
           lu == Lu(num, Debut, n)
       IN /\ affiche' = [affiche EXCEPT ![num] = @ \o Tampon(lu, n)]
          /\ position' = [position EXCEPT ![num] = IF Inotify THEN Debut + Len(lu) ELSE 0]
    /\ taille' = [taille EXCEPT ![num] = st_size]
    /\ Suivant
    /\ UNCHANGED <<varsFichiers, surveilles, st_size, depart>>

tail == Surveiller \/ Ouvrir \/ AfficherTout \/ AttendreEvenement \/ Mesurer \/ AfficherChangement

-----------------------------------------------------------------------------
TypeOKTail ==
    /\ point \in {"surveiller", "ouvrir", "premier", "attendre", "mesurer", "afficher", "arrete"}
    /\ num \in 1 .. Nombre /\ surveilles \subseteq 1 .. Nombre
    /\ notif \in Seq(surveilles)
    /\ st_size \in 0 .. MAXAJOUTS + 1

\* As long as a file has not been truncated, what has been printed of it is
\* exactly what was appended to it up to the recorded size, in order, each byte
\* once and none that has not been written, although the writer goes on between
\* the fstat and the read.
AffichageExact ==
    /\ TypeOKTail
    /\ \A f \in (1 .. Nombre) \ tronques :
           (point = "premier" /\ num = f)
           \/ affiche[f] = SubSeq(fichier[f], depart[f] + 1, taille[f])

\* When the files change no more, the size that the program has last read of each
\* is its size: none is missed between two looks or two events.  This says nothing
\* of a file that is truncated and grows back to the size already seen.
Rattrapage == \A f \in Tous : <>[](taille[f] = Len(fichier[f]) \/ f > Nombre)
=============================================================================
