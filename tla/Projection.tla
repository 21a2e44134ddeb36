------------------------------ MODULE Projection ------------------------------
(***************************************************************************)
(* The programs of mmap: memcat.c, memtac.c, memcount.c and memgrep.c,      *)
(* which walk over the bytes of a file they have projected.  Addresses      *)
(* count from the start of the projection, and an action is one turn of the *)
(* loop.                                                                    *)
(***************************************************************************)
EXTENDS Execution, Integers, SequencesExt

CONSTANTS MAXTAILLE,   \* bound: size of the file
          MAXTOURS     \* bound: turns of a loop that does not end

ASSUME ProjectionAssumption == MAXTAILLE \in Nat /\ MAXTOURS \in Nat

VARIABLES octets,     \* the file
          motif,      \* what memcount.c and memgrep.c look for
          avancement,      \* "projeter", "boucle", "fini", "erreur" or "indefini"
          pointeur,   \* pointeur_buf, and i of memtac.c
          fin,        \* adresse_fin of memtac.c
          recherches,      \* turns of the loop: compteur of memcount.c
          sortie      \* the bytes that have been written

varsProjection == <<octets, motif, avancement, pointeur, fin, recherches, sortie>>
Donnees == <<octets, motif>>

ProgrammesProjection == {"memcat", "memtac", "memcount", "memgrep"}
NL  == 0
Nul == 9              \* what the page has after the end of the file
Lettres == {1, 2}

InitProjection ==
    /\ programme \in ProgrammesProjection
    /\ octets \in SeqOf({NL} \cup Lettres, MAXTAILLE)
    /\ motif \in IF programme \in {"memcount", "memgrep"} THEN SeqOf(Lettres, 2) ELSE {<<>>}
    /\ avancement = "projeter" /\ pointeur = 0 /\ fin = 0 /\ recherches = 0 /\ sortie = <<>>

ReposProjection ==
    /\ octets = <<>> /\ motif = <<>> /\ avancement = "fini"
    /\ pointeur = 0 /\ fin = 0 /\ recherches = 0 /\ sortie = <<>>

Taille == Len(octets)
octet(i) == IF i < Taille THEN octets[i + 1] ELSE Nul
Octets(debut, n) == [k \in 1 .. n |-> octet(debut + k - 1)]
NULL == -1

\* Where the motif is found from p on, where a line ends, where it starts.
Occurrences(p) == {q \in p .. Taille - Len(motif) : Octets(q, Len(motif)) = motif}
memmem(p)  == IF Occurrences(p) = {} THEN NULL ELSE Min(Occurrences(p))
memchr(p)  == LET S == {q \in p .. Taille - 1 : octet(q) = NL} IN IF S = {} THEN NULL ELSE Min(S)
memrchr(p) == LET S == {q \in 0 .. p - 1 : octet(q) = NL} IN IF S = {} THEN NULL ELSE Max(S)

-----------------------------------------------------------------------------
\* open, fstat and mmap: each may fail, and an empty file cannot be projected.
Projeter ==
    /\ avancement = "projeter"
    /\ \/ Taille > 0 /\ avancement' = "boucle"
       \/ avancement' = "erreur"
    /\ pointeur' = IF programme = "memtac" THEN Taille - 2 ELSE 0
    /\ fin' = Taille
    /\ UNCHANGED <<Donnees, recherches, sortie>>

Arret == avancement' = "fini" /\ UNCHANGED <<pointeur, fin, recherches, sortie>>

\* A single write, which may fail or stop before the end.
memcat ==
    /\ avancement = "boucle" /\ programme = "memcat"
    /\ \/ avancement' = "erreur" /\ UNCHANGED sortie
       \/ avancement' = "fini" /\ \E n \in 1 .. Taille : sortie' = Octets(0, n)
    /\ UNCHANGED <<Donnees, pointeur, fin, recherches>>

\* From the end to the start, each line when its start is met; the loop is not
\* entered for a single byte.
memtac ==
    /\ avancement = "boucle" /\ programme = "memtac"
    /\ IF pointeur < 0 THEN Arret
       ELSE /\ IF octet(pointeur) = NL
               THEN /\ sortie' = sortie \o Octets(pointeur + 1, fin - pointeur - 1)
                    /\ fin' = pointeur + 1
               ELSE /\ sortie' = IF pointeur = 0 THEN sortie \o Octets(0, fin) ELSE sortie
                    /\ UNCHANGED fin
            /\ pointeur' = pointeur - 1
            /\ UNCHANGED <<avancement, recherches>>
    /\ UNCHANGED Donnees

\* Mutant: the search goes on one byte after the start of the motif.
memcountChevauche ==
    /\ avancement = "boucle" /\ programme = "memcount" /\ recherches < MAXTOURS
    /\ IF memmem(pointeur) = NULL THEN Arret
       ELSE /\ pointeur' = memmem(pointeur) + 1
            /\ recherches' = recherches + 1
            /\ UNCHANGED <<avancement, fin, sortie>>
    /\ UNCHANGED Donnees

\* The search goes on after the motif: an empty one is found again for ever.
memcount ==
    /\ avancement = "boucle" /\ programme = "memcount" /\ recherches < MAXTOURS
    /\ IF memmem(pointeur) = NULL THEN Arret
       ELSE /\ pointeur' = memmem(pointeur) + Len(motif)
            /\ recherches' = recherches + 1
            /\ UNCHANGED <<avancement, fin, sortie>>
    /\ UNCHANGED Donnees

\* The line of the next occurrence.  When no newline ends it, its end is taken
\* to be "taille" bytes after the start of the file: taille is what is left of
\* the file.  The search then goes on in front of what was found, or past the
\* end, where taille is negative and nothing is defined; memchr has also been
\* allowed to read past the end.
memgrep ==
    /\ avancement = "boucle" /\ programme = "memgrep" /\ recherches < MAXTOURS
    /\ LET occurence == memmem(pointeur)
           debut     == memrchr(occurence) + 1
           trouve    == memchr(occurence)
           adresse   == IF trouve = NULL THEN Taille - pointeur ELSE trouve
           longueur  == adresse - debut + 1
       IN  IF occurence = NULL THEN Arret
           ELSE \/ /\ pointeur' = adresse + 1
                   /\ recherches' = recherches + 1
                   /\ sortie' = IF longueur > 0 THEN sortie \o Octets(debut, longueur) ELSE sortie
                   /\ avancement' = IF pointeur' > Taille THEN "indefini" ELSE avancement
                   /\ UNCHANGED fin
                \/ /\ trouve = NULL /\ occurence > pointeur /\ avancement' = "indefini"
                   /\ UNCHANGED <<pointeur, fin, recherches, sortie>>
    /\ UNCHANGED Donnees

NextProjection == Projeter \/ memcat \/ memtac \/ memcount \/ memgrep

-----------------------------------------------------------------------------
\* The line that a byte belongs to, the bytes of the lines with the motif, and
\* those of them that a newline ends.
Ligne(i) == Cardinality({q \in 0 .. i - 1 : octet(q) = NL})
Gardes   == {i \in 0 .. Taille - 1 : \E q \in Occurrences(0) : Ligne(q) = Ligne(i)}
LignesTerminees == {i \in Gardes : \E q \in i .. Taille - 1 : octet(q) = NL}

\* They have been written, each after those that precede it in the file; a last
\* line without a newline may be cut.
LignesDuMotif ==
    /\ Len(sortie) \in Cardinality(LignesTerminees) .. Cardinality(Gardes)
    /\ \A i \in Gardes : LET place == Cardinality({g \in Gardes : g < i}) + 1
                         IN  place <= Len(sortie) => sortie[place] = octet(i)

\* What precedes a byte when the last line comes first, and the first n bytes in
\* that order: they have been written.
Precedents(i) == {g \in 0 .. Taille - 1 : Ligne(g) > Ligne(i) \/ (Ligne(g) = Ligne(i) /\ g < i)}
Retourne(n) ==
    /\ Len(sortie) = n
    /\ \A i \in 0 .. Taille - 1 :
           LET place == Cardinality(Precedents(i)) IN place < n => sortie[place + 1] = octet(i)

\* The largest number of occurrences that do not overlap.
Disjointes ==
    Max({Cardinality(S) : S \in {R \in SUBSET Occurrences(0) :
                                     \A q, r \in R : q < r => q + Len(motif) <= r}})

TypeOKProjection ==
    /\ avancement \in {"projeter", "boucle", "fini", "erreur", "indefini"}
    /\ pointeur \in -2 .. Taille + 1 /\ fin \in 0 .. Taille /\ recherches \in 0 .. MAXTOURS

\* What has been written when the program ends.  memtac.c loses the newline a
\* file starts with, and a single byte.  memgrep.c writes the lines in the order of
\* the file, once each; only when the last line has the motif and no newline can
\* it be cut, or does the program leave the file.  Neither search ends for an
\* empty motif.
ProjectionExacte ==
    /\ TypeOKProjection
    /\ avancement = "fini" =>
           /\ programme = "memcat" => IsPrefix(sortie, octets)
           /\ programme = "memtac" =>
                  Retourne(IF octets[1] = NL \/ Taille = 1 THEN Taille - 1 ELSE Taille)
           /\ programme = "memcount" => motif # <<>> /\ recherches = Disjointes
           /\ programme = "memgrep" => motif # <<>> /\ LignesDuMotif
    /\ avancement = "indefini" => programme = "memgrep" /\ LignesTerminees # Gardes

\* What memtac.c:1-3 and memgrep.c:1-3 announce: the whole content, or all the
\* lines with the motif, "dans l'ordre inverse".
OrdreInverse ==
    avancement = "fini" =>
        /\ programme = "memtac" => Retourne(Taille)
        /\ programme = "memgrep" /\ LignesTerminees = Gardes =>
               /\ Len(sortie) = Cardinality(Gardes)
               /\ \A i \in Gardes :
                      sortie[Cardinality(Gardes \cap Precedents(i)) + 1] = octet(i)

\* What must come but for an empty motif, or a last line that has the motif and no
\* newline.
CalmeProjection ==
    \/ programme \in {"memcount", "memgrep"} /\ motif = <<>>
    \/ programme = "memgrep" /\ LignesTerminees # Gardes
    \/ avancement \in {"fini", "erreur"}
=============================================================================
