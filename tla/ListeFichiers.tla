----------------------------- MODULE ListeFichiers -----------------------------
(***************************************************************************)
(* The eight mini_ls: what they say of the files they are given, one file   *)
(* or one entry of a directory per step.  Special bits, dates and sizes are *)
(* left out, and links change meanwhile in no program.                      *)
(***************************************************************************)
EXTENDS Execution, Integers, SequencesExt

CONSTANTS MAXARGUMENTS,   \* bound: files that are given
          TAILLE_LIEN     \* size of lien_sym in mini_ls_fichierspointes.c

ASSUME ListeAssumption == MAXARGUMENTS \in Nat /\ TAILLE_LIEN \in Nat

VARIABLES arguments,   \* the files that are given
          option,      \* -n is given
          rang,      \* how many of them have been treated
          entrees,     \* what is left of the directory that is open
          lien_sym,    \* the buffer of readlink; fichier_source
          color,       \* the variable of mini_ls_acl.c
          liste,       \* the lines that have been printed
          retour       \* "enCours", how the program has ended, or "indefini"

varsListe == <<arguments, option, rang, entrees, lien_sym, color, liste, retour>>
VarsBoucle   == <<rang, entrees, lien_sym, color>>

\* Files that differ in what the programs tell apart: "masque" has a mode below
\* 0100, "partage" an access control list, "anonyme" an owner without a name,
\* "nomLong" a name of 100 characters or more; a directory may also be closed to
\* opendir.  "." and ".." are entries like others.
Repertoires == {"dossier", "dossierPartage", "dossierFerme"}
Liens     == {"lienLong", "lienCourt", "lienCasse"}
Sortes    == {"absent", "programme", "texte", "masque", "partage", "anonyme", "nomLong"}
             \cup Repertoires \cup Liens

Contenu(f)  == CASE f = "dossier" -> <<"programme", "lienCourt", "masque">>
                 [] f = "dossierPartage" -> <<"texte", "partage", "lienCasse">>
                 [] OTHER -> <<>>
Longueur(f) == CASE f = "lienLong" -> 3 [] f = "lienCasse" -> 2 [] f = "lienCourt" -> 1
                 [] OTHER -> 0
Cible(f)    == [k \in 1 .. Longueur(f) |-> f]

Simples     == {"mini_ls_name", "mini_ls_uid_gid"}
Recursifs   == {"mini_ls_dir", "mini_ls_dir2"}
Patients    == Recursifs \cup {"mini_ls_acl"}
AvecTampon  == {"mini_ls_fichierspointes", "mini_ls_couleurs"}
ProgrammesListe == Simples \cup Patients \cup AvecTampon \cup {"mini_ls_plusieurs"}

InitListe ==
    /\ programme \in ProgrammesListe
    /\ arguments \in SeqOf(Sortes, IF programme \in Simples THEN 1 ELSE MAXARGUMENTS)
    /\ option \in (IF programme \in Recursifs \cup {"mini_ls_name"} THEN BOOLEAN ELSE {FALSE})
    /\ rang = 0 /\ entrees = <<>> /\ lien_sym = <<>> /\ color = "indefini"
    /\ liste = <<>> /\ retour = "enCours"

ReposListe ==
    /\ arguments = <<>> /\ option = FALSE /\ rang = 0 /\ entrees = <<>>
    /\ lien_sym = <<>> /\ color = "indefini" /\ liste = <<>> /\ retour = "1"

-----------------------------------------------------------------------------
Tour(p)   == retour = "enCours" /\ programme = p /\ UNCHANGED <<arguments, option>>
Fini      == rang = Len(arguments)
Courant   == arguments[rang + 1]
Rendre(r) == retour' = r
Avancer   == rang' = rang + 1

\* After the last file the program has succeeded; at an absent file, or when
\* nothing is given, not even -n, it has failed.
Arreter ==
    /\ Rendre(IF Fini /\ (arguments # <<>> \/ option) THEN "0" ELSE "1")
    /\ UNCHANGED <<liste, VarsBoucle>>

\* A line; the owner of a file may have no name, which the program dereferences.
AfficherLigne(f, droits, couleur, cible) ==
    liste' = Append(liste, [nom |-> f, droits |-> droits, couleur |-> couleur, cible |-> cible])
Plante(f) == f = "anonyme" /\ Rendre("SIGSEGV") /\ UNCHANGED <<liste, VarsBoucle>>

\* The digits of "%o", read up to the fourth: a mode below 0100 has fewer than
\* three, and what follows them is only 0 if the array was initialised.
DroitsOctaux(f, initialise) ==
    IF f # "masque" THEN {"exacts"}
    ELSE {"decales"} \cup (IF initialise THEN {} ELSE {"indefinis"})

\* readlink does not end the target, the buffer keeps what was longer.
readlink(f) == [k \in 1 .. Max({Len(lien_sym), Longueur(f)}) |->
                   IF k <= Longueur(f) THEN f ELSE lien_sym[k]]

\* lstat of a single file.
mini_ls_name ==
    /\ Tour("mini_ls_name")
    /\ IF Fini \/ Courant = "absent" THEN Rendre("1") /\ UNCHANGED <<liste, VarsBoucle>>
       ELSE \/ option /\ Plante(Courant)
            \/ /\ ~(option /\ Courant = "anonyme")
               /\ \E d \in DroitsOctaux(Courant, FALSE) : AfficherLigne(Courant, d, "sans", <<>>)
               /\ Rendre("0") /\ Avancer /\ UNCHANGED <<entrees, lien_sym, color>>

\* stat: what a link points to, here "texte".
mini_ls_uid_gid ==
    /\ Tour("mini_ls_uid_gid")
    /\ IF Fini \/ Courant \in {"absent", "lienCasse"}
       THEN Rendre("1") /\ UNCHANGED <<liste, VarsBoucle>>
       ELSE /\ LET vu == IF Courant \in Liens THEN "texte" ELSE Courant
               IN  \E d \in DroitsOctaux(vu, FALSE) : AfficherLigne(vu, d, "sans", <<>>)
            /\ Rendre("0") /\ Avancer /\ UNCHANGED <<entrees, lien_sym, color>>

mini_ls_plusieurs ==
    /\ Tour("mini_ls_plusieurs")
    /\ IF Fini \/ Courant = "absent" THEN Arreter
       ELSE \/ Plante(Courant)
            \/ /\ Courant # "anonyme" /\ Avancer
               /\ \E d \in DroitsOctaux(Courant, TRUE) : AfficherLigne(Courant, d, "sans", <<>>)
               /\ UNCHANGED <<retour, entrees, lien_sym, color>>

\* strcpy into nom_fichier, and a target that leaves no room for the end of the
\* string in lien_sym: undefined behaviour, the model stops there.
Deborde(f) == f = "nomLong" \/ (f \in Liens /\ Longueur(f) >= TAILLE_LIEN)

mini_ls_fichierspointes ==
    /\ Tour("mini_ls_fichierspointes")
    /\ IF Fini \/ Courant = "absent" THEN Arreter
       ELSE \/ Plante(Courant)
            \/ Deborde(Courant) /\ Rendre("indefini") /\ UNCHANGED <<liste, VarsBoucle>>
            \/ /\ Courant # "anonyme" /\ ~Deborde(Courant) /\ Avancer
               /\ lien_sym' = IF Courant \in Liens THEN readlink(Courant) ELSE lien_sym
               /\ \E d \in DroitsOctaux(Courant, TRUE) :
                      AfficherLigne(Courant, d, "sans", IF Courant \in Liens THEN lien_sym' ELSE <<>>)
               /\ UNCHANGED <<retour, entrees, color>>

couleurFichier(f) ==
    CASE f \in Repertoires -> "bleu" [] f = "programme" -> "vert" [] f = "lienCasse" -> "rouge"
      [] f \in Liens \ {"lienCasse"} -> "cyan" [] OTHER -> "normal"

mini_ls_couleurs ==
    /\ Tour("mini_ls_couleurs")
    /\ IF Fini \/ Courant = "absent" THEN Arreter
       ELSE \/ Plante(Courant)
            \/ /\ Courant # "anonyme" /\ Avancer
               /\ lien_sym' = IF Courant \in Liens THEN readlink(Courant) ELSE lien_sym
               /\ \E d \in DroitsOctaux(Courant, TRUE) :
                      AfficherLigne(Courant, d, couleurFichier(Courant),
                                    IF Courant \in Liens THEN lien_sym' ELSE <<>>)
               /\ UNCHANGED <<retour, entrees, color>>

\* The colour of mini_ls_acl.c and list_file: a plain file leaves it as it was.
couleurAcl(f, avant) == IF couleurFichier(f) = "normal" THEN avant ELSE couleurFichier(f)

\* A file that is absent is told, and the next one comes.
mini_ls_acl ==
    /\ Tour("mini_ls_acl")
    /\ IF Fini THEN Arreter
       ELSE /\ Avancer /\ UNCHANGED <<retour, entrees, lien_sym>>
            /\ IF Courant = "absent" THEN UNCHANGED <<liste, color>>
               ELSE /\ color' = couleurAcl(Courant, color)
                    /\ AfficherLigne(Courant, "exacts", color', Cible(Courant))

list_file(f) == AfficherLigne(f, "exacts", couleurAcl(f, "indefini"), Cible(f))

\* Mutant: the loop goes on as long as nothing has failed.
SuiteSiReussite(f) == IF f = "partage" THEN BOOLEAN ELSE {FALSE}

\* do ... while (entry != NULL && errno != 0): errno is what list_file leaves.
\* lgetxattr sets it when the file has no access control list; when it has one
\* the other calls may still set it, or not.
errnoNonNul(f) == IF f = "partage" THEN BOOLEAN ELSE {TRUE}

\* A turn of readdir in a directory that is open, else the next argument; -n is
\* only skipped.
main_dir(p) ==
    /\ Tour(p) /\ UNCHANGED <<lien_sym, color>>
    /\ IF entrees # <<>>
       THEN /\ list_file(Head(entrees))
            /\ \E encore \in errnoNonNul(Head(entrees)) :
                   entrees' = IF encore THEN Tail(entrees) ELSE <<>>
            /\ UNCHANGED <<retour, rang>>
       ELSE IF Fini THEN Arreter
       ELSE /\ Avancer /\ UNCHANGED retour
            /\ entrees' = IF Courant \in Repertoires THEN Contenu(Courant) ELSE <<>>
            /\ IF Courant \in {"absent"} \cup Repertoires THEN UNCHANGED liste
               ELSE list_file(Courant)

mini_ls_dir  == main_dir("mini_ls_dir")
mini_ls_dir2 == main_dir("mini_ls_dir2")

NextListe ==
    \/ mini_ls_name \/ mini_ls_uid_gid \/ mini_ls_plusieurs \/ mini_ls_fichierspointes
    \/ mini_ls_couleurs \/ mini_ls_acl \/ mini_ls_dir \/ mini_ls_dir2

-----------------------------------------------------------------------------
TypeOKListe ==
    /\ rang \in 0 .. Len(arguments)
    /\ retour \in {"enCours", "0", "1", "SIGSEGV", "indefini"}
    /\ ToSet(entrees) \cup ToSet(lien_sym) \subseteq Sortes

\* What must be listed for an argument; "coupe": only up to the first entry with
\* an access control list.
Attendus(f, coupe) ==
    CASE f = "absent" -> <<>>
      [] programme \in Recursifs /\ f \in Repertoires ->
             IF f = "dossierPartage" /\ coupe THEN <<"texte", "partage">> ELSE Contenu(f)
      [] programme = "mini_ls_uid_gid" /\ f \in Liens -> <<"texte">>
      [] OTHER -> <<f>>

\* The names to be listed for the first n arguments: each has been listed after
\* those of the arguments before it.
Places(n, coupe) == UNION {{i} \X DOMAIN Attendus(arguments[i], coupe[i]) : i \in 1 .. n}
Listes(n, coupe) ==
    \A i \in 1 .. n : LET noms == Attendus(arguments[i], coupe[i]) IN
        \A k \in DOMAIN noms : liste[Cardinality(Places(i - 1, coupe)) + k].nom = noms[k]

\* The target of a link is exact unless a longer one was in the buffer before;
\* the rights unless the mode is below 0100; the colour unless a plain file
\* takes it from the file before, or from nowhere.
LigneExacte(k) ==
    LET l == liste[k] IN
    /\ l.droits = "exacts" \/ (l.nom = "masque" /\ programme \notin Patients)
    /\ programme \in AvecTampon \cup Patients =>
           \/ l.cible = Cible(l.nom)
           \/ /\ programme \in AvecTampon /\ l.nom \in Liens
              /\ \E j \in 1 .. k - 1 : Longueur(liste[j].nom) > Longueur(l.nom)
    /\ programme \in Patients \cup {"mini_ls_couleurs"} =>
           \/ l.couleur = CASE l.nom \in Repertoires -> "bleu" [] l.nom = "programme" -> "vert"
                            [] l.nom = "lienCasse" -> "rouge"
                            [] l.nom \in Liens \ {"lienCasse"} -> "cyan"
                            [] OTHER -> "normal"
           \/ programme \in Patients /\ l.nom \in {"texte", "masque", "partage", "anonyme", "nomLong"}

\* Every file that is there is listed once, in order: mini_ls_acl.c, mini_ls_dir.c
\* and mini_ls_dir2.c go on after an absent file, and a directory is cut short
\* only after an access control list; the others end with status 1 at the first
\* absent file, or are killed by an owner without a name.  What
\* mini_ls_fichierspointes.c does is undefined from the first name or target on
\* that does not fit in its buffers, and only from there.
ListeExacte ==
    /\ TypeOKListe
    /\ \A k \in DOMAIN liste : LigneExacte(k)
    /\ retour = "0" =>
           /\ arguments # <<>> \/ option
           /\ \E coupe \in [DOMAIN arguments -> BOOLEAN] :
                  /\ Len(liste) = Cardinality(Places(Len(arguments), coupe))
                  /\ Listes(Len(arguments), coupe)
           /\ programme \notin Patients => "absent" \notin ToSet(arguments)
    /\ retour \in {"1", "SIGSEGV"} => programme \notin Patients \/ arguments = <<>>
    /\ retour = "1" /\ arguments # <<>> =>
           arguments[Len(liste) + 1] \in {"absent", "lienCasse"}
    /\ programme = "mini_ls_fichierspointes" =>
           \A k \in DOMAIN liste : liste[k].nom = arguments[k] /\ ~Deborde(arguments[k])
    /\ retour = "indefini" =>
           programme = "mini_ls_fichierspointes" /\ Deborde(arguments[Len(liste) + 1])

\* What must come: the end of the list.
CalmeListe == retour # "enCours"
=============================================================================
