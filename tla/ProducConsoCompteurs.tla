------------------------- MODULE ProducConsoCompteurs -------------------------
(***************************************************************************)
(* The two programs whose threads share unprotected counters, one of which  *)
(* is executed: produc_conso_mutex.c, with a mutex around each index, and   *)
(* produc_conso_int.c, without any.                                         *)
(***************************************************************************)
EXTENDS ProducConsoMutex, ProducConsoInt

VARIABLE programme

varsProgrammes == <<programme, vars0, varsMutex, chevauche>>

AvecMutex == "produc_conso_mutex"
SansMutex == "produc_conso_int"

\* What is not part of the program that is executed rests.
InitProgrammes ==
    \/ programme = AvecMutex /\ Init /\ chevauche = {}
    \/ programme = SansMutex /\ InitInt /\ mutex_prod = Libre /\ mutex_cons = Libre

NextProgrammes ==
    /\ UNCHANGED programme
    /\ \/ programme = AvecMutex /\ Next /\ UNCHANGED chevauche
       \/ programme = SansMutex /\ NextInt /\ UNCHANGED varsMutex

SpecProgrammes == InitProgrammes /\ [][NextProgrammes]_varsProgrammes

-----------------------------------------------------------------------------
\* In produc_conso_mutex.c the mutexes prevent concurrent accesses to the
\* indices, as their comment says: no slot is skipped or taken twice in a turn
\* of the array although the counters race.
IndexAvecMutex == programme = AvecMutex => IndexCoherents

\* In produc_conso_int.c an index goes wrong, and leads a thread out of the
\* array, only after two threads of its kind have updated it at the same time.
IndexSansMutex == programme = SansMutex => IndexJusteSansChevauchement
=============================================================================
