# Formal models of the IFT2245 laboratory programs

The repository holds the small C programs that accompany the laboratories of an
operating-systems course: processes, signals and pipes, threads, sockets,
synchronisation, files and directories. Most of them are short; what makes them
hard is what the course is about: threads that share memory, processes that
share descriptors, calls that block. This directory keeps TLA+ models of the
programs that carry such behaviour, the TLC runs that check them, and TLAPS
proofs of what they promise for any number of threads, clients, data or bytes.

Names follow the sources (French identifiers, `mutex_fouchette` spelled as in
the code); comments are in English.

## 1. Inventory

All paths are below `src/optional_labs/`.

| Part | State it keeps | Operations | What is hard |
|---|---|---|---|
| `3synchronisation/1_.../diner_phi.c` | one mutex per fork, meals eaten, identity array on main's stack | initialise, create, lock low fork, lock high fork, eat, unlock both, join, destroy | circular wait, ownership of mutexes, destruction before the last use, pointer to a loop variable |
| `.../diner_phi_one.c` | one mutex, meals eaten | the same with one lock | ordering of destruction |
| `.../diner_phi_sleep.c` | the plain int `actif` | poll, mark, eat, clear | test and assignment are three unprotected accesses |
| `3synchronisation/2_.../produc_conso.c` | two semaphores, two mutexes, ring `liste`, two indices | wait, lock, take a slot, write or read it, unlock, post | slots shared between two mutexes, order of posts and accesses, full and empty ring, uneven quotas |
| `.../produc_conso_mutex.c` | the same with ints in place of semaphores | poll, decrement, increment | lost updates, test separated from decrement |
| `.../produc_conso_int.c` | no mutex | the same, every access unprotected | index leaves the array |
| `2threads/sockets-multiplexage/srv_echo.c`, `cli.c` | a connected socket pair | accept, read, write back | blocking reads, end of connection |
| `.../srv_poll.c`, `srv_chat.c` | the `pollfd` array, number of clients and of descriptors | accept, read, reply or broadcast, close | the array grows while it is traversed, slots are never reused, writes to closed peers, data dropped at hang-up |
| `1processus/signaux-tubes/shellPipe.c`, `shellFifo.c`, `shellFifo-2.c` | a pipe and two children | fork, dup2, close, exec, wait | end of file needs every writer closed, open of a FIFO blocks, inherited descriptors |
| `1processus/signaux-tubes/*.c` (six programs that handle a signal) | dispositions, masks, pending signals | `sigaction`, `sigaddset`, `pause`, handler, `exit` | a signal before, between or during two calls; the kernel keeps one of a kind |
| `1processus/fork-exec/src/mystere*.c`, `multipleFils.c`, `getChar.c`, `miseEnBouche.c` | a tree of processes, a buffer of stdio in each | fork, print, flush, wait, exit | who is whose child, lines copied by fork, orphans and zombies |
| `1processus/fork-exec/src/exec*.c` | `PATH`, arguments, exit status | search, fork, exec, wait | which directory is taken, a command that is missing or killed |
| `1processus/traitementDesFichiersOuverts/descripteursFichiers.c` | the table of descriptors | open, dup2, close, exec | an opening that fails, a standard descriptor that is closed at the start |
| `1processus/traitementDesFichiersOuverts/mini-tail*.c` | file offset, watched descriptors | read, sleep or inotify | data appended between two calls |
| `2threads/memoire-parralelisme/p_prime.c`, `4ordonnancement/.../primes_th.c` | a work list that the threads share, without a lock | build the list in strides, join, count | two threads on one element, elements that nobody writes, uninitialised slots |
| `2threads/bibliotheques-C/prime.c` | a growing array | append, realloc | write past the end before growing |
| `mmap/*.c` | a projected file, pointers into it | copy, reverse, count, search | empty file, one byte, last line without a newline, empty pattern |
| `droits-repertoires/mini_ls*.c`, `5interblocage/.../mini_ls*.c` | the list of arguments, buffers and `errno` that outlive a file | stat, readlink, opendir, readdir, print | what one file leaves for the next one, names and targets that do not fit |
| `droits-repertoires/absolute.c` | two descriptors of directories, the path put together | openat, readdir, fstat | directories that are renamed meanwhile, mount points, the root |

How the parts interact: the threads of a program share its globals and nothing
else; the three servers each serve several processes of `cli.c` over an
`AF_UNIX` stream socket named `sock`; the shell programs connect two commands,
which are not in the repository, by a pipe. No program of one laboratory uses
one of another.

For each part, the properties that make it correct:

* philosophers: neighbours never eat together, no circular wait, everybody eats
  all his meals, no mutex is unlocked by a thread that does not own it or
  destroyed before its last use;
* producer/consumer: the consumers receive the data in the order of production,
  each once and unmixed; no slot is used by two threads; the program ends with
  the announced counters. For the variants that the course shows as wrong, what
  the missing synchronisation can and cannot break;
* sockets: a client gets its own lines back (or those of the others, once, in
  order); slots, descriptors, connections and the counter of clients agree; one
  client cannot block or kill the server unless it is interrupted;
* pipes: nobody waits for an end of file, or for a reader, that does not come;
  no data are lost; SIGPIPE only hits a writer whose reader has ended;
* `mini-tail`: what is appended to a file is printed once, in order, and in the end;
* primes: both programs count right, and threads without a lock never meet;
* signals: no program returns from its last `pause`; once a handler is installed,
  its signal kills only after it has been handled as often as the program says;
  SIGINT does not cut the handler that asks for it to be blocked;
* trees of processes: eleven processes, each of which names its true father, a
  single header, and nothing left in the end;
* programs that cover themselves: the command comes from the first directory of
  `PATH` that has it, with the right descriptors, and its status is returned unless a
  signal has killed it;
* `mmap`: what is written of a file with unusual ends;
* listings: every file once, in order, with its own rights, colour and target;
* `absolute.c`: the path that is printed has existed.

## 2. Modules

| Module | Models | Uses |
|---|---|---|
| `Repas` | abstract: guests who eat a number of meals, those in conflict never together | |
| `Philosophes` | the skeleton that the three programs share: `main`'s loops, the thread's loop, `mange` | |
| `DinerPhi` | `diner_phi.c` | `Philosophes`, implements `Repas` |
| `DinerPhiOne` | `diner_phi_one.c` | `Philosophes`, implements `Repas` |
| `DinerPhiSleep` | `diner_phi_sleep.c` | `Philosophes` |
| `DinerPhi_proofs` | proofs about `DinerPhi` | |
| `DinerPhiOne_proofs`, `DinerPhiSleep_proofs` | proofs about `DinerPhiOne` and `DinerPhiSleep` | |
| `FileBornee` | abstract: a bounded FIFO queue | |
| `TamponCirculaire` | what the three producer/consumer programs share: quotas, loops of `main`, the slots and the printed lines | |
| `CompteursPartages` | the counters `empty` and `full` as plain ints (`_mutex`, `_int`) | `TamponCirculaire` |
| `ProducConso` | `produc_conso.c` | `TamponCirculaire`, implements `FileBornee` |
| `ProducConsoMutex` | `produc_conso_mutex.c` | `CompteursPartages` |
| `ProducConsoInt` | `produc_conso_int.c` | `CompteursPartages` |
| `ProducConsoCompteurs` | one of these two, chosen at the start | `ProducConsoMutex`, `ProducConsoInt` |
| `ProducConso_proofs` | proofs about `ProducConso` | |
| `CompteursPartages_proofs` | proofs about `ProducConsoMutex`, `ProducConsoInt` and `ProducConsoCompteurs` | |
| `Echo` | abstract: every client gets its lines back in order | |
| `SocketsUnix` | `cli.c`, and the sockets between the clients and a server | |
| `SrvEcho` | `srv_echo.c` | `SocketsUnix`, implements `Echo` |
| `SrvMultiplexe` | what `srv_poll.c` and `srv_chat.c` share: `poll` and the loop over the slots | `SocketsUnix` |
| `SrvPoll` | `srv_poll.c` | `SrvMultiplexe`, implements `Echo` |
| `SrvEcho_proofs` | proofs about `SrvEcho` | |
| `SrvChat`, `MCSrvChat` | `srv_chat.c`; the symmetry of the clients for TLC | `SrvMultiplexe` |
| `SrvMultiplexe_proofs` | proofs about `SrvPoll` and `SrvChat`, with what they share | |
| `Tubes` | `shellPipe.c`, `shellFifo.c`, `shellFifo-2.c` | `Execution` |
| `MiniTail` | `mini-tail.c`, `mini-tail-PlusieursFichiers.c`, `mini-tail-INOTIFY.c` | `Execution` |
| `Premiers` | `prime.c`, `p_prime.c`, `primes_th.c` | `Execution` |
| `Signaux` | `gestionDirecte.c`, `ignoreSignal.c`, `eviterSigInt-DurantTraitement.c`, `verifierReception-RetarderCrtl-C.c`, `traiterUneFois-...c` and `traiterDeuxFois...c` | `Execution` |
| `Forks` | `mystere.c`, `mystereGraphviz.c`, `multipleFils.c`, `getChar.c`, `miseEnBouche.c` | `Execution` |
| `Recouvrement` | `exec0.c`, `execvp0.c`, `exec0fin.c`, `execAvecChemin.c`, `exec5.c`, `descripteursFichiers.c` | `Execution` |
| `Projection`, `MCProjection` | `memcat.c`, `memtac.c`, `memcount.c`, `memgrep.c`; these alone, for TLC | `Execution` |
| `ListeFichiers` | the eight `mini_ls` | `Execution` |
| `Absolu` | `absolute.c` | `Execution` |
| `Execution`, `Laboratoires` | which of these programs is executed; their union, one at a time | the nine |
| `Laboratoires_proofs` | proofs about `Tubes`, `MiniTail`, `Premiers`, `Signaux`, `Forks`, `Recouvrement`, `Projection`, `ListeFichiers` and `Absolu` | |

Definitions that begin with a comment `Mutant:` are deliberately wrong versions
of the definition that follows them. No specification uses them; each of them
shows that a property would notice the mistake.

### State and steps

**Philosophers.** `pc[p]` is the point of the thread of `p`; `phase` and `i` are
the loop of `main` and its counter; `id_philosophe[p]` is what the thread has
read through its argument, a pointer into `tab`. A call of `pthread_mutex_lock`,
`pthread_mutex_unlock`, `pthread_create` or `pthread_join` is one step, and so is
every iteration of a loop of `main`. The
unlocks of `DinerPhi` do not look at the owner, as those of the program: that
only the owner unlocks is what `VerrousCoherents` says, and that no mutex is
used before its initialisation or after its destruction, `DestructionSure`;
`VerrousSurs`, which the run checks, is both.
In `DinerPhiSleep` every load and store of `actif` is a step; the two
loads of the test are `LireActif` and `RelireActif`. `pense` and `attendre` only
delay.

**Producer/consumer.** A datum `<<t, n>>` stands for the text `Le producteur t a
créé la donnée n`. `produits` and `consommes` are the lines that are printed.
`sprintf` into a slot takes time: the producer is writing as long as it is at
`"acces"`, and who reads the slot meanwhile sees `Melange`. In `ProducConso` and
`ProducConsoMutex` the update of a ring index is one step, because the mutex is
held and nobody else looks at the index; in `ProducConsoInt` each of its loads
and stores is a step. In both wrong variants `empty--`, `full++` and their
opposites are a load and a store (`Charger`, `Decrementer`, `Incrementer`), with
the loaded value in `reg`. `ProducConsoInt` stops in the phase `"indefini"` when
a thread leaves the array: what a C program does then is anything.
`chevauche` is an auxiliary variable that remembers which indices two threads
have updated at the same time.

**Sockets.** A connection is named by its client. `vers_srv[c]` and
`vers_cli[c]` hold what was written and has not been read; a read returns any
non-empty beginning of it, in whole lines: that a line longer than the buffer of
100 characters is read in two pieces is not modelled. `attente` is the queue of
`listen(sock, 0)`, which lets one connection wait while the others block in
`connect`. A client is at `"fgets"`, `"write"` or `"read"`; it ends
(`"fini"`) when `fgets` returns `NULL` or by SIGPIPE, and can be interrupted
anywhere (`"tue"`). The kernel closes its descriptors then. A write of a server to
a connection whose other end is closed raises SIGPIPE before it can return an
error, and no server handles it: `Mourir`.

`SrvMultiplexe` keeps the array `fds` as two functions, its members `fd` and
`revents`; `descr` maps descriptors to connections and gives the smallest free
number to the next one, as the kernel does. One step is one iteration of the
loop over the slots, with `read` and `write` as separate steps. The slot that
`realloc` has just added is reached by the same loop before `poll` has
written its `revents`: `Indefini` is the set of what it may hold. `srv_chat` is
checked with all the values. In practice the memory that glibc adds is zero
unless it was used before, and the liveness of `srv_poll` is checked under that
assumption, since with arbitrary contents the server may block in `read`.

**Pipes.** `desc[p]` is the set of the ends of the pipe that the process `p`
has open; SIGPIPE and the end of file follow from it, as in the kernel. The two
commands are external: the first writes any number of times up to
`MAXECRIT`, or for ever; the second reads to the end (`"tout"`), stops early
(`"debut"`), or reads nothing (`"rien"`). An `execvp` may fail.

**mini-tail.** A byte is a number, `0` in the initial content, `n` for the n-th that
the external writer appends; a file may also be truncated once. `fstat` and
`read` are separate steps, and the writer acts in between. Where a read returns
less than the size that `fstat` announced, the rest of the buffer, which comes
from `malloc`, is printed as `"indetermine"`. `notif` is the queue of the inotify
descriptor, in which the kernel merges an event with an equal last one.

**Primes.** One step is one iteration of the loop of `do_work`, or of `main`.
`work_list` is not cleared after `malloc`; it is the first memory the process
takes, and the kernel gives zeros, so the model starts from `FALSE`. `prime.c`
enlarges its array after it has written one element too many: from the maximum 23
on, the model goes to the phase `"indefini"`, where no result is promised.

**Signals.** A program is a record: the signal it handles, what the handler
blocks, how many iterations it makes, whether it exits, and the calls of `main`.
`pendants` is a set, because the kernel keeps one signal of a kind; it delivers
a signal that is not in `masque`, as a handler, as the death of the process or
as nothing, following `dispo`. A signal that arrives before `pause` is handled
and does not wake it.

**Trees of processes.** A process is the sequence of forks that leads to it, so
that its name says its father; `getppid` gives init once the father has ended.
`tampons[p]` is the buffer of stdio: a fork copies it, an end flushes it, and a
terminal does without. `etats` follows each process to `"zombie"` and, once
somebody has waited for it, `"parti"`.

**Covering.** A directory of `PATH` is `TRUE` when it has the command;
`restants` is what `strtok` has not returned yet, `lancee` the directory whose
command runs. `fds` is the table of descriptors, where `open` takes the smallest
free one; the three standard ones may be closed at the start. The command is
external: it ends with 0 or 1, or is killed by a signal.

**Projection.** One action is one turn of a loop; addresses count from the start
of the projection. A byte is a newline, one of two letters, or `Nul`, which fills the
page after the end of the file; where a program leaves the page or does not end, the
model goes to `"indefini"` or stops at `MAXTOURS`. The results are
compared with definitions over the whole sequence: `Retourne`, `Disjointes`,
`LignesDuMotif`.

**Listings.** A file is a sort: what the programs tell apart. One step lists a
file or an entry of a directory, and leaves `lien_sym` (the buffer of `readlink`),
`color` and what `errno` decides to the next one, as the code does. `lien_sym` of
`mini_ls_fichierspointes.c` has `TAILLE_LIEN` bytes (30 in the code), and its `nom_fichier`
100: when a target does not fit, end of string included, or a name does not (`"nomLong"`),
`retour` becomes `"indefini"` and the model stops there. The other programs that read a target
allocate what `st_size` says, or twice `PATH_MAX`.

**absolute.c.** `parents` is the tree of directories, `courant` and `parent` the
two descriptors, `chemin` the path so far. Between any two calls another process
may move a directory, not into itself. An inode is a value that the root of
a mounted file system may share with `/`.

**Laboratoires.** `programme` is chosen at the start and never changes; the
variables of the programs that are not executed rest. It is the union of
independent models, not a system. `VersLaFin` are the steps of the program and of the
kernel on its behalf, `Exterieur` those of the user and of other processes.

## 3. Runs

All run in less than three minutes with two workers.

| Run | Instance | What it shows |
|---|---|---|
| `diner_phi` | 5 philosophers, 2 meals: the program's macros | exclusion, no deadlock, sound use and destruction of the mutexes, refinement of `Repas`, termination |
| `diner_phi_one` | 5, 2 | the same with a single mutex, which refines the strictest table |
| `diner_phi_sleep` | 3, 2 | `actif` never names a philosopher who does not eat, and everybody ends, although two can eat together |
| `produc_conso` | 2 producers of 2 data, 3 consumers (quotas 1, 1, 2), 2 slots | FIFO refinement, exclusive slots, exact semaphores, final values, termination |
| `produc_conso_compteurs` | 3 × 1 data, 1 consumer, 2 slots, either program | with the mutexes the indices stay exact while the counters race; without them a producer leaves the array, only after two overlapping updates |
| `produc_conso_mutex_compteurs` | 1 × 2 data, 2 consumers | **violation**: a consumer reads a slot that holds no datum |
| `srv_echo` | 3 clients, 2 lines in all | every client gets its lines back and is served; only an interrupted client kills the server |
| `srv_poll` | 3 clients for 2 places, 2 lines in all | the same, with slots, descriptors and counter in agreement, and no blocking read |
| `srv_chat` | the same, any content of fresh slots, two digits from number 3 on | messages in order, once, never to their author; a number always means the same client, whose lines are cut or never are |
| `srv_chat_perte` | 2 clients, 2 lines in all | **violation**: the last line of a client that leaves is dropped |
| `laboratoires` | 39 programs, with the bounds below | pipes: end of both children, justified SIGPIPE, complete reading; mini-tail: exact display, no change missed; primes: right count, no race on `work_list`; signals, trees, covering, projection, listings and path: the properties of section 1; the programs that promise to end do |
| `ordre_inverse` | all the files of at most 5 bytes, all the patterns of at most 2 | **violation**: `memtac.c` and `memgrep.c` do not write in the inverse order what their headers announce |

The properties of each run, by name (each is preceded by its statement in its module;
the type invariant is named, or a conjunct of one of them; that of `DinerPhi` is proved in `TypageDinerPhi`):

* `diner_phi`: `ExclusionVoisins`, `SansInterblocage`, `VerrousSurs`, `RaffineRepas`, `Terminaison`
* `diner_phi_one`: `VerrouCoherent`, `RaffineRepas`, `Terminaison`
* `diner_phi_sleep`: `ActifCoherent`, `Terminaison`
* `produc_conso`: `EtatCoherent`, `AccesExclusif`, `BilanSemaphores`, `ValeursFinales`, `RaffineFile`, `Terminaison`
* `produc_conso_compteurs`: `IndexAvecMutex`, `IndexSansMutex` (that is `IndexCoherents` of `ProducConsoMutex`
  and `IndexJusteSansChevauchement` of `ProducConsoInt`, each for its program)
* `produc_conso_mutex_compteurs`: `DonneeDisponible`
* `srv_echo`: `ConnexionsSures`, `RaffineEcho`, `ClientsServis`
* `srv_poll`: `CasesCoherentes`, `LectureSansBlocage`, `MortParInterruption`, `RaffineEcho`, `ClientsServis`
* `srv_chat`: `CasesCoherentes`, `DiffusionOrdonnee`
* `srv_chat_perte`: `PasDePerte`
* `laboratoires`: `ToutLu`, `AffichageExact`, `Rattrapage`, `CompteJuste`, `SansCourse`,
  `SignauxTraites`, `ArbreExact`, `CommandeLancee`, `ProjectionExacte`, `ListeExacte`,
  `CheminExact`, `Terminaison`
* `ordre_inverse`: `OrdreInverse`

`ConnexionsSures` and `CasesCoherentes` say, among the rest, that a server keeps no
connection that has ended; `DiffusionOrdonnee` that the number in front of a
line is that of its author; `ToutLu` that SIGPIPE hits a writer only when no
reader is left; `EtatCoherent` that the types hold and each mutex is held by the
thread between its lock and its unlock.

### Why these bounds

* Philosophers: 5 and 2 are the macros of the program. A circular wait needs all
  the philosophers of the ring, whatever their number, and the proofs cover the
  others; in `diner_phi_sleep` three philosophers suffice, one who eats and two
  who pass the test together.
* Producer/consumer: `TAILLE_MAX` is 10 in `produc_conso.c` and 2 in the two
  variants; with 2 in all of them four data go twice around the ring. Three
  consumers give a quota with a remainder; with two threads of a kind both mutexes
  are disputed. In the variants every access is a step, which is why they have
  fewer data: a lost update needs two threads of a kind, and an index that
  leaves the array a third reservation after two that overlapped. Hence three
  producers of one datum; the counters race between them and the consumer too.
* Sockets: `MAXLIGNES` bounds the lines that all clients send together, so that
  they can all come from one client or from two; three clients for two places
  make refusals, and the reuse of a descriptor after a departure, happen.
  `TAMPON = 2` lets a buffer be full. The limit of 10 clients of the code is a
  constant of the model, and so is `DIX`, the first number of a client that has two
  digits: 10 in the code, 3 in the runs, so that the length of a prefix changes
  with one client in three.
* Pipes: with `MAXECRIT` = 4 and `CAPACITE` = 2 the writer blocks on a full pipe.
* mini-tail: with three bytes one can fall before, between and after `fstat` and
  `read`; two files give the round robin and two watches.
* Primes: 23 is the first maximum at which `prime.c` leaves its array, and contains
  squares of 2 and 3; three threads give a stride that does not divide everything.
* Signals: `MAXSIGNAUX` = 4, one more than the three the longest program handles or
  dies of, so that two can come together and one too late.
* Trees: `NFILS` = 3 children instead of 10, enough for a child that ends before, and
  one that ends after, its father; the mystery has its own size.
* Covering: three directories of `PATH` put the command first, between, last or
  nowhere; the table has the standard descriptors and two more, which are what the
  program opens.
* Projection: all the files of at most 5 bytes over a newline and two letters, all
  patterns of at most 2: matches that overlap, touch the end of a line or of the
  file, and, in five bytes, two different lines that both end and contain the pattern. A
  loop that does not end is cut after `MAXTOURS` = 6 turns, more than a search in five
  bytes needs.
* Listings: two files, because what is stale comes from the file before, with every
  pair of sorts (one file for the two programs that take one); the directories have three entries for the same reason.
  With `TAILLE_LIEN` = 3 the targets of one and two characters fit, and that of three leaves no room
  for the end of the string.
* `absolute.c`: three directories give a path of three names and a place to move
  one; with `MAXDEPLACEMENTS` = 2 the path can be wrong, with one it cannot.

### Fairness

* The threads of a program are scheduled by the system: weak fairness of every
  thread and of `main`. A thread takes a bounded number of steps, except for
  those that poll, so a mutex or a semaphore cannot be stolen for ever and weak
  fairness is enough.
* The servers and the clients are processes: weak fairness of each. The input of
  a client is a file that ends, so `fgets` returns. Nobody has to interrupt a
  client: no fairness there.
* `srv_chat` and the wrong variants of producer/consumer have no
  fairness: a chat client waits as long as the others are silent, and lost updates
  leave threads polling for ever. Deadlock checking is off for those, and for
  `laboratoires`, whose programs stop, block (next paragraph) or wait for events.
* In `Laboratoires` the program that is executed is scheduled, with what the kernel
  does for it (delivery of a signal, the wait of the shell and of init):
  weak fairness of `VersLaFin`. Nobody has to send a signal, press a key, end a
  command, write to a file or move a directory.
* A second command that does not read to the end stops one day (`Arret2`).
  `Terminaison` of `Tubes` has a premise, `Cooperatif`, that says what each
  program needs: `shellPipe` nothing; `shellFifo` that its second command opens
  the named pipe; `shellFifo2` that it reads to the end, because `commande1`
  keeps `p[0]` and therefore never gets SIGPIPE.

### What the runs found

* `produc_conso_mutex.c`: the comment of line 15 says that the counters tell
  whether a datum is available. They do not: two consumers pass the test of line
  70 for a single datum. The program with mutexes still keeps its indices exact.
* `srv_chat.c`: the head of the file says that lines are sent on to the other
  clients. The loop tests `POLLHUP` before `POLLIN` (line 81), so what a client
  wrote just before it ended is dropped.
* `memtac.c` and `memgrep.c`: line 3 of the first and line 2 of the second announce the
  inverse order. `memtac.c` loses the newline a file begins with (the loop of line 40 ends without
  the branch of line 45) and a file of one byte (line 38); this is where TLC stops. `memgrep.c`
  searches forward and writes the lines in the order of the file: restricted to it, `OrdreInverse` is violated
  by `a`, newline, `a`, `a`, newline with the pattern `a`. `ProjectionExacte`, in the run
  `laboratoires`, says what the two programs do write.
* Seen on the way, without a run of their own: `produc_conso_mutex.c:171` and
  `produc_conso_int.c:167` announce 0 and 10 as final values; lost updates give
  others or leave threads polling for ever (and 10 is not the `TAILLE_MAX` of
  these two, which is 2; for `produc_conso.c`, where it is 10, the run checks 0 and `TAILLE_MAX`). After a short read caused by a
  truncation `mini-tail-INOTIFY.c` reads at the wrong offset until the next one.
  `prime.c:56` enlarges the array too late. The mark of philosopher 0 in
  `diner_phi_sleep.c` is 0, which also means that nobody eats. A client
  of `srv_chat` that ends by itself can kill the server, if the message of another
  is being sent to it; in the echo servers only an interrupted client can. A client
  that does not read blocks the whole server in `write`.
  `srv_chat.c:97` cuts the end of a message off when the number has two digits.
* The same, in the programs of `Laboratoires`. The properties of the run describe what
  the code does; where it differs from what one expects, their comment says so:
  * `memcount.c:42` and `memgrep.c:45` do not end with an empty pattern. `memgrep.c:54-58`
    takes `taille`, which is what is left of the file, for its size: on a last line without a
    newline the search goes back or past the end.
  * `mini_ls_fichierspointes.c:37` reads `st_size + 1` bytes into the 30 of `lien_sym` (line 13), and lines
    35 to 39 copy the name and the target into the 100 of `nom_fichier` (line 28), both without a
    check: a target of 30 characters leaves no end of string, a longer one, or a name of 100, is
    written past the buffer.
  * `mini_ls_dir.c:124` stops in a directory after an entry with an access
    control list, because `errno` is what the last call has left. The buffer of
    `readlink` is not ended nor cleared, so that a short target shows the tail of the
    one before. A mode below 0100 shifts the digits in `mini_ls_name.c:43-73`, and
    `mini_ls_plusieurFichiers.c:80` prints the type and the rights in swapped columns. An
    owner without a name kills the programs that print names.
  * `absolute.c`: two moves at the same time can give a path that never existed; a
    mount point a relative path, `..` or an error; in the root it prints `/.` or `/..`.
  * `execAvecChemin.c` and `exec0fin.c` exit with 0 when a signal has killed the
    command. When the output is not a terminal, what `exec5.c` has printed is lost with its
    buffer. The children of `multipleFils.c` may name init as their father.

## 4. Proofs

The theorems hold for all values of the constants that satisfy the assumptions their
modules name: at least two philosophers and any number of meals; positive numbers of
threads and slots and any number of data; any finite set of clients, whatever they
write; pipes, files and `PATH` of any length. Each `*_proofs` module states
an inductive invariant (`IInv`; `InvChat` for `srv_chat.c`; one per program in `Laboratoires_proofs`),
proves it of the first states and of every step, one lemma per action, and derives the
properties of the runs from it. TLC has checked each of these invariants on the instances
of the runs before they were proved.

**`DinerPhi_proofs`.** `VerrousCoherents` alone is not inductive. `IInv` adds the
types; `ArgumentsCoherents`, that a thread's pointer still leads to
its own number although `main` goes on with its loop; `RepasCoherents`, that the
counter of meals follows the point of the thread; and `PhasesCoherentes`, that
`main` is past the creation of the threads that run and past the end of those it
has joined. Exclusion of neighbours follows from `VerrousCoherents`, because they
share a fork. Absence of deadlock is the argument of the comment at
`diner_phi.c:44-48`: if everybody were blocked, the philosophers who hold a fork
would hold their first one and wait for their second; the one whose first fork is
the highest would wait for a higher one, which another of them holds as his first.
The refinement of `Repas` is proved step by step from `IInv`.

**`DinerPhiOne_proofs`, `DinerPhiSleep_proofs`.** The same invariant with one mutex, and with
`actif`. In the second `Marque` is what survives the races: whoever `actif`
names is between its own store of `actif` and its own reset, because a thread only
stores its own number and every other store of 0 leaves nobody named. It needs
`ArgumentsCoherents`: a thread that stored the number of another would break it.

**`ProducConso_proofs`.** `IInv` consists of the types, the ownership of the
mutexes, the quotas (a thread inside its loop has not reached its quota), the
phases of `main`, the exact values of the semaphores (`BilanSemaphores`), the
slots in use (`CasesCoherentes`: they are at the head or the tail of the ring)
and `RingCoherent`: the data that wait are in the slots between the tail and the
head, in order. The semaphores are needed for the ring: a producer that has
waited for `empty` knows that the ring is not full. From it follow that the head
and the tail never meet while both are in use (`AccesExclusif`), and the
refinement of `FileBornee`. For `ValeursFinales` the quotas of the consumers must add up to
what is produced. The proof adds nothing up: the iterations of all threads
are a set of pairs, and the consumers' are mapped one to one onto the data, so that
their numbers agree by cardinality.

**`CompteursPartages_proofs`.** It covers both programs with racing counters. `Socle` does
not mention what the counters hold. `CompteursBornes` says how wrong lost updates can make them:
a counter, and what a thread has loaded from it, is at least minus the decrements that have been
stored and at most the increments, counted by `Iterations`; this is where `full` and `empty`
differ from semaphores, and all the types need. For `ProducConsoMutex`, `IndexExacts` then says
that the number of reservations of a side is the number of lines it has printed, and one more
while a thread is at its slot. The mutex makes that thread the only one.
For `ProducConsoInt` there are two invariants per kind of thread. `BornesIndex` holds whatever the
overlaps: the index, the copies `j` and the loads are at most the number of stores of `index++`;
without it nothing bounds how far a thread can leave the array. `ExactIndex` holds until
`chevauche` records an overlap: at most one thread updates the index, and the point of that thread
says how far the index is from the reservations modulo `TAILLE_MAX`.

**`SrvEcho_proofs`, `SrvMultiplexe_proofs`.** For the two echo servers `Echange` is the heart: between a client and the
server there is at most one line, in exactly one place (the socket, the buffer of the server,
the socket back), because the client waits for its answer; `pc`, `lignes` and `recus` say
which. With it a line that comes back is the one that was sent (the refinement of `Echo`), and the
server is never found writing to a client that has ended by itself.
For the two servers with `poll`, `Base` says what their common part keeps, whatever is answered:
`CasesDescr` and `Connexions`, slots, descriptors and connections one to one, although numbers of
descriptors are used again; and `Tour`: of the slots that the loop has still to see, those that
announce an event are in use. Only `LectureSansBlocage` and `MortParInterruption` need to know what
`realloc` leaves in a fresh slot: they are stated with the hypothesis `"POLLIN" \notin Indefini`
(memory that is fresh from the kernel is zero), and `Pret` says that a slot that announces data has
data. Without it
they are false: the server may block in a read.

For `srv_chat.c`, `InvChat` follows a line on its way from its author: the socket (`OrdreChat`), the
buffer of the server (`OrdreTampon`) and what each of the others has been sent, read or not. At each
place the lines of an author increase, and those further on are smaller. While the message is being
sent, that holds for the slots from `j` on: those before have it already. That nobody gets
his own lines, and that a number stays with its client, needs the client that each slot ever had
(`Auteurs`): no two slots have had the same one, because a client connects once and the array only
grows. That injection also bounds the numbers.

**`Laboratoires_proofs`.** A step is a step of one program or leaves its variables alone; each
invariant says that they rest when another program is executed.

* `InvPremiers`: in `prime.c` the array holds the prime numbers below the candidate, so that a
  candidate without a divisor in it, up to the root, is prime: by the smallest divisor of a
  number and its cofactor. In the other two each thread has its own residue modulo the number of
  threads, whose indices differ (`SansCourse`), and every number has one.
* `InvSignaux`: the disposition and the mask follow from the call `main` has reached, and every
  `pause` passed was ended by a handled signal, which is what `traites` counts.
* `InvTubes`: which ends each process has open, by its point. Who ends has closed them; a
  writer alone can find no reader, and the end of file means that the first command
  has ended.
* `InvTail`: what was printed of a file is its content between `depart` and `taille`; the content
  only grows unless it is truncated.
* `InvRecouvrement`: what is left of `PATH`, the table of descriptors at each point of
  `descripteursFichiers.c` for every choice of standard descriptors that are closed at the start, the status of
  the process that is covered, and what `exec5.c` has counted.
* `InvProjection`: for `memtac.c` the line whose start is looked for, and that what is written is
  the rest of the file, each byte at its place (`Retournes`); a byte's place in the output is the
  number of bytes that come before it there, which is how the property says "in order". For
  `memcount.c` that no set of disjoint occurrences has more of them before the pointer than
  searches were made, and that one has as many: the occurrence found ends first, so it can
  replace the first one of any other set. For `memgrep.c` that the
  pointer is at the start of a line and the lines of the pattern in front of it are written
  (`LignesEcrites`), until it meets the last line without a newline; from then on that the search
  either finds nothing more, with all written but the end of that line, or comes back to the
  same place for ever (`RetourEnArriere`).
* `InvListe`: the arguments treated are listed, up to the entries that are left of the open
  directory (`DejaListes`, over the choice of the directories that were cut short), and the buffer of
  `readlink` holds what the target of some file already listed has left. The lines of
  `mini_ls_fichierspointes.c` are those of the first arguments, which all fit (`NomsTenus`).
* `InvForks`: every process has its father in the tree and a number among his children, so that
  a new process never takes the place of another (`FormeForks`). For the mystery the processes and the forks that remain
  to them, weighted by what they will make, are eleven in all, and a father that waits ends after
  its children (`MystereForks`). For `mystereGraphviz.c` an ended process has written its edge, and the
  brace is there only when the first process, hence everyone, has ended: a process of shortest name
  that had not would have a father that has (`GrapheForks`).
* `InvAbsolu`: what `absolute.c` has found, after what is missing above `h`, makes a path that the
  directory has had. In a tree each directory has one path, and a move grafts what is below
  it. As long as nothing was moved the missing part is the path of `h` now; after the only
  move it is that of `h` before or after it, and either way the mixture is the old or the new path.

| Theorem | Module | Property | What it establishes |
|---|---|---|---|
| `TypageDinerPhi` | `DinerPhi_proofs` | type correctness | Type correctness of diner_phi.c for any number of philosophers and meals; in particular nobody eats too often. |
| `VerrousDinerPhi` | `DinerPhi_proofs` | part of `VerrousSurs` | A thread owns exactly the forks its point implies, so it unlocks only its own. |
| `ExclusionDinerPhi` | `DinerPhi_proofs` | `ExclusionVoisins` | Neighbours never eat at the same time, for any number of philosophers. |
| `SansInterblocageDinerPhi` | `DinerPhi_proofs` | `SansInterblocage` | Ordered acquisition never deadlocks, for any number of philosophers: the remark of diner_phi.c:44-48. |
| `DestructionDinerPhi` | `DinerPhi_proofs` | part of `VerrousSurs` | The mutexes are destroyed only when nobody can use them. |
| `VerrousSursDinerPhi` | `DinerPhi_proofs` | `VerrousSurs` | No thread unlocks a mutex that is not its own, and none is destroyed while it can be used, for any number of philosophers. |
| `RaffinementDinerPhi` | `DinerPhi_proofs` | `RaffineRepas` | diner_phi.c implements the abstract table of Repas. |
| `TypeCorrect` | `ProducConso_proofs` | part of `EtatCoherent` | Type correctness of produc_conso.c for any numbers of threads, data and slots: no index leaves the array and no semaphore becomes negative. |
| `ExclusionMutuelle` | `ProducConso_proofs` | part of `EtatCoherent` | Each mutex is held exactly by the thread between its lock and its unlock. |
| `EtatExact` | `ProducConso_proofs` | `EtatCoherent` | Types and mutexes together, as the run checks them. |
| `CaseExclusive` | `ProducConso_proofs` | `AccesExclusif` | A slot that a producer is writing is neither written nor read by another thread, although producers and consumers hold different mutexes. |
| `SemaphoresExacts` | `ProducConso_proofs` | `BilanSemaphores` | The semaphores count exactly the slots taken and given back. |
| `Raffinement` | `ProducConso_proofs` | `RaffineFile` | produc_conso.c implements the abstract bounded queue of FileBornee: FIFO, no loss, no duplication. |
| `VerrouDinerPhiOne` | `DinerPhiOne_proofs` | `VerrouCoherent` | The single mutex of diner_phi_one.c is held exactly by the philosopher between its lock and its unlock, and is valid as long as a thread can use it, for any number of philosophers and meals. |
| `RaffinementDinerPhiOne` | `DinerPhiOne_proofs` | `RaffineRepas` | diner_phi_one.c implements the abstract table of Repas: neighbours never eat together, whatever wakes up whom. |
| `ActifDinerPhiSleep` | `DinerPhiSleep_proofs` | `ActifCoherent` | The flag actif of diner_phi_sleep.c never names a philosopher who is not eating, although every load and store of it is a step of its own, for any number of philosophers and meals. |
| `ValeursFinalesExactes` | `ProducConso_proofs` | `ValeursFinales` | When produc_conso.c ends, full is 0, empty is TAILLE_MAX and all the data have been consumed in the order of their slots. |
| `IndexCoherentsExacts` | `CompteursPartages_proofs` | `IndexCoherents` | The mutexes of produc_conso_mutex.c keep each ring index exact (the number of slots taken modulo TAILLE_MAX) and the data in order of slots, although the counters beside them lose updates, for any numbers of threads, data and slots. |
| `IndexJusteInt` | `CompteursPartages_proofs` | `IndexJusteSansChevauchement` | In produc_conso_int.c, which has no mutex, an index counts the slots taken and no thread of its kind leaves the array as long as no two of them have updated it at the same time; however the updates race, the indices and the counters stay in ranges bounded by the number of data, for any numbers of threads, data and slots. |
| `IndexAvecMutexToujours` | `CompteursPartages_proofs` | `IndexAvecMutex` | The first of these two results for the composition of both programs, as the run checks it: when produc_conso_mutex.c is executed the mutexes keep its indices exact. |
| `IndexSansMutexToujours` | `CompteursPartages_proofs` | `IndexSansMutex` | The second one in the same way: when produc_conso_int.c is executed no thread leaves the array before two of its kind have updated its index at the same time. |
| `ConnexionsSuresEcho` | `SrvEcho_proofs` | `ConnexionsSures` | In srv_echo.c a connection is open on the side of the server only while it waits or is served, and the server is killed only if a client was interrupted, for any finite set of clients. |
| `RaffinementEcho` | `SrvEcho_proofs` | `RaffineEcho` | srv_echo.c implements the abstract echo of Echo: every client receives its own lines in order. |
| `CasesCoherentesPoll` | `SrvMultiplexe_proofs` | `CasesCoherentes` | The slots of srv_poll.c and its open descriptors correspond one to one and its counter of clients is exact, whatever realloc leaves in a fresh slot. |
| `LecturePoll` | `SrvMultiplexe_proofs` | `LectureSansBlocage` | If a fresh slot never holds a stale POLLIN, srv_poll.c never reads from a client that has sent nothing, so one client cannot block the others. |
| `MortPoll` | `SrvMultiplexe_proofs` | `MortParInterruption` | Under the same hypothesis srv_poll.c is killed by SIGPIPE only when some client was interrupted. |
| `RaffinementPoll` | `SrvMultiplexe_proofs` | `RaffineEcho` | srv_poll.c implements the same abstract echo as srv_echo.c. |
| `CasesCoherentesChat` | `SrvMultiplexe_proofs` | `CasesCoherentes` | The same coherence of slots, descriptors, counter and connections for srv_chat.c. |
| `DiffusionOrdonneeToujours` | `SrvMultiplexe_proofs` | `DiffusionOrdonnee` | A client of srv_chat.c receives the lines of another in the order in which they were sent, none twice and never its own, and a number always designates the same client. |
| `SansCoursePPrime` | `Laboratoires_proofs` | `SansCourse` | Two threads of p_prime.c or primes_th.c never work on the same element of the list, for any range and any number of threads. |
| `CompteJustePremiers` | `Laboratoires_proofs` | `CompteJuste` | The three programs count exactly the prime numbers up to their bound, whatever the order of the threads; prime.c does as long as its array holds them. |
| `SignauxTraitesToujours` | `Laboratoires_proofs` | `SignauxTraites` | In the six programs that handle signals, whenever and however often signals come, none returns from its last pause, the handled signal kills only after it was handled as often as promised, and SIGINT does not cut the handler that blocks it. |
| `ToutLuTubes` | `Laboratoires_proofs` | `ToutLu` | A second command that reads to the end of the pipe has read all that the first wrote, and SIGPIPE only comes when it has ended, for any capacity of the pipe and any number of writes. |
| `AffichageExactTail` | `Laboratoires_proofs` | `AffichageExact` | As long as a file is not truncated the three mini-tail print exactly what is appended to it, once and in order, however the writer is scheduled, for any number of files and of appended bytes. |
| `CommandeLanceeToujours` | `Laboratoires_proofs` | `CommandeLancee` | The command that runs is the first one of PATH, for a PATH of any length, and has the descriptors that were redirected, whichever standard ones were closed at the start; exec5.c prints the arguments it counts down to; a program that forks ends after its command with the same status, or with 0 when a signal has killed it, and every program fails when there was no command. |
| `CheminExactAbsolu` | `Laboratoires_proofs` | `CheminExact` | The path that absolute.c prints is one that the current directory has had, for any tree of directories, if at most one directory has been moved meanwhile and no mount point is on it, and nothing fails if none has; in the root it prints "." or "..". |
| `ProjectionExacteToujours` | `Laboratoires_proofs` | `ProjectionExacte` | For any file and any pattern: memcat.c writes the file in order, memtac.c its lines from the last to the first but for the newline a file starts with and a single byte, memcount.c finds the largest number of occurrences that do not overlap although it only searches from left to right, and memgrep.c, which does not end for an empty pattern, writes the lines that contain the pattern, once each and in the order of the file; only when a last line with the pattern has no newline may it cut that line, or leave the file. |
| `ListeExacteToujours` | `Laboratoires_proofs` | `ListeExacte` | For any list of files of the kinds modelled and a buffer of readlink of any size, the eight mini_ls print one line per file that is there, in order, with its rights, target and colour but for the known mistakes; those that go on after an absent file fail only if given nothing, the others end at the first file they cannot list, and mini_ls_fichierspointes.c does so until the first name or target that its buffers have no room for, after which nothing is said. |
| `ArbreExactToujours` | `Laboratoires_proofs` | `ArbreExact` | Whatever the order in which the processes end and for any number of children of multipleFils.c: the mystery makes at most eleven processes, each of which names its true father, a header is not repeated in a terminal, and mystereGraphviz.c draws the ten edges of its tree after one header and before its brace. |

Each action has one lemma, or one step, per conjunct that it can
disturb; arithmetic on the ring, cardinalities and parts of sequences have lemmas of their own.

Only model-checked: the liveness properties, for which fairness and `ENABLED` are out of reach of
the prover. Every invariant of the passing runs, and each refinement, is a theorem.

## 5. Not modelled, and why

* Failures of `pthread_create`, `malloc`, `socket`, `bind`, `accept`, `pipe` and
  `fork`: the programs exit before they have done anything, or the code ignores
  the result and what follows is undefined.
* The parsing of arguments, texts, prompts and colours.
* The time that `sleep` and `usleep` take: they only delay.
* The restart of a server: the socket file stays, and `bind` fails until somebody
  removes it, before the new process does anything.
* In the listings: special bits of a mode, dates, sizes, the layout of a line, errors of
  `readdir`, and links that change between `lstat` and `readlink`, or whose `st_size` is
  not the length of their target, as in `/proc`. A name and a target that fit each its buffer of
  `mini_ls_fichierspointes.c`, but not both in `nom_fichier`; what the program does after it has left a
  buffer. In the projections:
  a file that is truncated while it is mapped. In the signals: the time that `printf`
  and `sleep` take in a handler.
* `exempleSwitch.c`, which does not compile (line 10).
* The demonstrations of the layout of memory and the first programs, which print
  addresses or a greeting and keep no state; the headers of `linuxSocket`, which are
  copies of the system's; the scripts and the configuration.

## 6. Plan

1. Done: philosophers, producer/consumer, sockets, pipes, mini-tail, primes; first
   proofs.
2. Done: signals, trees of processes, covering, descriptors, projections, listings and
   the absolute path; the prefix of the chat server.
3. Done: proofs of all the invariants of the passing runs, and of the five refinements.
4. Left: the liveness properties stay with TLC.
