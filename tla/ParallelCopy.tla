---------------------------- MODULE ParallelCopy ----------------------------
(***************************************************************************)
(* HW5/program.c: the parallel directory copier.                           *)
(*                                                                         *)
(* One thread per directory runs traverse_directory(); it opens every      *)
(* regular file and puts the pair of descriptors into a ring of            *)
(* buffer_size slots.  A pool of worker threads takes tasks out of the     *)
(* ring and copies them.  main() creates the root traversal thread and the *)
(* workers, joins the root, sets "done", wakes the workers and joins them. *)
(*                                                                         *)
(* A critical section that only one mutex protects and that blocks nowhere *)
(* is one action; output_mutex is a leaf lock around single statements and *)
(* has no variable of its own.  Paths are the entries of a tree; "opened"  *)
(* stands for the pair src_fd, dest_fd, which the code opens, queues and   *)
(* closes together.                                                        *)
(***************************************************************************)
EXTENDS Integers, Sequences, FiniteSets, Functions

CONSTANTS
  Files, Dirs, Fifos,  \* the entries of the source tree, by kind
  Root,                \* source_dir
  Listing,             \* Listing[d]: the entries of d in readdir() order
  Depth,               \* Depth[d]: how deep d is nested under Root
  Workers,             \* the worker threads
  BufSize,             \* buffer_size
  Types, FifoType,     \* the keys of the hash table, "fifo" among them
  FileType,            \* FileType[f]: the extension of f
  Size,                \* Size[f]: bytes in f
  ChunkSize,           \* BUF_SIZE, the most one read() returns
  SpuriousWakeups,     \* may pthread_cond_wait() return without a signal?
  ShortWrites,         \* may write() write less than it was given?
  None                 \* no thread, no task

Entries == Files \cup Dirs \cup Fifos
Positions(d) == 1 .. Len(Listing[d])

ASSUME TreeAssumption ==
  /\ Files \cap Dirs = {} /\ Files \cap Fifos = {} /\ Dirs \cap Fifos = {}
  /\ Root \in Dirs
  /\ Listing \in [Dirs -> Seq(Entries)]
  /\ \A d1, d2 \in Dirs : \A i \in Positions(d1), j \in Positions(d2) :
        Listing[d1][i] = Listing[d2][j] => d1 = d2 /\ i = j
  /\ \A d \in Dirs : \A i \in Positions(d) : Listing[d][i] # Root
  /\ Depth \in [Dirs -> Nat]
  /\ Depth[Root] = 0
  /\ \A d, e \in Dirs : (\E i \in Positions(d) : Listing[d][i] = e)
        => Depth[e] = Depth[d] + 1

ASSUME ParameterAssumption ==
  /\ BufSize \in Nat \ {0}
  /\ FifoType \in Types /\ FileType \in [Files -> Types]
  /\ Size \in [Files -> Nat] /\ ChunkSize \in Nat \ {0}
  /\ SpuriousWakeups \in BOOLEAN /\ ShortWrites \in BOOLEAN
  /\ None \notin Workers \cup Dirs \cup Files
  /\ Workers \cap Dirs = {}

VARIABLES
  main,           \* where main() is
  trav,           \* trav[d]: where the thread that traverses d is
  pos,            \* pos[d]: how many entries of d readdir() has returned
  worker,         \* worker[w]: where worker w is
  task,           \* task[w]: the task w is processing
  buffer_mutex,   \* the worker that holds it, or None
  not_full,       \* threads asleep on buffer_not_full
  not_empty,      \* threads asleep on buffer_not_empty
  buffer, buffer_in, buffer_out, done,
  fd,             \* fd[f]: "unopened", "open" or "closed"
  src_off,        \* src_off[f]: bytes read from f
  dest_len,       \* dest_len[f]: bytes written to its copy
  errors,         \* <<f, n>>: copying f failed and the message named n
  cut,            \* the files of which write() has written less than it was given
  regular_files, directories, bytes_copied, fifos_copied,
  file_types      \* the hash table: file_types[t] is its count for key t

travVars  == <<trav, pos>>
poolVars  == <<worker, task, buffer_mutex>>
condVars  == <<not_full, not_empty>>
ringVars  == <<buffer, buffer_in, buffer_out>>
copyVars  == <<src_off, dest_len, errors, cut, bytes_copied>>
statVars  == <<regular_files, directories, fifos_copied, file_types>>
vars == <<main, travVars, poolVars, condVars, ringVars, done, fd, copyVars,
          statVars>>

\* A task: src_fd and dest_fd of a file, and filename, a pointer to the
\* dest_path array on the stack of the thread that queued it.
Task == [file : Files, filename : Dirs]

Slots == 0 .. BufSize - 1

Next_NoWrap(i) == i + 1
Next_(i) == (i + 1) % BufSize

\* The entry readdir() returned last; dest_path of d's thread names it.
Entry(d) == Listing[d][pos[d]]

\* The threads of the process run until main() returns or exit() is called.
Alive == main \notin {"finished", "killed"}

Init ==
  /\ main = "start"
  /\ trav = [d \in Dirs |-> "none"]
  /\ pos = [d \in Dirs |-> 0]
  /\ worker = [w \in Workers |-> "none"]
  /\ task = [w \in Workers |-> None]
  /\ buffer_mutex = None
  /\ not_full = {} /\ not_empty = {}
  /\ buffer = [i \in Slots |-> None]
  /\ buffer_in = 0 /\ buffer_out = 0
  /\ done = FALSE
  /\ fd = [f \in Files |-> "unopened"]
  /\ src_off = [f \in Files |-> 0]
  /\ dest_len = [f \in Files |-> 0]
  /\ errors = {} /\ cut = {}
  /\ regular_files = 0 /\ directories = 0 /\ bytes_copied = 0 /\ fifos_copied = 0
  /\ file_types = [t \in Types |-> 0]

-----------------------------------------------------------------------------
(* Condition variables *)

\* What pthread_cond_signal() leaves of a set of waiters: one fewer, if any.
AfterSignal(waiters) ==
  IF waiters = {} THEN {{}} ELSE {waiters \ {t} : t \in waiters}

SignalNotEmpty_Dropped == UNCHANGED not_empty
SignalNotEmpty == not_empty' \in AfterSignal(not_empty)

SignalNotFull_Dropped == UNCHANGED not_full
SignalNotFull == not_full' \in AfterSignal(not_full)

-----------------------------------------------------------------------------
(* traverse_directory(), one thread per directory *)

\* opendir(); on failure the thread exits.
OpenDir(d) ==
  /\ Alive /\ trav[d] = "opendir"
  /\ \E next \in {"readdir", "exited"} : trav' = [trav EXCEPT ![d] = next]
  /\ UNCHANGED <<main, pos, poolVars, condVars, ringVars, done, fd, copyVars, statVars>>

\* readdir() and the snprintf() that writes the entry's name into dest_path,
\* or closedir() and pthread_exit() after the last entry.
ReadDir(d) ==
  /\ Alive /\ trav[d] = "readdir"
  /\ \/ /\ pos[d] < Len(Listing[d])
        /\ pos' = [pos EXCEPT ![d] = @ + 1]
        /\ trav' = [trav EXCEPT ![d] = "entry"]
     \/ /\ pos[d] = Len(Listing[d])
        /\ trav' = [trav EXCEPT ![d] = "exited"]
        /\ UNCHANGED pos
  /\ UNCHANGED <<main, poolVars, condVars, ringVars, done, fd, copyVars, statVars>>

\* stat(), mkdir(), pthread_create(), open(), unlink() or mkfifo() failed:
\* a message, and on to the next entry.
SkipEntry(d) ==
  /\ Alive /\ trav[d] = "entry"
  /\ trav' = [trav EXCEPT ![d] = "readdir"]
  /\ UNCHANGED <<main, pos, poolVars, condVars, ringVars, done, fd, copyVars, statVars>>

\* A directory: mkdir() and pthread_create(), then pthread_join().
SpawnSubdir(d) ==
  /\ Alive /\ trav[d] = "entry" /\ Entry(d) \in Dirs
  /\ trav' = [trav EXCEPT ![d] = "join", ![Entry(d)] = "opendir"]
  /\ UNCHANGED <<main, pos, poolVars, condVars, ringVars, done, fd, copyVars, statVars>>

SubdirDone_NotAwaited(d) == TRUE
SubdirDone(d) == trav[Entry(d)] = "exited"

JoinSubdir(d) ==
  /\ Alive /\ trav[d] = "join" /\ SubdirDone(d)
  /\ trav' = [trav EXCEPT ![d] = "readdir"]
  /\ directories' = directories + 1
  /\ UNCHANGED <<main, pos, poolVars, condVars, ringVars, done, fd, copyVars,
                 regular_files, fifos_copied, file_types>>

\* A regular file: both open() calls succeed and its type is counted.
OpenFile(d) ==
  /\ Alive /\ trav[d] = "entry" /\ Entry(d) \in Files
  /\ fd' = [fd EXCEPT ![Entry(d)] = "open"]
  /\ file_types' = [file_types EXCEPT ![FileType[Entry(d)]] = @ + 1]
  /\ trav' = [trav EXCEPT ![d] = "add"]
  /\ UNCHANGED <<main, pos, poolVars, condVars, ringVars, done, copyVars,
                 regular_files, directories, fifos_copied>>

\* add_task_to_buffer(): with the mutex, sleep while the ring is full, else
\* put the task and signal.  A thread that is woken tests again.
Full_NeverSeen == FALSE
Full == Next_(buffer_in) = buffer_out

PutTask(t) ==
  /\ buffer' = [buffer EXCEPT ![buffer_in] = t]
  /\ buffer_in' = Next_(buffer_in)
  /\ UNCHANGED buffer_out

AddTask(d) ==
  /\ Alive /\ trav[d] = "add" /\ d \notin not_full /\ buffer_mutex = None
  /\ \/ /\ Full
        /\ not_full' = not_full \cup {d}
        /\ UNCHANGED <<trav, ringVars, not_empty>>
     \/ /\ ~Full
        /\ PutTask([file |-> Entry(d), filename |-> d])
        /\ SignalNotEmpty
        /\ trav' = [trav EXCEPT ![d] = "added"]
        /\ UNCHANGED not_full
  /\ UNCHANGED <<main, pos, poolVars, done, fd, copyVars, statVars>>

CountFile(d) ==
  /\ Alive /\ trav[d] = "added"
  /\ regular_files' = regular_files + 1
  /\ trav' = [trav EXCEPT ![d] = "readdir"]
  /\ UNCHANGED <<main, pos, poolVars, condVars, ringVars, done, fd, copyVars,
                 directories, fifos_copied, file_types>>

\* A FIFO: an old one is removed, mkfifo() succeeds, it is counted.
CopyFifo(d) ==
  /\ Alive /\ trav[d] = "entry" /\ Entry(d) \in Fifos
  /\ file_types' = [file_types EXCEPT ![FifoType] = @ + 1]
  /\ fifos_copied' = fifos_copied + 1
  /\ trav' = [trav EXCEPT ![d] = "readdir"]
  /\ UNCHANGED <<main, pos, poolVars, condVars, ringVars, done, fd, copyVars,
                 regular_files, directories>>

TraverseDirectory(d) ==
  \/ OpenDir(d) \/ ReadDir(d) \/ SkipEntry(d) \/ SpawnSubdir(d) \/ JoinSubdir(d)
  \/ OpenFile(d) \/ AddTask(d) \/ CountFile(d) \/ CopyFifo(d)

-----------------------------------------------------------------------------
(* worker_thread() *)

LockBuffer(w) ==
  /\ Alive /\ worker[w] = "lock" /\ w \notin not_empty /\ buffer_mutex = None
  /\ buffer_mutex' = w
  /\ worker' = [worker EXCEPT ![w] = "check"]
  /\ UNCHANGED <<main, travVars, task, condVars, ringVars, done, fd, copyVars, statVars>>

Empty == buffer_in = buffer_out

\* The test that sends a worker to sleep.  It reads "done" without the lock
\* main() writes it under, and the worker is not asleep yet.
DecideToWait(w) ==
  /\ Alive /\ worker[w] = "check" /\ Empty /\ ~done
  /\ worker' = [worker EXCEPT ![w] = "wait"]
  /\ UNCHANGED <<main, travVars, task, buffer_mutex, condVars, ringVars, done, fd,
                 copyVars, statVars>>

\* pthread_cond_wait(): release and sleep in one step.
WaitNotEmpty(w) ==
  /\ Alive /\ worker[w] = "wait"
  /\ buffer_mutex' = None
  /\ not_empty' = not_empty \cup {w}
  /\ worker' = [worker EXCEPT ![w] = "lock"]
  /\ UNCHANGED <<main, travVars, task, not_full, ringVars, done, fd, copyVars, statVars>>

ExitWorker(w) ==
  /\ Alive /\ worker[w] = "check" /\ Empty /\ done
  /\ buffer_mutex' = None
  /\ SignalNotFull
  /\ worker' = [worker EXCEPT ![w] = "exited"]
  /\ UNCHANGED <<main, travVars, task, not_empty, ringVars, done, fd, copyVars, statVars>>

\* process_task_from_buffer(): read the slot, advance buffer_out, and copy.
\* buffer_mutex stays locked until the copy is finished.
KeepMutex_Released == buffer_mutex' = None
KeepMutex == UNCHANGED buffer_mutex

TakeTask(w) ==
  /\ Alive /\ worker[w] = "check" /\ ~Empty
  /\ task' = [task EXCEPT ![w] = buffer[buffer_out]]
  /\ buffer_out' = Next_(buffer_out)
  /\ worker' = [worker EXCEPT ![w] = "copy"]
  /\ KeepMutex
  /\ UNCHANGED <<main, travVars, condVars, buffer, buffer_in, done, fd, copyVars, statVars>>

\* What read() returns of a file.
Chunk(f) == IF Size[f] - src_off[f] < ChunkSize THEN Size[f] - src_off[f] ELSE ChunkSize

\* One turn of the loop of copy_fd(): a read() and a write() that may be short.
CopyChunk(w) ==
  LET f == task[w].file
      n == Chunk(f)
  IN  /\ Alive /\ worker[w] = "copy" /\ src_off[f] < Size[f]
      /\ \E written \in IF ShortWrites THEN 1 .. n ELSE {n} :
           /\ dest_len' = [dest_len EXCEPT ![f] = @ + written]
           /\ bytes_copied' = bytes_copied + written
           /\ cut' = cut \cup (IF written < n THEN {f} ELSE {})
      /\ src_off' = [src_off EXCEPT ![f] = @ + n]
      /\ UNCHANGED <<main, travVars, poolVars, condVars, ringVars, done, fd, errors,
                     statVars>>

\* What an error message reads through the filename pointer: the entry its
\* thread is at by now, anything once that thread's stack is gone.
NamesSeen(t) ==
  IF trav[t.filename] = "exited" THEN Entries ELSE {Entry(t.filename)}

\* read() failed, or write() after a read(): the message is printed and the loop
\* is left.
CopyError(w) ==
  /\ Alive /\ worker[w] = "copy"
  /\ LET f == task[w].file
     IN  src_off' \in {src_off, [src_off EXCEPT ![f] = @ + Chunk(f)]}
  /\ \E name \in NamesSeen(task[w]) : errors' = errors \cup {<<task[w].file, name>>}
  /\ worker' = [worker EXCEPT ![w] = "close"]
  /\ UNCHANGED <<main, travVars, task, buffer_mutex, condVars, ringVars, done, fd,
                 dest_len, cut, bytes_copied, statVars>>

\* read() returned 0: the loop of copy_fd() ends.
EndOfFile_Early(f) == Size[f] - src_off[f] < ChunkSize
EndOfFile(f) == src_off[f] = Size[f]

CopyDone(w) ==
  /\ Alive /\ worker[w] = "copy" /\ EndOfFile(task[w].file)
  /\ worker' = [worker EXCEPT ![w] = "close"]
  /\ UNCHANGED <<main, travVars, task, buffer_mutex, condVars, ringVars, done, fd,
                 copyVars, statVars>>

\* Both close() calls, the signal and the unlock.
CloseTask(w) ==
  /\ Alive /\ worker[w] = "close"
  /\ fd' = [fd EXCEPT ![task[w].file] = "closed"]
  /\ task' = [task EXCEPT ![w] = None]
  /\ SignalNotFull
  /\ buffer_mutex' = None
  /\ worker' = [worker EXCEPT ![w] = "lock"]
  /\ UNCHANGED <<main, travVars, not_empty, ringVars, done, copyVars, statVars>>

WorkerThread(w) ==
  \/ LockBuffer(w) \/ DecideToWait(w) \/ WaitNotEmpty(w) \/ ExitWorker(w)
  \/ TakeTask(w) \/ CopyChunk(w) \/ CopyError(w) \/ CopyDone(w) \/ CloseTask(w)

-----------------------------------------------------------------------------
(* main() *)

\* The root traversal thread; a failure of mkdir() or pthread_create() ends
\* the program.
StartRoot ==
  /\ main = "start"
  /\ \/ /\ main' = "spawn"
        /\ trav' = [trav EXCEPT ![Root] = "opendir"]
     \/ main' = "killed" /\ UNCHANGED trav
  /\ UNCHANGED <<pos, poolVars, condVars, ringVars, done, fd, copyVars, statVars>>

\* One turn of the loop that creates the workers; a failure returns from
\* main() and so ends every thread.
SpawnWorker(w) ==
  /\ main = "spawn" /\ worker[w] = "none"
  /\ \/ worker' = [worker EXCEPT ![w] = "lock"] /\ UNCHANGED main
     \/ main' = "killed" /\ UNCHANGED worker
  /\ UNCHANGED <<travVars, task, buffer_mutex, condVars, ringVars, done, fd, copyVars,
                 statVars>>

RootJoined_NotAwaited == TRUE
RootJoined == trav[Root] = "exited"

\* pthread_join(root_thread), then done = 1 under output_mutex.
SetDone ==
  /\ main = "spawn" /\ \A w \in Workers : worker[w] # "none"
  /\ RootJoined
  /\ done' = TRUE
  /\ main' = "broadcast"
  /\ UNCHANGED <<travVars, poolVars, condVars, ringVars, fd, copyVars, statVars>>

Broadcast ==
  /\ main = "broadcast"
  /\ not_empty' = {}
  /\ main' = "join"
  /\ UNCHANGED <<travVars, poolVars, not_full, ringVars, done, fd, copyVars, statVars>>

\* The last pthread_join(); the statistics are printed and main() returns.
Finish ==
  /\ main = "join" /\ \A w \in Workers : worker[w] = "exited"
  /\ main' = "finished"
  /\ UNCHANGED <<travVars, poolVars, condVars, ringVars, done, fd, copyVars, statVars>>

MainThread == StartRoot \/ (\E w \in Workers : SpawnWorker(w)) \/ SetDone
              \/ Broadcast \/ Finish

-----------------------------------------------------------------------------
(* The environment *)

\* handle_signal(): Ctrl+C calls exit(0).
Interrupt ==
  /\ Alive
  /\ main' = "killed"
  /\ UNCHANGED <<travVars, poolVars, condVars, ringVars, done, fd, copyVars, statVars>>

\* pthread_cond_wait() may return although nobody signalled.
SpuriousWakeup ==
  /\ SpuriousWakeups /\ Alive
  /\ \/ \E d \in not_full : not_full' = not_full \ {d} /\ UNCHANGED not_empty
     \/ \E w \in not_empty : not_empty' = not_empty \ {w} /\ UNCHANGED not_full
  /\ UNCHANGED <<main, travVars, poolVars, ringVars, done, fd, copyVars, statVars>>

Next ==
  \/ MainThread
  \/ \E d \in Dirs : TraverseDirectory(d)
  \/ \E w \in Workers : WorkerThread(w)
  \/ Interrupt
  \/ SpuriousWakeup

Spec == Init /\ [][Next]_vars

\* The scheduler runs every thread that can run.  Nothing is assumed of
\* Ctrl+C and of spurious wakeups.
FairSpec ==
  /\ Spec
  /\ WF_vars(MainThread)
  /\ \A d \in Dirs : WF_vars(TraverseDirectory(d))
  /\ \A w \in Workers : WF_vars(WorkerThread(w))

-----------------------------------------------------------------------------
(* Properties *)

MainStates == {"start", "spawn", "broadcast", "join", "finished", "killed"}
TravStates == {"none", "opendir", "readdir", "entry", "join", "add", "added", "exited"}
WorkerStates == {"none", "lock", "check", "wait", "copy", "close", "exited"}

\* Every variable has the type its declaration in program.c gives it; the ring
\* indices stay inside the array.
TypeOK ==
  /\ main \in MainStates
  /\ trav \in [Dirs -> TravStates]
  /\ pos \in [Dirs -> Nat] /\ \A d \in Dirs : pos[d] <= Len(Listing[d])
  /\ worker \in [Workers -> WorkerStates]
  /\ task \in [Workers -> Task \cup {None}]
  /\ buffer_mutex \in Workers \cup {None}
  /\ not_full \subseteq Dirs /\ not_empty \subseteq Workers
  /\ buffer \in [Slots -> Task \cup {None}]
  /\ buffer_in \in Slots /\ buffer_out \in Slots
  /\ done \in BOOLEAN
  /\ fd \in [Files -> {"unopened", "open", "closed"}]
  /\ src_off \in [Files -> Nat] /\ dest_len \in [Files -> Nat]
  /\ errors \subseteq Files \X Entries /\ cut \subseteq Files
  /\ regular_files \in Nat /\ directories \in Nat /\ bytes_copied \in Nat
  /\ fifos_copied \in Nat /\ file_types \in [Types -> Nat]

\* The slots that hold a task, the files in them, and the files a traversal
\* thread or a worker has in its hands.
Occupied == IF buffer_out <= buffer_in THEN buffer_out .. buffer_in - 1
            ELSE Slots \ (buffer_in .. buffer_out - 1)
Queued  == {buffer[i].file : i \in Occupied}
InHand  == {Entry(d) : d \in {e \in Dirs : trav[e] = "add"}}
Copying == {w \in Workers : worker[w] \in {"copy", "close"}}
Copied  == {task[w].file : w \in Copying}
OpenFiles == {f \in Files : fd[f] = "open"}

\* Every open pair of descriptors has exactly one owner: the thread that
\* opened it, one slot of the ring, or one worker.  None leaks, none is closed
\* twice and none is copied by two workers (lines 246-268, 385-409).
TaskOwnership ==
  /\ OpenFiles = InHand \cup Queued \cup Copied
  /\ InHand \cap Queued = {} /\ InHand \cap Copied = {} /\ Queued \cap Copied = {}
  /\ \A i, j \in Occupied : buffer[i].file = buffer[j].file => i = j
  /\ \A v, w \in Copying : task[v].file = task[w].file => v = w

\* However large the tree, at most buffer_size + 1 pairs of descriptors are
\* open: the ring blocks the traversal before open() runs out of them, and a
\* worker copies with buffer_mutex held (lines 323-325, 385).
DescriptorBound == Cardinality(OpenFiles) <= BufSize + 1

\* A traversal thread that is not blocked in pthread_join().
Running(d) == trav[d] \notin {"none", "exited", "join"}

\* At most one traversal thread runs at a time, since every parent joins its
\* child at once: insert() on line 266, outside any lock, races with nobody.
OneTraverser == \A d, e \in Dirs : Running(d) /\ Running(e) => d = e

\* No signal is lost.  While a task is queued, not every worker sleeps or is
\* about to, as it would if it had tested the ring too early (lines 313-314,
\* 394); and a thread sleeps on buffer_not_full only while the ring is full or a
\* worker has yet to signal (lines 324, 385-386).
NoSignalLost ==
  /\ ~Empty /\ (\E w \in Workers : worker[w] # "none")
       => \E w \in Workers : worker[w] \notin {"none", "exited", "wait"} /\ w \notin not_empty
  /\ not_full # {} => Full \/ Copying # {}

\* A worker that failed to copy a file said so.  A file that was closed without a
\* message is complete, unless a write() was short: the loop goes on behind it and
\* then the copy lacks bytes, of which nothing is said (lines 417-435).
CompleteOrReported ==
  \A f \in Files : fd[f] = "closed" /\ (\A n \in Entries : <<f, n>> \notin errors)
                     => IF f \in cut THEN dest_len[f] < Size[f] ELSE dest_len[f] = Size[f]

\* When main() prints the statistics nothing is queued or open, unless there was
\* no worker, the byte count is what the copies hold, and the counts of the file
\* types add up to the counts of files and FIFOs (lines 567-606).
FinalReport ==
  main = "finished" =>
    /\ Workers # {} => OpenFiles = {} /\ Empty
    /\ \A d \in Dirs : trav[d] \in {"none", "exited"}
    /\ bytes_copied = SumFunction(dest_len)
    /\ SumFunction(file_types) = regular_files + fifos_copied

\* Once the flag "done" is up the ring only drains: no thread adds a task that
\* the workers, which leave when they find it empty, would miss (lines 317,
\* 560-564).
DrainsAfterDone == [][done => UNCHANGED <<buffer, buffer_in>> /\ done']_vars

\* The files in the ring, oldest first.
QueueLength == Cardinality(Occupied)
RingQueue == [i \in 1 .. QueueLength |-> buffer[(buffer_out + i - 1) % BufSize].file]

\* The ring, its indices and the locks implement a first-in first-out pipeline
\* of capacity buffer_size - 1 with one file in the hand of a traversal
\* thread and one in the hand of a worker.
Pipeline == INSTANCE CopyPipeline WITH
  Capacity <- BufSize - 1, offered <- InHand, queue <- RingQueue,
  copying <- Copied, closed <- {f \in Files : fd[f] = "closed"}
ImplementsPipeline == Pipeline!Spec

\* Every file that was opened is eventually copied and closed, whoever sleeps
\* where, unless the process is killed.
OpenedIsClosed ==
  \A f \in Files : fd[f] = "open" ~> fd[f] = "closed" \/ main = "killed"

-----------------------------------------------------------------------------
(* What the comments say and the code does not do *)

\* Line 317: "If the buffer is empty and the main thread is done, terminate
\* the thread"; line 310: "Loop until the thread is terminated by the main
\* thread".
WorkersTerminate ==
  \A w \in Workers : done /\ Empty ~> worker[w] = "exited" \/ main = "killed"

\* Line 23: "Name of the file to be copied".
TaskNamesItsFile == \A e \in errors : e[1] = e[2]
=============================================================================
