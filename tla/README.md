# Verification of Advanced-C-Language-Projects

The repository holds five system-programming projects in C. This directory holds
TLA+ models of them, TLC runs that check the models on small instances, and
TLAPS proofs of the main safety properties for every instance. Every definition
is translated from the C source; `PROJECT.json` ("map") says which lines each
definition stands for.

## 1. Inventory

### HW5, `program.c`: parallel directory copier
- *State*: a ring of `buffer_size` tasks with `buffer_in`, `buffer_out`; the flag
  `done`; `buffer_mutex`, `output_mutex`, the conditions `buffer_not_full` and
  `buffer_not_empty`; statistics; a chained hash table of file types.
- *Operations*: `traverse_directory` (one thread per directory, the parent joins
  its child), `add_task_to_buffer`, `worker_thread`, `process_task_from_buffer`,
  `copy_fd`, `main`, `handle_signal`, and `insert`/`get` of the table.
- *Interaction*: shared memory, two mutexes, two conditions, `pthread_join`.
- *Hard*: lost wakeups at the ring and at shutdown, full and empty ring, tasks
  that point into another thread's stack, an unlocked table, failing system calls.
- *Correct when*: each opened file has one owner and is closed once, descriptors
  are bounded, the ring is first-in first-out, no signal is lost while there is
  work, nothing is queued after `done`, the final report adds up.

### Midterm, `biboServer.c` and `biboClient.c`: file server over FIFOs
- *State*: the server FIFO, a waiting queue (array, `front`, `rear`), shared
  memory with `connected_clients[]` and `empty_slot_count`, a named semaphore,
  two FIFOs per client.
- *Operations*: connect and tryConnect requests, `add_client`,
  `send_notification`, `enqueue`/`dequeue`, `fork`, `handle_client` with help,
  list, readF, quit, killServer; SIGUSR1, SIGUSR2, SIGTERM, SIGINT handlers.
- *Interaction*: FIFOs, signals, shared memory without a lock, `fork`.
- *Hard*: two-word requests read in halves, the counter updated by children,
  `open()` of a FIFO that waits for the other side, signals that interrupt it,
  processes that vanish, answers longer than the pipe takes at once, answers that never come.
- *Correct when*: frames stay whole, a client is in one place at a time and never
  in none, slots are neither lost nor given twice, a connected client gets its
  session, client and child stay in step, what readF says of a file is true.

### HW2, `terminal.c`: shell
- *State*: `number_of_commands`, `children[]`, the pipes of one line and who holds
  their ends; the children, running, zombies or reaped; a pending SIGCHLD.
- *Operations*: read and parse a line, `pipe`, `fork`, close and `dup2` in the child,
  redirections, log file, `execvp`, `waitpid`; the handler `handle_sigchld`.
- *Interaction*: pipes between the children; handler and main loop both reap.
- *Hard*: SIGCHLD is not queued and interrupts `waitpid` and `fgets` (no SA_RESTART);
  a descriptor too many keeps an end of file back.
- *Correct when*: no child is left behind without cause, pipe ends are closed, the end
  of one command reaches its neighbours, the prompt comes back.

### HW6, `BibakBOXServer.c` and `BibakBOXClient.c`: file synchronisation
- *State*: the server's pool of slots, its directory, the contents it found when it
  started; per session a byte stream; the client's directory and its snapshot of it
  (`fileInfos`, `glob_count`, and the number of files at first).
- *Operations*: accept, download of all files, then once a second `check_create`,
  `check_delete`, `check_update`, against `handle_create`, `handle_delete`, `handle_update`.
- *Interaction*: one TCP connection per client; all threads share the process and the
  directory.
- *Hard*: messages have no boundaries, `recv` takes what is there; edits between two
  looks, and between the size and the data of a message; a stale snapshot; one
  thread's `exit` ends all sessions; slots are never released.
- *Correct when*: the directories agree once the user stops, only what he deleted is
  deleted, a download is complete, who is served and who is not is plain.

### HW1, `my_dup.c` and `appendMeMore.c`
`dup`/`dup2` by `fcntl`, and appending with `O_APPEND` or with `lseek` from several
processes. *Correct when* `mydup2` does what `dup2` does, the demonstration closes what
it opened and nothing else, and no appended byte is lost.

## 2. Modules

| Module | Models | Role |
| --- | --- | --- |
| `ParallelCopy` | HW5 without the table's inside | the detailed model |
| `CopyPipeline` | what the ring promises | abstract specification |
| `ParallelCopyMC` | | trees for TLC |
| `ParallelCopyProofs` | | theorems |
| `HashTable` | HW5 `createHashtable`, `insert`, `get` | detailed model |
| `KeyCounters` | one counter per key | abstract specification |
| `BiboQueue` | midterm queue functions | detailed model, used by `BiboServer` |
| `Fifo` | a queue that may refuse | abstract specification |
| `BiboServer` | server loop, children, shared memory, clients | composes `BiboQueue` |
| `BiboServerProofs` | | theorems |
| `BiboServerMC` | | symmetry |
| `BiboSession` | one session's requests and answers | detailed model |
| `BiboReadF` | `readF` | algorithm against its reference |
| `BiboProofs` | | theorems about `BiboQueue`, `BiboSession`, `BiboReadF` |
| `Terminal` | HW2 | the detailed model |
| `TerminalProofs` | | theorems |
| `BibakPool` | HW6: slots, start of a thread, first download, ends | server and clients |
| `BibakPoolMC` | | the files TLC starts from |
| `BibakPoolProofs` | | theorems |
| `BibakSync` | HW6: one session after the download | user, client, stream, thread |
| `BibakSyncMC` | | the files TLC gives the user |
| `BibakSyncProofs` | | theorems |
| `MyDup` | HW1 `mydup`, `mydup2`, `main` | operators against `dup2`, and the program |
| `AppendMeMore` | HW1 `write_bytes_to_file` | processes on one file |
| `ComponentsProofs` | | theorems about `HashTable`, `MyDup`, `AppendMeMore` |
| `ComponentsMC` | | the six small components side by side |
| `Lemmas` | | lemmas the proofs share: the least number, sums over finite sets |

### History variables
Some properties are about what happened: whether a `write()` was short (`cut`), whether the server read a
request in halves (`split`) or refused a client (`refused`), whether an answer was read in part (`partly`), what a
client was told and whether it kept up (`told`, `slow`, `garbled`, `torn`, `removed`). Such a variable only records; no
guard and no other variable depends on it, so that the behaviours are those of the model without it.

### ParallelCopy
`main`, `trav[d]` and `worker[w]` are program counters of the three kinds of
threads; `pos[d]` is how far `readdir` has come. `not_full`, `not_empty` are the
threads asleep on the two conditions; a signal removes one of them or does
nothing, a spurious wakeup (a constant switches them on) removes any. A critical
section that blocks nowhere is one action. `DecideToWait` and `WaitNotEmpty` are
two actions, because `main` sets `done` and broadcasts without `buffer_mutex` and
can come between the test and the sleep. `TakeTask` .. `CloseTask` keep
`buffer_mutex`, as `worker_thread` does around `process_task_from_buffer`.
`fd[f]` stands for the pair of descriptors of a file. Every system call that the
code tests can fail: `OpenDir`, `SkipEntry`, `StartRoot`, `SpawnWorker`,
`CopyError`, which may come from the `read` or, when the source offset has moved, from the `write`. A
`write` may also take less than it is given (`ShortWrites`), and `cut` remembers the files it did that
to. What an error message prints (`NamesSeen`) is read through the
task's pointer when the message is written: the entry its thread has reached, or
anything once that thread has exited.

The table is a counter per type in this module; `HashTable` justifies that: with
chains and any hash function it implements `KeyCounters`, and `OneTraverser`
shows that no two threads are ever in it.

### BiboQueue, BiboServer
`BiboServer` has one action per step of the server's loop between two system
calls that other processes can see, one per step of a client up to its session,
and one per step of a child. `SERVER_FIFO` is a sequence of words. The server reads
it without waiting; a read of the mode that finds nothing leaves
`connection_mode` alone, as the unchecked `read()` does, and sets `split`: from then on the words of the requests may be
taken for each other, and nothing is claimed of who gets which answer. `refused` are the clients that
`enqueue()` turned away without a word. The decrement of
`empty_slot_count` is a read and a write (`ReadCount`, `WriteCount`). SIGUSR1 is the
action `Interrupt`: when the server waits in `open()` at that moment, the call
may fail and the server exits. SIGUSR2 is pending until the server handles it, at
any point of the loop. A write into a FIFO nobody reads ends the writer.
`connected_clients` starts with zeros. The queue's operations come from
`BiboQueue`, instantiated on the words of the FIFO: once the server has lost the
frame a mode may be where a pid should be.

### BiboSession, BiboReadF
`BiboSession` is the protocol after both FIFOs are open: a length and a text in
each direction. What enters the pipe at once, at most PIPE_BUF bytes, is one unit here; an answer has any
number of them, and the child waits for room between them, while one `read()` of the client takes what is there.
`AnswerNothing` are the paths of `readF()` that return without an answer (203-215), `ListFails` those of `list()` that
end the child (160-163, and `strlen(NULL)` in 180 when `ls` printed nothing). In `BiboReadF` a file is any short
sequence of three kinds of characters; one action is one `fgets()` or one `fgetc()`. The property's
reference is the file's own lines (`Ends`, `LineCount`): how long the array is matters only for what is let pass.

### Terminal
`shell` is the place of `main()`: `prompt` (`fgets`), `fork`, `close`, `wait` (`waitpid`),
`waited` (the prints after it). A process is numbered by its fork and a pipe by the process
that writes to it; `readers[q]` and `writers[q]` are the processes that hold its ends, so
that `Fork` copies and `Close`, `Exec` and `Exit` remove. `Exec` is everything a child does up to
`execvp`, which only it sees. `pending` is one SIGCHLD; a second one meanwhile is
lost. The handler runs between any two actions (`HandleSigchld`) and inside the two calls
that block (`InterruptWait`, `InterruptFgets`); the shell's other actions wait for a pending
signal, because it is handled when the process next leaves the kernel, at the latest
when the next call returns. `fgets` returning NULL is not noticed: `Rerun` starts the
first word that `strtok` left of the last line. `pipe()` is not tested: any of the pipes of a line may be
missing (`Start`), and its ends are then no descriptors.

### BibakSync, BibakPool
`BibakSync` has one action per `send` of the client that the user or the server can come
between, and one per message part the server takes: that a file is newer (`CheckEntry`), its size, which is -1 if it is
gone by then (`Announce`), and its data (`SendData`) are three. `wire` is the stream. An entry
of the snapshot is a name and whether the file is newer than the time in it; `Touch`
lets an edit within the same second go unseen. `Refresh` reads the directory into the
array that was freed and allocated again, which is the same memory (checked with the
C library of the build; the first bytes are overwritten), so that elements behind
`glob_count` keep older names; `CheckEntry` goes on to the number of files at first. A name
of `handle_create` and `handle_delete` has no `'\0'`: what the memory held before may lengthen it. `Longer[f]` is what may
become of `f`, other files of the user and names of no file (`Junk`) included; `Received(f)` is that or `f`. Once the thread takes one part for another (`lost`)
or ends the process (`exited`) nothing is said about what follows.

In `BibakPool` the server starts with the files `Found`, any number of them of any size up to
`MaxSize`. A session after the download is a change of the server's directory
(`Handle`), a message at which a handler ends the process (`HandlerFails`) or the end of the client (`Leave`). `Accept` never
frees a slot; the first one may fail, because the length of the address is not initialised (`AcceptFails`, 528). `EndOfStream`
is the unchecked `recv` that returns 0. The client reads the path and each entry of the listing with one unchecked `read()`,
which may return less: `ReceiveContents` takes the listing as it was sent, or not (`garbled`).

### MyDup, AppendMeMore
A descriptor table is a function; `mydup2` is an operator on tables, compared with `dup2`
for all arguments on every table the program reaches from any inherited one. In
`AppendMeMore` each system call is an action; bytes are told apart by their writer.

### ComponentsMC
The hash table, the queue, a session, `readF`, `MyDup` and `AppendMeMore` share nothing. One of them
runs in each behaviour; the others stay in one initial state. The state space is the
sum of theirs.

## 3. Runs

| Run | Shows | Bounds |
| --- | --- | --- |
| `ParallelCopyTree` | `TypeOK`, `TaskOwnership`, `OneTraverser`, `NoSignalLost`, `FinalReport`, `CompleteOrReported`, `DrainsAfterDone`, refinement `ImplementsPipeline` | root with two files around a directory with a file and a FIFO; two workers; ring of three slots, so that it wraps and fills; file sizes 3, 0, 1 with chunks of 2; short writes; spurious wakeups |
| `ParallelCopyLive` | `DescriptorBound`, `OpenedIsClosed` | four empty files, two workers, ring of two slots: one more file than the bound allows open |
| `ParallelCopyLostWakeup` | `WorkersTerminate` fails | one worker suffices |
| `ParallelCopyStaleName` | `TaskNamesItsFile` fails | one worker suffices |
| `BiboServer` | `TypeOK`, `FramesWhole`, `OnePlace`, `NobodyForgotten`, `SlotsTruthful`, `CountNotUnderstated` | three clients, two slots, queue of two, Ctrl+C anywhere, requests read in halves |
| `BiboServerLive` | `RequestAnswered`, `ConnectedIsServed` | two clients, one slot, queue of one, requests read in halves, no Ctrl+C |
| `BiboServerStarves` | `QueuedIsServed` fails | as above, queue of two |
| `Components` | `OneNodePerKey`, `ImplementsCounters`; `QueueTypeOK`, `ImplementsFifo`; `AnswerIsTrue`; `InStep`, `PromptReturns`; `Dup2Agrees`, `OthersAsBefore`; `BytesKept` | four keys, three in one chain, counts up to 4; array of four, three values; files of up to 5 characters over 3 kinds, lines up to 4, an array for 3 characters; every request, answers of no, one and three units, pipe of two, Ctrl+C anywhere; 8 descriptors, 256 inherited tables; two writers of up to two bytes each, with and without "x" |
| `Terminal` | `TypeOK`, `LeftBehindBound`, `PipeEndsClosed`, `EndSpreads`, `PromptReturns` | five forks in all, lines of up to three commands, pipes that fail |
| `BibakSync` | `LostByRace`, `Converges`, `NoWrongDelete` | three names, two without extension, one of which the server may read as the other or as no file's; sizes up to 2; two edits at any moment |
| `BibakOverread` | `OnlyFileData` fails | two names, two edits |
| `BibakPool` | `SlotsForEver`, `EndsOnlyBy`, `DownloadTrue`, `ComesThrough` | three clients, two slots, a file of two units and an empty one, one message of a session, which changes a file or fails |

*Why the bounds are enough.* Two workers are the fewest that compete for the
mutex while a third party sleeps; three ring slots are the fewest with an index
that wraps, a queue longer than one and a full state; the smallest tree with a
join between two files of the parent has one subdirectory. Three clients over two
slots make one wait while two children race for the counter. A line of three commands is the
shortest with a command that both reads and writes pipes; a fourth and a fifth fork leave room
for a second line beside a child the first one left behind. A pipe of two holds less than an answer of three units with its
length. A file of five characters has lines that are longer than three, so that `fgets()` takes them for several. Four elements fill
the queue's array and empty it; that `BiboServer` refuses a client takes `MaxClients` + `MaxSize` + 1 of them, which the three
of the run are not: there `refused` stays empty, and the theorem says what follows when it does not. Two edits are the fewest that can
overtake one another: one deletes and one changes a file, or two fall into one
second (three edits on two names hold as well). Three clients find two slots taken;
two files are the fewest of which one can run into the next; one of them
needs more than one message for its data, the other none. Bounds on how often an
action happens are `MaxCount`, `MaxForks`, `MaxEdits` and `MaxChanges`; everything else is finite by
itself.

*Deadlock.* The programs end, wait for a user, or have used up a bound, so that every
run sets `CHECK_DEADLOCK FALSE`; that they end well is stated by `FinalReport`, `OpenedIsClosed`,
`PromptReturns`, `ComesThrough`.

*Fairness.* Weak fairness per thread or process: the kernel runs what can run. No
fairness on Ctrl+C, on spurious wakeups, on the user's choice to quit, to kill the
server or to type a request; none on failures beyond that of the thread they
happen in. A mutex is not assumed to be fair. In `ComponentsMC` the fairness of the session
applies when the session runs. In `Terminal` a program is only assumed to end when its input has
ended or its output has no reader; a program that runs for ever is allowed. In
`BibakSync` client and thread go on for ever, and the user need not do anything.

*Mutants.* Beside a definition of a module stand variants with a suffix (for instance
`KeepMutex_Released`): a plausible bug of the same code. `PROJECT.json` pairs every
property with one that breaks it.

## 4. Where the texts and the code disagree

Each of the following has a run whose counterexample TLC prints:
- *Lost wakeup at shutdown* (`ParallelCopyLostWakeup`): `done` is set under
  `output_mutex` and the broadcast is sent without `buffer_mutex`
  (program.c 562-565). A worker between lines 313 and 314 sleeps for ever, and
  `main` with it in `pthread_join`.
- *Stale file name* (`ParallelCopyStaleName`): line 268 queues a pointer to an
  array that the traversal thread goes on to overwrite.
- *Queued clients starve* (`BiboServerStarves`): `quit()` exits before line 609.
- *More than file data* (`BibakOverread`): "Receive file data from the sender"
  (BibakBOXServer.c 267) takes up to `BUFFER_SIZE` bytes whatever is left of the file
  (271). The counterexample: of two files one is deleted and the other changed; the
  snapshot, refreshed into the old array, holds the other twice, and `check_update`, which goes
  on to the old count, sends it twice in a row.

The models also contain these, which have no run of their own:
- *Two sessions for one slot*: the server serves a queued client "if there is an
  empty slot" (biboServer.c 557), and the child that takes it has not counted itself
  yet (606).
- `pipe()` is not tested (terminal.c 114): the children of such a line get descriptors that are none.
- "Wait for all child processes to complete" (terminal.c 261): a SIGCHLD interrupts
  `waitpid` (264) and its child is passed over; `LeftBehindBound` says how often.
- The status printed is an earlier child's when `waitpid` fails (terminal.c 267); the
  SIGTERM that the handler sends to the shell (22) is ignored (75); a zombie stays when
  its SIGCHLD is lost and it was passed over.
- After end of input the shell runs the first word of the last line for ever, and an
  interrupted `fgets` runs it once more (terminal.c 90, 99).
- "oldfd is valid, return newfd" (my_dup.c 42): for `oldfd = newfd` the descriptor was closed
  in line 29, and -1 is returned; a bad `oldfd` closes `newfd` all the same.
- "Close file descriptors before exiting the program" (my_dup.c 151): three are closed, `fd1` is not (109). `OthersAsBefore`
  claims nothing of `fd1`.
- `main()` compares a result of 1 with -1 (appendMeMore.c 66): failures are not reported by
  its exit status.
- A client that leaves, or a file of the start-up listing that a session removed,
  ends the server (BibakBOXServer.c 188-192, 428-434); if the client had sent
  nothing, its thread may spin instead. So does a message at which a handler gives up: a directory or file
  that cannot be made (78-86, 333-336), an update of a directory (262-265). The very first `accept` may fail, since
  `client_addr_len` is not set (528).
- "Please try again later" (BibakBOXServer.c 548): slots are never freed (535), later is no better.
- Names reach `handle_create` and `handle_delete` without a `'\0'` (294, 352): with what the memory held before, another
  file may be created or emptied, and another one deleted than the user deleted (368). `NoWrongDelete` says that nothing else is.
- The client reads the path and the listing with unchecked `read()` calls (BibakBOXClient.c 547, 556, 667, 674), and gives the path
  no `'\0'` (673): after a short one every later field is shifted.
- A new file without extension becomes a
  directory (322), and its first update ends the server (262).
- Of several files created in one second one is sent (BibakBOXClient.c 267); a file created
  and another deleted between two looks go unseen (248, 216); a change in the second of
  the look too (419); `check_update` looks at no more elements than there were files at first (393).
- `regular_files` (program.c 28, 270) counts files queued, not files copied.
- A short `write()` is not continued (program.c 418): the copy is incomplete and
  no message says so. `CompleteOrReported` says that these are the only such copies.
- A ring of one slot never takes a task (385): `buffer_size` 1 waits for ever.
- LOAD_FACTOR (17) is used nowhere; the table is never resized.
- `isFull()` (biboServer.c 48) refuses while the front of the array is free.
- A request read between its words is handled with an older mode (566).
- A rejected client does not leave (biboClient.c 158-170; server 570-571).
- SIGUSR1 during `open()` ends the server (417), though its handler returns (276).
- `signal_handler2` does not wait for children (289-291).
- Ctrl+C between `sem_wait` and `sem_post` keeps the semaphore (biboClient.c 34).
- An answer longer than PIPE_BUF is read in part (biboClient.c 72), and its rest is taken for the next answer.
- readF of a missing file, or without memory, is never answered (biboServer.c 204-206, 212-215); `list` ends the child when
  `popen` fails (160-163) or `ls` prints nothing (`strlen(NULL)`, 180). The client then waits for ever (`Unanswered`).
- "If specified line number is greater than total lines in file" (234): for the line after the last the answer is empty (235).
  "Read entire file" (244): a character 255 ends it (245). A line longer than the array counts as several (224). `AnswerIsTrue`
  asks for none of the three: it allows the empty answer and the cut, and would allow the right answers instead; of the line asked
  for it speaks when the lines before it fit, and of other answers it says that they are a piece of one line, or true.

## 5. Proofs

All theorems hold for every value of the constants that satisfies the assumptions
declared in the modules. What they ask for is little:
- `TreeAssumption`: the entries form a tree in which no entry is listed twice;
  `ParameterAssumption`: at least one ring slot; `QueueAssumption`, `HashAssumption`;
- `TerminalAssumption`: at least one fork and one command, names that differ;
- `PoolAssumption`, `ClientsAssumption` (a free slot is no client), `FoundAssumption` (the server
  starts with files of some size);
- `SyncAssumption`: finitely many names, as a directory has; what a name may become is another of them or none's;
- `SessionAssumption`, `ReadFAssumption`: answers are no longer than `MaxUnits`, which is more than a pipe holds; an array for at
  least one character;
- `DupAssumption`: `tempfd`, the constant 15, is none of the descriptors 100 to 102 that `main()` uses to
  provoke errors; a descriptor is closed, inherited or the file, which differ;
- `AppendAssumption`: finitely many processes; a byte from before is told apart from theirs.

A theorem that needs more says so as a premise, and the premise is named below.

`Lemmas` holds what several proofs share. `Least` is the least-number principle. The sum over a finite set is the
library's `SumFunctionOnSet`, which picks one element after the other: `SumsExist` shows that the function it chooses
exists, `SumOfZeros` and `SumUpdated` are all that the invariants need of it (a value that changes by `d` changes the
sums it is in by `d`). An induction theorem that takes an operator cannot be used here; instead `SubsetInduction` takes
the set of those subsets of which the claim holds, and picks a smallest one outside of it.

`ParallelCopyProofs`:
- `TypeCorrect`: `Spec => []TypeOK`. `TypeOK` is not inductive: an error message reads the
  entry its task's thread is at, so one needs that the thread has reached an entry
  (`GoodTask`), for every slot of the ring between the indices (`RingTasks`) and every
  worker that copies (`WorkerTasks`), which in turn needs what a traversal thread
  holds (`Hands`). `MutexHeld` ties `buffer_mutex` to the place of its holder. Together they are
  `ControlInv`. The lemmas `NextSlot`, `RingPut`, `RingTake` say what a put and a
  take do to the set of occupied slots, with the indices modulo `buffer_size`.
- `TraversalIsSerial`: `Spec => []OneTraverser`. The strengthening `OneRunnable` counts a thread
  whose `pthread_join` can return as runnable too. When a thread exits, its one
  parent takes over, because no directory is listed twice (`EntriesDiffer`); a child is not
  its parent because it is deeper (`EntryIsDeeper`).
- `EveryOpenFileOwned`: `Spec => []TaskOwnership`. Inductive with `OpenedInOrder` (a file is
  opened only by the thread that is at its entry, once) and the two invariants above:
  `OneCopier` follows from `MutexHeld`.
- `DescriptorsBounded`: `Spec => []DescriptorBound`. One file in hand, one being copied, and
  at most `buffer_size - 1` in the ring: the slot `buffer_in` is never occupied.
- `OnlyDrains`: `Spec => DrainsAfterDone`. `ParentInv`: a thread that is under way, other than the
  root's, has a parent that waits for it in `pthread_join`, and `done` is set after the root's thread
  has exited. `NoOrphan`: of the threads under way one has the least `Depth`; its parent would be
  less deep; hence it is the root's, and none is under way after `done`.
- `SignalsArrive`: `Spec => []NoSignalLost`. `SleepInv`: who sleeps is at the place of its `pthread_cond_wait`
  (`Sleepers`); when the ring holds a task some worker is awake (`TasksAreSeen`), since the put that
  makes a ring non-empty signals and no awake worker goes to sleep over a task; when the
  traversal sleeps, the ring is full or a worker is on its way to signal (`RoomIsSeen`). That one
  `pthread_cond_signal` is enough for `not_full` needs `OneTraverser`: there is one sleeper (`OneSleeper`).
  The signal lost at shutdown (section 4) is the broadcast, of which this says nothing.
- `ClosedMeansCopied`: `Spec => []CompleteOrReported`, with short writes and without. `CopyInv`: of a file without a message as
  much was written as was read, and less if a `write()` was short (`Agrees`); a worker at `CloseTask` has read all or reported.
- `ReportIsTrue`: `ASSUME IsFiniteSet(Files), IsFiniteSet(Types) PROVE Spec => []FinalReport`; the sums need the premises.
  `SumsInv`: `bytes_copied` is at any time the sum of what the copies hold, and the types add up to `regular_files`
  and `fifos_copied`, and one more while a thread has counted the type of a file and not yet the file. There is one
  such thread at most, since one thread traverses at a time (`PendingMoves`), although none of the counters is locked.
  `LeftInv`: workers leave when `done` is set and the ring is empty, and `main` finishes when they have left; that
  nothing is open then comes from `EveryOpenFileOwned`. If no worker was asked for, the ring may still hold files.
- `RingImplementsPipeline`: `Spec => ImplementsPipeline`. The mapping reads the ring as a sequence; `SpanNumbered`,
  `CountPut` and `CountTake` number the occupied slots from `buffer_out`. `OpenImplemented`,
  `PutImplemented`, `TakeImplemented` and `CloseImplemented` map the four steps the pipeline sees; all
  others stutter. That a put finds room, and that the file put is one that was opened, come
  from the invariants above.

`ComponentsProofs`:
- `OneNode`: `TableSpec => []OneNodePerKey`, and `TableImplementsCounters`: `TableSpec => ImplementsCounters`. `WalkFinds` says
  where the walk stops; `IncrementStep` and `PrependStep` say what the two cases of `insert()` do
  to every key, those in the same chain included.
- `Dup2IsDup2`: `DupSpec => []Dup2Agrees`. `SameCall` compares the two calls on any table: `LowestIsMin` says that
  F_DUPFD finds the descriptor that was just closed, `TableType` that main() reaches only tables.
- `LeavesOthers`: `DupSpec => []OthersAsBefore`. `DupInv` says what the table is at each call of `main()`: which descriptors are
  the file, which are closed again, and that the others are as they were inherited. The calls on invalid descriptors change
  nothing when those are closed at that time (`InvalidsFree`), which is the property's own premise.
- `OnlySeekersLose`: `AppendSpec => []BytesKept`, for any number of processes and bytes. `SeekInv`: an offset that `lseek()`
  returned lies behind all that its process has written, and at the end as long as nobody else has written. A byte
  either makes the file longer, as it always does with O_APPEND, or replaces one that is not from before (`BytesWritten`);
  in the first case nobody's bytes get fewer (`AppendedBytes`). `TotalsWritten` gives the sums.

`BiboProofs`:
- `QueueTypeCorrect` and `QueueImplementsFifo`: the array with `front` and `rear` implements
  `Fifo` under the mapping `queue <- Contents`; `AppendStep` and `DequeueStep` map each step.
- `SessionInStep`: `SessionSpec => []InStep`, for answers of any length, of which the child may have written any part
  (`AnsweredTo(k)`) when the client reads. `SessionInv` says, for each place of the client (`AtPrompt`, `HasSentLength`,
  `AwaitsAnswer`, `ReadsAnswer`), where the child is and what exactly the two FIFOs hold, with a child that answered nothing
  (`Silent`) or a server that has ended (`ServerEnded`); after a client that was interrupted, or has read a part of an
  answer (`partly`), nothing is said.
- `ReadFIsTrue`: `ReadSpec => []AnswerIsTrue`, for every file and array. `SeeksLine` ties `current_line` to the number of lines that
  end at or before `pos`: it is never behind, and exact while the lines so far fit the array (`Fit`). `NextStopInLine` says where one `fgets()`
  stops, `LinesUpToNext` and `FewerFit` what that does to the two.

`BiboServerProofs` (from `BiboAssumption`). `TypeInv` adds to the types that what the server holds or queued came out of
`SERVER_FIFO`; the rest is built on it:
- `TypeCorrect`: `Spec => []TypeOK`, although the server may read a pid for a mode and a mode for a pid.
- `FramesStayWhole`: `Spec => []FramesWhole`. `FrameInv`: one client at a time is between `sem_wait()` and
  `sem_post()`, and the FIFO ends with a mode unless that client has just written its pid, or was interrupted
  then; in that case the semaphore is never free again, so that nobody writes after it.
- `OnePlaceOnly`: `Spec => []OnePlace`. `PlaceInv` names the four places, each excluding the others, and says that who has
  not written its pid is in none; `TailTakes`, `AppendPlaces`, `DequeueTakes`, `EnqueueAdds` are what the
  two queues do to places. `AtMostOne` turns it into the cardinality.
- `SlotsAreTrue`: `Spec => []SlotsTruthful`. `SlotInv` is sharper: who holds a slot without a child is between
  `add_client()` and `fork()` with `flag = 2`. That no second slot is given to it needs `PlaceInv`.
- `CountIsNotTooLow`: `Spec => []CountNotUnderstated`. `CountInv` bounds the counter and each value read and not yet
  written by the number of children that have written (`Wrote`), which only grows; that a fork never
  replaces such a child needs `PlaceInv`.
- `NobodyIsForgotten`: `Spec => []NobodyForgotten`, without a premise: once the server has read a pid whose mode was not there yet
  (`split`) a request may be handled with an older mode (section 4) and nothing is claimed, and a client whom `enqueue()`
  refuses is in no place and told nothing. `AlignInv`: until then what
  is read for a pid is one and what is read for a mode is the mode of that client, so that "full" goes only
  to who asked for connect. When the server waits for a mode that is not there, the semaphore is taken (`ModeToCome`): the
  next word is that mode, or there is none any more, because its client has ended. `KeptInv`: who waits is in `SERVER_FIFO`, in
  the queue, in the server's hands or has a child, or has its answer, or was refused.
- `FewAreNotRefused`: `ASSUME IsFiniteSet(Clients), Cardinality(Clients) <= MaxSize PROVE Spec => [](split \/ refused = {})`. It does not follow
  from counting who waits, because `isFull()` refuses while the front of the array is free: `RoomInv` says that
  all that came into the array since it was empty are clients, each once, those before `front` with
  a child; then a full array is one with every client in it, and who is at `enqueue()` is not among them.

`TerminalProofs`:
- `TypeCorrect`: `Spec => []TypeOK`. A new line adds to `number_of_commands`, so that one needs that
  it is 0 at the prompt, and that the forks still to come fit `MaxForks`; with the places of the
  loops this is `LineInv`, and `ControlInv` with the types.
- `NoEndIsKept`: `Spec => []PipeEndsClosed`. Inductive beside `ControlInv`: a new process is not running
  yet, and closes what is not its own when it is.
- `FewLeftBehind`: `Spec => []LeftBehindBound`, by counting: `NobodyNew` for the steps that pass over
  nobody, `OneForOne` for the interrupted wait, which uses up a signal, `ExitBehind` for the
  end of a child, which pays for the signal it sends. The fork needs that the new process was never used
  (`LineInv`), the end of the wait that all children were looked at.

`BibakPoolProofs`:
- `SlotsAreKept`: `Spec => []SlotsForEver`. That a slot is never given twice needs `QueueInv`: whoever is in
  the backlog is there once, has come, and has no thread yet. All steps but `Accept` and
  `Connect` are `Quiet`: they leave the pool and the backlog alone, serve nobody new and turn nobody
  away (`QuietKeeps`). `SlotIsFree` is the least-number principle for the slot that main() picks;
  `AcceptKeeps` counts one client more and one free slot less.
- `EndsForAReason`: `Spec => []EndsOnlyBy`, the ends in the handlers and of the first `accept` included. `EndInv` adds that a thread which sends a file has the index of one,
  and that a file which is not there was removed.
- `DownloadIsTrue`: `Spec => []DownloadTrue`, for files of every size and while sessions change them. `DownInv` says of each client
  that keeps up that its thread has sent nothing (`NotBegun`), or how many sizes it has read and how many more are on the
  stream (`BegunWith`), and what exactly the stream then holds (`Units`): only the last of those files can have data there, or the
  client would be slow, and only the last can be gone. `SizeAppended`, `DataAppended`, `ContentsTaken`, `SizeTaken` and `DataTaken`
  are what a `send` and a `recv` do to such a stream; a change by a session touches only a thread between a size and its
  data (`TornKept`). That what was written and what is to come add up to what the client was told is the property (`FaithfulTrue`).

`BibakSyncProofs`:
- `DeletesWhatWasDeleted`: `Spec => NoWrongDelete`, an action property. `SyncInv`: the snapshot names a file once, and only files
  that are there or were deleted; hence what `check_delete` misses was deleted, and so was what a delete
  on the wire names; the server removes that, or what the name becomes there (`Received`). The snapshot is refreshed into the old array, whose tail keeps older names;
  `RefreshKeeps` shows that they lie behind `glob_count` and that `check_delete` does not reach them.
- `LostOnlyByRace`: `Spec => []LostByRace`. As long as nothing has raced, the stream has one of three forms (`RaceInv`): a message
  under way to which the client is still adding (`Filling`), messages and texts in turn (`Quiet`),
  or those with one update and its data at the end (`Followed`).

*Only model-checked.*
- Liveness: `OpenedIsClosed`, `RequestAnswered`, `ConnectedIsServed`, `PromptReturns` (twice), `EndSpreads`,
  `Converges`, `ComesThrough`. It rests on fairness and ENABLED and is out of the prover's reach.
- The four properties that a run refutes.

## 6. Plan

All components with logic of their own are modelled, and every safety property that the
passing runs check has a theorem. What could be added:
1. *HW6*: what `Converges` rests on that is safety: at rest, with nothing on the wire and nothing raced,
   the server has what the snapshot names.
2. *Midterm*: what of the requests holds once the server has read one in halves, or of a session once an answer was read in part.

## 7. Not modelled

- HW2: what commands and log files say; lines of 20 commands or arguments, which
  write past an array; stopped children. The numbers that a failed `pipe()` leaves uninitialised are taken for no
  descriptors; that they happen to be open ones is not modelled.
- HW6: directories inside the synchronised one, `MAX_FILES`, `clearDirectory`, `handle_client` (called by
  nobody), failing calls of the set-up, and what a server that lost the stream goes on to do.
  A number of four or eight bytes is taken to arrive whole. Several sessions that edit one directory are in `BibakPool` only as changes of its files.
- `copy_file`, `getLastFolder`, the text of the report and the elapsed time of HW5:
  never called, or text only. `bytes_copied` is a natural number here and an `int` there.
- Start-up of the midterm server (directories, keys, log files), `remove_client` (no path
  reaches it, `handle_client` never returns), `writeF`, `upload`, `download` (empty), the wording of
  every answer.
- What lies behind the end of `connected_clients[]` when the counter is negative in
  `signal_handler2`: the model visits the slots that exist.
- Descriptors that `send_notification` leaves open.
- The makefiles.
