------------------------- MODULE ParallelCopyProofs -------------------------
(***************************************************************************)
(* Theorems about HW5/program.c, for every tree of files and directories,  *)
(* every number of workers and every size of the ring.                     *)
(***************************************************************************)
EXTENDS ParallelCopy, Lemmas, SequenceTheorems

-----------------------------------------------------------------------------
(* The inductive invariant *)

\* What a traversal thread holds when it is at or past an entry.
Hands ==
  \A d \in Dirs :
    /\ trav[d] \in {"entry", "join", "add", "added"} => pos[d] >= 1
    /\ trav[d] = "add" => Entry(d) \in Files
    /\ trav[d] = "join" => Entry(d) \in Dirs

\* A task names a file, and the array its filename points into was written.
GoodTask(t) == t \in Task /\ pos[t.filename] >= 1

RingTasks == \A i \in Occupied : GoodTask(buffer[i])
WorkerTasks == \A w \in Copying : GoodTask(task[w])

\* buffer_mutex is held by the worker that is between lock and unlock.
MutexHeld ==
  \A w \in Workers : worker[w] \in {"check", "wait", "copy", "close"} <=> buffer_mutex = w

\* A thread that runs, or whose pthread_join() can return.
Runnable(d) ==
  \/ Running(d)
  \/ trav[d] = "join" /\ trav[Entry(d)] = "exited"

OneRunnable == \A d, e \in Dirs : Runnable(d) /\ Runnable(e) => d = e

NotStarted == main = "start" => \A d \in Dirs : trav[d] = "none"

\* A file is opened by the thread that is at its entry, once.
OpenedInOrder ==
  \A d \in Dirs : \A i \in Positions(d) :
    Listing[d][i] \in Files /\ fd[Listing[d][i]] # "unopened"
      => i <= pos[d] /\ (i = pos[d] => trav[d] # "entry")

ControlInv == TypeOK /\ Hands /\ RingTasks /\ WorkerTasks /\ MutexHeld
TraversalInv == OneRunnable /\ NotStarted

-----------------------------------------------------------------------------
(* The tree *)

LEMMA EntryType ==
  ASSUME TypeOK, NEW d \in Dirs, pos[d] >= 1
  PROVE  Entry(d) \in Entries /\ pos[d] \in Positions(d)
<1>1. Listing[d] \in Seq(Entries) /\ pos[d] \in Nat /\ pos[d] <= Len(Listing[d])
  BY TreeAssumption DEF TypeOK
<1>2. Len(Listing[d]) \in Nat
  BY <1>1
<1>3. pos[d] \in 1 .. Len(Listing[d])
  BY <1>1, <1>2
<1> QED
  BY <1>1, <1>3 DEF Entry, Positions

LEMMA KindsDisjoint ==
  Files \cap Dirs = {} /\ Files \cap Fifos = {} /\ Dirs \cap Fifos = {}
BY TreeAssumption

-----------------------------------------------------------------------------
(* The ring *)

LEMMA NextSlot ==
  ASSUME NEW i \in Slots
  PROVE  Next_(i) \in Slots /\ Next_(i) = IF i = BufSize - 1 THEN 0 ELSE i + 1
<1>1. BufSize \in Nat \ {0} /\ i \in 0 .. BufSize - 1
  BY ParameterAssumption DEF Slots
<1>2. CASE i = BufSize - 1
  BY <1>1, <1>2 DEF Next_, Slots
<1>3. CASE i # BufSize - 1
  <2>1. (i + 1) % BufSize = i + 1
    BY <1>1, <1>3
  <2> QED
    BY <1>1, <1>3, <2>1 DEF Next_, Slots
<1> QED
  BY <1>2, <1>3

\* A put occupies the slot it writes, which was free, and no other.
LEMMA RingPut ==
  ASSUME NEW t, TypeOK, ~Full, PutTask(t)
  PROVE  /\ buffer_in \in Slots /\ buffer_in' \in Slots /\ buffer_out' = buffer_out
         /\ buffer_in \notin Occupied /\ Occupied' = Occupied \cup {buffer_in}
<1>1. BufSize \in Nat \ {0} /\ buffer_in \in 0 .. BufSize - 1 /\ buffer_out \in 0 .. BufSize - 1
  BY ParameterAssumption DEF TypeOK, Slots
<1>2. /\ buffer_in' = IF buffer_in = BufSize - 1 THEN 0 ELSE buffer_in + 1
      /\ buffer_in' # buffer_out /\ buffer_out' = buffer_out
  BY <1>1, NextSlot DEF PutTask, Full, Slots
<1>3. CASE buffer_in = BufSize - 1
  BY <1>1, <1>2, <1>3 DEF Occupied, Slots
<1>4. CASE buffer_in # BufSize - 1 /\ buffer_out <= buffer_in
  BY <1>1, <1>2, <1>4 DEF Occupied, Slots
<1>5. CASE buffer_in # BufSize - 1 /\ ~(buffer_out <= buffer_in)
  BY <1>1, <1>2, <1>5 DEF Occupied, Slots
<1> QED
  BY <1>3, <1>4, <1>5

\* A take frees the slot it reads, which was occupied, and no other.
LEMMA RingTake ==
  ASSUME TypeOK, ~Empty, buffer_out' = Next_(buffer_out), buffer_in' = buffer_in
  PROVE  /\ buffer_out' \in Slots
         /\ buffer_out \in Occupied /\ Occupied' = Occupied \ {buffer_out}
<1>1. BufSize \in Nat \ {0} /\ buffer_in \in 0 .. BufSize - 1 /\ buffer_out \in 0 .. BufSize - 1
  BY ParameterAssumption DEF TypeOK, Slots
<1>2. /\ buffer_out' = IF buffer_out = BufSize - 1 THEN 0 ELSE buffer_out + 1
      /\ buffer_in # buffer_out
  BY <1>1, NextSlot DEF Empty, Slots
<1>3. CASE buffer_out = BufSize - 1
  BY <1>1, <1>2, <1>3 DEF Occupied, Slots
<1>4. CASE buffer_out # BufSize - 1 /\ buffer_out <= buffer_in
  BY <1>1, <1>2, <1>4 DEF Occupied, Slots
<1>5. CASE buffer_out # BufSize - 1 /\ ~(buffer_out <= buffer_in)
  BY <1>1, <1>2, <1>5 DEF Occupied, Slots
<1> QED
  BY <1>1, <1>2, <1>3, <1>4, <1>5 DEF Slots

LEMMA OccupiedSlots ==
  ASSUME TypeOK PROVE Occupied \subseteq Slots
BY ParameterAssumption DEF TypeOK, Slots, Occupied

-----------------------------------------------------------------------------
(* Type correctness *)

LEMMA TypeInit == Init => TypeOK
<1> SUFFICES ASSUME Init PROVE TypeOK
  OBVIOUS
<1>1. 0 \in Slots
  BY ParameterAssumption DEF Slots
<1>2. \A d \in Dirs : 0 <= Len(Listing[d])
  BY TreeAssumption
<1> QED
  BY <1>1, <1>2 DEF Init, TypeOK, MainStates, TravStates, WorkerStates

\* The variables of a group keep their types when the group is unchanged.
LEMMA TypeTraversal ==
  ASSUME ControlInv, NEW d \in Dirs, TraverseDirectory(d)
  PROVE  TypeOK'
<1> USE DEF ControlInv, TypeOK, travVars, poolVars, condVars, ringVars, copyVars, statVars
<1>1. CASE OpenDir(d)
  BY <1>1 DEF OpenDir, TravStates
<1>2. CASE ReadDir(d)
  <2>1. Len(Listing[d]) \in Nat
    BY TreeAssumption
  <2>2. pos' \in [Dirs -> Nat] /\ \A e \in Dirs : pos'[e] <= Len(Listing[e])
    <3>1. CASE UNCHANGED pos
      BY <3>1
    <3>2. CASE pos[d] < Len(Listing[d]) /\ pos' = [pos EXCEPT ![d] = @ + 1]
      <4>1. pos[d] + 1 \in Nat /\ pos[d] + 1 <= Len(Listing[d])
        BY <2>1, <3>2
      <4> QED
        BY <3>2, <4>1
    <3> QED
      BY <1>2, <3>1, <3>2 DEF ReadDir
  <2>3. trav' \in [Dirs -> TravStates]
    BY <1>2 DEF ReadDir, TravStates
  <2> QED
    BY <1>2, <2>2, <2>3 DEF ReadDir
<1>3. CASE SkipEntry(d)
  BY <1>3 DEF SkipEntry, TravStates
<1>4. CASE SpawnSubdir(d)
  BY <1>4 DEF SpawnSubdir, TravStates
<1>5. CASE JoinSubdir(d)
  BY <1>5 DEF JoinSubdir, TravStates
<1>6. CASE OpenFile(d)
  <2>1. fd' \in [Files -> {"unopened", "open", "closed"}]
    BY <1>6 DEF OpenFile
  <2>2. file_types' \in [Types -> Nat]
    <3>1. FileType[Entry(d)] \in Types
      BY <1>6, ParameterAssumption DEF OpenFile
    <3> QED
      BY <1>6, <3>1 DEF OpenFile
  <2>3. trav' \in [Dirs -> TravStates]
    BY <1>6 DEF OpenFile, TravStates
  <2> QED
    BY <1>6, <2>1, <2>2, <2>3 DEF OpenFile
<1>7. CASE AddTask(d)
  <2>1. CASE Full /\ not_full' = not_full \cup {d} /\ UNCHANGED <<trav, ringVars, not_empty>>
    BY <1>7, <2>1 DEF AddTask
  <2>2. CASE /\ ~Full /\ PutTask([file |-> Entry(d), filename |-> d]) /\ SignalNotEmpty
             /\ trav' = [trav EXCEPT ![d] = "added"] /\ UNCHANGED not_full
    <3>1. [file |-> Entry(d), filename |-> d] \in Task
      BY <1>7 DEF AddTask, Hands, Task
    <3>2. buffer_in' \in Slots /\ buffer_out' = buffer_out
      BY <2>2, RingPut
    <3>3. buffer' \in [Slots -> Task \cup {None}]
      BY <2>2, <3>1 DEF PutTask
    <3>4. not_empty' \subseteq Workers
      BY <2>2 DEF SignalNotEmpty, AfterSignal
    <3>5. trav' \in [Dirs -> TravStates]
      BY <2>2 DEF TravStates
    <3> QED
      BY <1>7, <2>2, <3>2, <3>3, <3>4, <3>5 DEF AddTask
  <2> QED
    BY <1>7, <2>1, <2>2 DEF AddTask
<1>8. CASE CountFile(d)
  BY <1>8 DEF CountFile, TravStates
<1>9. CASE CopyFifo(d)
  BY <1>9, ParameterAssumption DEF CopyFifo, TravStates
<1> QED
  BY <1>1, <1>2, <1>3, <1>4, <1>5, <1>6, <1>7, <1>8, <1>9 DEF TraverseDirectory

LEMMA TypeWorker ==
  ASSUME ControlInv, NEW w \in Workers, WorkerThread(w)
  PROVE  TypeOK'
<1> USE DEF ControlInv, TypeOK, travVars, poolVars, condVars, ringVars, copyVars, statVars
<1>1. CASE LockBuffer(w)
  BY <1>1 DEF LockBuffer, WorkerStates
<1>2. CASE DecideToWait(w)
  BY <1>2 DEF DecideToWait, WorkerStates
<1>3. CASE WaitNotEmpty(w)
  BY <1>3 DEF WaitNotEmpty, WorkerStates
<1>4. CASE ExitWorker(w)
  BY <1>4 DEF ExitWorker, WorkerStates, SignalNotFull, AfterSignal
<1>5. CASE TakeTask(w)
  BY <1>5, NextSlot DEF TakeTask, WorkerStates, KeepMutex
<1>6. CASE CopyChunk(w)
  <2> DEFINE f == task[w].file
             n == Chunk(f)
  <2>1. f \in Files
    BY <1>6 DEF CopyChunk, WorkerTasks, Copying, GoodTask, Task
  <2>2. n \in Nat /\ n >= 1
    <3>1. Size[f] \in Nat /\ src_off[f] \in Nat /\ ChunkSize \in Nat \ {0}
      BY <2>1, ParameterAssumption
    <3>2. src_off[f] < Size[f]
      BY <1>6 DEF CopyChunk
    <3> QED
      BY <3>1, <3>2 DEF Chunk
  <2> HIDE DEF n
  <2>3. PICK written \in IF ShortWrites THEN 1 .. n ELSE {n} :
          dest_len' = [dest_len EXCEPT ![f] = @ + written] /\ bytes_copied' = bytes_copied + written
    BY <1>6 DEF CopyChunk, n
  <2>4. written \in Nat
    BY <2>2, <2>3
  <2>5. dest_len' \in [Files -> Nat] /\ bytes_copied' \in Nat
    BY <2>1, <2>3, <2>4
  <2>6. src_off' = [src_off EXCEPT ![f] = @ + n] /\ cut' \subseteq cut \cup {f}
    BY <1>6 DEF CopyChunk, n
  <2>7. src_off' \in [Files -> Nat]
    BY <2>1, <2>2, <2>6
  <2> QED
    BY <1>6, <2>5, <2>7 DEF CopyChunk
<1>7. CASE CopyError(w)
  <2>1. GoodTask(task[w])
    BY <1>7 DEF CopyError, WorkerTasks, Copying
  <2>2. task[w].file \in Files /\ task[w].filename \in Dirs
    BY <2>1 DEF GoodTask, Task
  <2>3. NamesSeen(task[w]) \subseteq Entries
    BY <2>1, <2>2, EntryType DEF NamesSeen, GoodTask
  <2>4. errors' \subseteq Files \X Entries
    BY <1>7, <2>2, <2>3 DEF CopyError
  <2>5. worker' \in [Workers -> WorkerStates]
    BY <1>7 DEF CopyError, WorkerStates
  <2>6. src_off' \in [Files -> Nat]
    <3>1. Chunk(task[w].file) \in Int /\ src_off[task[w].file] + Chunk(task[w].file) \in Nat
      BY <2>2, ParameterAssumption DEF Chunk
    <3>2. src_off' = src_off \/ src_off' = [src_off EXCEPT ![task[w].file] = @ + Chunk(task[w].file)]
      BY <1>7 DEF CopyError
    <3> QED
      BY <2>2, <3>1, <3>2
  <2> QED
    BY <1>7, <2>4, <2>5, <2>6 DEF CopyError
<1>8. CASE CopyDone(w)
  BY <1>8 DEF CopyDone, WorkerStates
<1>9. CASE CloseTask(w)
  BY <1>9 DEF CloseTask, WorkerStates, SignalNotFull, AfterSignal
<1> QED
  BY <1>1, <1>2, <1>3, <1>4, <1>5, <1>6, <1>7, <1>8, <1>9 DEF WorkerThread

LEMMA TypeOther ==
  ASSUME ControlInv, MainThread \/ Interrupt \/ SpuriousWakeup \/ UNCHANGED vars
  PROVE  TypeOK'
<1> USE DEF ControlInv, TypeOK, travVars, poolVars, condVars, ringVars, copyVars, statVars
<1>1. CASE StartRoot
  BY <1>1, TreeAssumption DEF StartRoot, MainStates, TravStates
<1>2. ASSUME NEW w \in Workers, SpawnWorker(w) PROVE TypeOK'
  BY <1>2 DEF SpawnWorker, MainStates, WorkerStates
<1>3. CASE SetDone
  BY <1>3 DEF SetDone, MainStates
<1>4. CASE Broadcast
  BY <1>4 DEF Broadcast, MainStates
<1>5. CASE Finish
  BY <1>5 DEF Finish, MainStates
<1>6. CASE Interrupt
  BY <1>6 DEF Interrupt, MainStates
<1>7. CASE SpuriousWakeup
  BY <1>7 DEF SpuriousWakeup
<1>8. CASE UNCHANGED vars
  BY <1>8 DEF vars
<1> QED
  BY <1>1, <1>2, <1>3, <1>4, <1>5, <1>6, <1>7, <1>8 DEF MainThread

-----------------------------------------------------------------------------
(* What a step leaves alone *)

LEMMA WorkerFrame ==
  ASSUME NEW w \in Workers, WorkerThread(w)
  PROVE  UNCHANGED <<main, trav, pos, buffer, buffer_in, done>>
BY DEF WorkerThread, LockBuffer, DecideToWait, WaitNotEmpty, ExitWorker, TakeTask,
       CopyChunk, CopyError, CopyDone, CloseTask, travVars, poolVars, condVars, ringVars,
       copyVars, statVars

LEMMA TraversalFrame ==
  ASSUME NEW d \in Dirs, TraverseDirectory(d)
  PROVE  UNCHANGED <<main, worker, task, buffer_mutex, buffer_out, done>>
BY DEF TraverseDirectory, OpenDir, ReadDir, SkipEntry, SpawnSubdir, JoinSubdir, OpenFile,
       AddTask, PutTask, CountFile, CopyFifo, travVars, poolVars, condVars, ringVars,
       copyVars, statVars

Other == MainThread \/ Interrupt \/ SpuriousWakeup \/ UNCHANGED vars

LEMMA OtherFrame ==
  ASSUME Other
  PROVE  /\ UNCHANGED <<pos, task, buffer_mutex, buffer, buffer_in, buffer_out, fd>>
         /\ \/ trav' = trav
            \/ main = "start" /\ main' # "start" /\ trav' = [trav EXCEPT ![Root] = "opendir"]
         /\ main' = "start" => main = "start"
         /\ worker' = worker
            \/ \E w \in Workers : /\ worker[w] = "none"
                                  /\ worker' = [worker EXCEPT ![w] = "lock"]
<1> USE DEF travVars, poolVars, condVars, ringVars, copyVars, statVars
<1>1. CASE StartRoot
  BY <1>1 DEF StartRoot
<1>2. ASSUME NEW w \in Workers, SpawnWorker(w)
      PROVE  /\ UNCHANGED <<pos, trav, task, buffer_mutex, buffer, buffer_in, buffer_out, fd>>
             /\ worker[w] = "none" /\ main' # "start"
             /\ worker' = worker \/ worker' = [worker EXCEPT ![w] = "lock"]
  BY <1>2 DEF SpawnWorker
<1>3. CASE SetDone \/ Broadcast \/ Finish
  BY <1>3 DEF SetDone, Broadcast, Finish
<1>4. CASE Interrupt \/ SpuriousWakeup
  BY <1>4 DEF Interrupt, SpuriousWakeup
<1>5. CASE UNCHANGED vars
  BY <1>5 DEF vars
<1> QED
  BY <1>1, <1>2, <1>3, <1>4, <1>5 DEF Other, MainThread

LEMMA NextCases ==
  ASSUME [Next]_vars
  PROVE  \/ \E d \in Dirs : TraverseDirectory(d)
         \/ \E w \in Workers : WorkerThread(w)
         \/ Other
BY DEF Next, Other

LEMMA PosGrows ==
  ASSUME ControlInv, [Next]_vars, NEW d \in Dirs, pos[d] >= 1
  PROVE  pos'[d] >= 1
<1>1. ASSUME NEW e \in Dirs, TraverseDirectory(e) PROVE pos'[d] >= 1
  <2>1. pos \in [Dirs -> Nat]
    BY DEF ControlInv, TypeOK
  <2>2. pos' = pos \/ pos' = [pos EXCEPT ![e] = @ + 1]
    BY <1>1 DEF TraverseDirectory, OpenDir, ReadDir, SkipEntry, SpawnSubdir, JoinSubdir,
       OpenFile, AddTask, CountFile, CopyFifo
  <2> QED
    BY <2>1, <2>2
<1>2. ASSUME NEW w \in Workers, WorkerThread(w) PROVE pos'[d] >= 1
  BY <1>2, WorkerFrame
<1>3. CASE Other
  BY <1>3, OtherFrame
<1> QED
  BY <1>1, <1>2, <1>3, NextCases

-----------------------------------------------------------------------------
(* The control invariant *)

LEMMA HandsStep ==
  ASSUME ControlInv, [Next]_vars
  PROVE  Hands'
<1> USE DEF ControlInv
<1>1. ASSUME NEW d \in Dirs, TraverseDirectory(d) PROVE Hands'
  <2> USE DEF Hands, TypeOK, travVars
  <2>1. CASE OpenDir(d)
    BY <2>1 DEF OpenDir, Entry
  <2>2. CASE ReadDir(d)
    BY <2>2 DEF ReadDir, Entry
  <2>3. CASE SkipEntry(d)
    BY <2>3 DEF SkipEntry, Entry
  <2>4. CASE SpawnSubdir(d)
    BY <2>4 DEF SpawnSubdir, Entry
  <2>5. CASE JoinSubdir(d)
    BY <2>5 DEF JoinSubdir, Entry
  <2>6. CASE OpenFile(d)
    BY <2>6 DEF OpenFile, Entry
  <2>7. CASE AddTask(d)
    BY <2>7 DEF AddTask, Entry
  <2>8. CASE CountFile(d)
    BY <2>8 DEF CountFile, Entry
  <2>9. CASE CopyFifo(d)
    BY <2>9 DEF CopyFifo, Entry
  <2> QED
    BY <1>1, <2>1, <2>2, <2>3, <2>4, <2>5, <2>6, <2>7, <2>8, <2>9 DEF TraverseDirectory
<1>2. ASSUME NEW w \in Workers, WorkerThread(w) PROVE Hands'
  BY <1>2, WorkerFrame DEF Hands, Entry
<1>3. CASE Other
  BY <1>3, OtherFrame DEF Hands, Entry, TypeOK
<1> QED
  BY <1>1, <1>2, <1>3, NextCases

\* A task keeps naming an array that was written.
LEMMA GoodTaskStays ==
  ASSUME ControlInv, [Next]_vars, NEW t, GoodTask(t)
  PROVE  GoodTask(t)'
BY PosGrows DEF GoodTask, Task

LEMMA RingTasksStep ==
  ASSUME ControlInv, [Next]_vars
  PROVE  RingTasks'
<1> USE DEF ControlInv
<1>1. CASE UNCHANGED <<buffer, buffer_in, buffer_out>>
  BY <1>1, GoodTaskStays DEF RingTasks, Occupied
<1>2. ASSUME NEW d \in Dirs, AddTask(d), ~Full, PutTask([file |-> Entry(d), filename |-> d])
      PROVE  RingTasks'
  <2> DEFINE t == [file |-> Entry(d), filename |-> d]
  <2>1. GoodTask(t)
    BY <1>2 DEF AddTask, Hands, GoodTask, Task
  <2>2. buffer_in \in Slots /\ Occupied' = Occupied \cup {buffer_in}
    BY <1>2, RingPut
  <2>3. buffer' = [buffer EXCEPT ![buffer_in] = t]
    BY <1>2 DEF PutTask
  <2>4. ASSUME NEW i \in Occupied' PROVE GoodTask(buffer'[i])
    <3>1. i \in Slots
      BY <2>2, <2>4, OccupiedSlots
    <3>2. CASE i = buffer_in
      BY <2>1, <2>3, <3>1, <3>2 DEF TypeOK
    <3>3. CASE i # buffer_in
      <4>1. buffer'[i] = buffer[i] /\ i \in Occupied
        BY <2>2, <2>3, <3>1, <3>3 DEF TypeOK
      <4> QED
        BY <4>1 DEF RingTasks
    <3> QED
      BY <3>2, <3>3
  <2>5. pos' = pos
    BY <1>2 DEF AddTask
  <2> QED
    BY <2>4, <2>5 DEF RingTasks, GoodTask
<1>3. ASSUME NEW w \in Workers, TakeTask(w) PROVE RingTasks'
  <2>1. Occupied' = Occupied \ {buffer_out} /\ buffer' = buffer /\ pos' = pos
    BY <1>3, RingTake DEF TakeTask, travVars
  <2> QED
    BY <2>1 DEF RingTasks, GoodTask
<1>4. ASSUME NEW d \in Dirs, TraverseDirectory(d)
      PROVE  \/ UNCHANGED <<buffer, buffer_in, buffer_out>>
             \/ AddTask(d) /\ ~Full /\ PutTask([file |-> Entry(d), filename |-> d])
  BY <1>4 DEF TraverseDirectory, OpenDir, ReadDir, SkipEntry, SpawnSubdir, JoinSubdir,
     OpenFile, AddTask, CountFile, CopyFifo, ringVars
<1>5. ASSUME NEW w \in Workers, WorkerThread(w)
      PROVE  UNCHANGED <<buffer, buffer_in, buffer_out>> \/ TakeTask(w)
  BY <1>5 DEF WorkerThread, LockBuffer, DecideToWait, WaitNotEmpty, ExitWorker,
     CopyChunk, CopyError, CopyDone, CloseTask, ringVars
<1>6. CASE Other
  BY <1>1, <1>6, OtherFrame
<1> QED
  BY <1>1, <1>2, <1>3, <1>4, <1>5, <1>6, NextCases

LEMMA WorkerTasksStep ==
  ASSUME ControlInv, [Next]_vars
  PROVE  WorkerTasks'
<1> USE DEF ControlInv
<1>1. ASSUME NEW w \in Workers, WorkerThread(w) PROVE WorkerTasks'
  <2> SUFFICES ASSUME NEW v \in Copying' PROVE GoodTask(task[v])'
    BY DEF WorkerTasks
  <2>1. pos' = pos /\ v \in Workers
    BY <1>1, WorkerFrame DEF Copying
  <2>2. CASE TakeTask(w)
    <3>1. GoodTask(buffer[buffer_out])
      BY <2>2, RingTake DEF TakeTask, RingTasks
    <3>2. v = w \/ (v \in Copying /\ task'[v] = task[v])
      BY <2>1, <2>2 DEF TakeTask, TypeOK, Copying
    <3>3. task'[w] = buffer[buffer_out]
      BY <2>2 DEF TakeTask, TypeOK
    <3> QED
      BY <2>1, <3>1, <3>2, <3>3 DEF WorkerTasks, GoodTask
  <2>3. CASE CloseTask(w)
    <3>1. v \in Copying /\ task'[v] = task[v]
      BY <2>1, <2>3 DEF CloseTask, TypeOK, Copying
    <3> QED
      BY <2>1, <3>1 DEF WorkerTasks, GoodTask
  <2>4. CASE ~TakeTask(w) /\ ~CloseTask(w)
    <3>1. task' = task
      BY <1>1, <2>4 DEF WorkerThread, LockBuffer, DecideToWait, WaitNotEmpty, ExitWorker,
         CopyChunk, CopyError, CopyDone, poolVars
    <3>2. v \in Copying
      BY <1>1, <2>1, <2>4 DEF WorkerThread, LockBuffer, DecideToWait, WaitNotEmpty,
         ExitWorker, CopyChunk, CopyError, CopyDone, poolVars, Copying, TypeOK
    <3> QED
      BY <2>1, <3>1, <3>2 DEF WorkerTasks, GoodTask
  <2> QED
    BY <2>2, <2>3, <2>4
<1>2. ASSUME NEW d \in Dirs, TraverseDirectory(d) PROVE WorkerTasks'
  BY <1>2, TraversalFrame, GoodTaskStays DEF WorkerTasks, Copying
<1>3. CASE Other
  <2>1. Copying' = Copying /\ task' = task
    BY <1>3, OtherFrame DEF Copying, TypeOK
  <2> QED
    BY <2>1, GoodTaskStays DEF WorkerTasks
<1> QED
  BY <1>1, <1>2, <1>3, NextCases

LEMMA MutexHeldStep ==
  ASSUME ControlInv, [Next]_vars
  PROVE  MutexHeld'
<1> USE DEF ControlInv, MutexHeld, TypeOK, poolVars
<1>1. ASSUME NEW w \in Workers, WorkerThread(w) PROVE MutexHeld'
  <2>0. \A v \in Workers : v # None
    BY ParameterAssumption
  <2>1. CASE LockBuffer(w)
    BY <2>0, <2>1 DEF LockBuffer
  <2>2. CASE DecideToWait(w)
    BY <2>0, <2>2 DEF DecideToWait
  <2>3. CASE WaitNotEmpty(w)
    BY <2>0, <2>3 DEF WaitNotEmpty
  <2>4. CASE ExitWorker(w)
    BY <2>0, <2>4 DEF ExitWorker
  <2>5. CASE TakeTask(w)
    BY <2>0, <2>5 DEF TakeTask, KeepMutex
  <2>6. CASE CopyChunk(w)
    BY <2>0, <2>6 DEF CopyChunk
  <2>7. CASE CopyError(w)
    BY <2>0, <2>7 DEF CopyError
  <2>8. CASE CopyDone(w)
    BY <2>0, <2>8 DEF CopyDone
  <2>9. CASE CloseTask(w)
    BY <2>0, <2>9 DEF CloseTask
  <2> QED
    BY <1>1, <2>1, <2>2, <2>3, <2>4, <2>5, <2>6, <2>7, <2>8, <2>9 DEF WorkerThread
<1>2. ASSUME NEW d \in Dirs, TraverseDirectory(d) PROVE MutexHeld'
  BY <1>2, TraversalFrame
<1>3. CASE Other
  BY <1>3, OtherFrame
<1> QED
  BY <1>1, <1>2, <1>3, NextCases

LEMMA ControlInit == Init => ControlInv
<1> SUFFICES ASSUME Init PROVE ControlInv
  OBVIOUS
<1>1. Hands
  BY DEF Init, Hands
<1>2. RingTasks
  BY ParameterAssumption DEF Init, RingTasks, Occupied
<1>3. WorkerTasks
  BY DEF Init, WorkerTasks, Copying
<1>4. MutexHeld
  BY ParameterAssumption DEF Init, MutexHeld
<1> QED
  BY <1>1, <1>2, <1>3, <1>4, TypeInit DEF ControlInv

LEMMA ControlStep == ControlInv /\ [Next]_vars => ControlInv'
<1> SUFFICES ASSUME ControlInv, [Next]_vars PROVE ControlInv'
  OBVIOUS
<1>1. TypeOK'
  BY NextCases, TypeTraversal, TypeWorker, TypeOther DEF Other
<1> QED
  BY <1>1, HandsStep, RingTasksStep, WorkerTasksStep, MutexHeldStep DEF ControlInv

\* Every variable of the copier keeps its type, the ring indices stay in the
\* array, and every descriptor taken from the ring was put there.
THEOREM TypeCorrect == Spec => []TypeOK
<1>1. Spec => []ControlInv
  BY ControlInit, ControlStep, PTL DEF Spec
<1>2. ControlInv => TypeOK
  BY DEF ControlInv
<1> QED
  BY <1>1, <1>2, PTL

-----------------------------------------------------------------------------
(* One traversal thread at a time *)

\* No entry is listed twice, so two threads at the same entry are one thread.
LEMMA EntriesDiffer ==
  ASSUME TypeOK, NEW d \in Dirs, NEW e \in Dirs, pos[d] >= 1, pos[e] >= 1, Entry(d) = Entry(e)
  PROVE  d = e
<1>1. pos[d] \in Positions(d) /\ pos[e] \in Positions(e)
  BY EntryType
<1> QED
  BY <1>1, TreeAssumption DEF Entry

LEMMA EntryIsDeeper ==
  ASSUME TypeOK, NEW d \in Dirs, pos[d] >= 1, Entry(d) \in Dirs
  PROVE  Entry(d) # d
<1>1. pos[d] \in Positions(d)
  BY EntryType
<1>2. Depth[Entry(d)] = Depth[d] + 1 /\ Depth[d] \in Nat
  BY <1>1, TreeAssumption DEF Entry
<1> QED
  BY <1>2

\* The thread that takes a step was runnable before it.
LEMMA ActorRunnable ==
  ASSUME ControlInv, NEW d \in Dirs, TraverseDirectory(d)
  PROVE  Runnable(d)
BY DEF TraverseDirectory, OpenDir, ReadDir, SkipEntry, SpawnSubdir, JoinSubdir, SubdirDone,
       OpenFile, AddTask, CountFile, CopyFifo, Runnable, Running

\* The three ways a step of thread d changes trav and pos.
LEMMA TraversalMoves ==
  ASSUME ControlInv, NEW d \in Dirs, TraverseDirectory(d)
  PROVE  \/ /\ SpawnSubdir(d)
         \/ /\ \E next \in TravStates \ {"none", "exited", "join"} :
                  trav' = [trav EXCEPT ![d] = next]
            /\ \A e \in Dirs \ {d} : pos'[e] = pos[e]
         \/ trav' = [trav EXCEPT ![d] = "exited"] /\ pos' = pos
<1> USE DEF TravStates, travVars, ControlInv, TypeOK
<1>1. CASE OpenDir(d)
  BY <1>1 DEF OpenDir
<1>2. CASE ReadDir(d)
  BY <1>2 DEF ReadDir
<1>3. CASE SkipEntry(d) \/ JoinSubdir(d) \/ OpenFile(d) \/ CountFile(d) \/ CopyFifo(d)
  BY <1>3 DEF SkipEntry, JoinSubdir, OpenFile, CountFile, CopyFifo
<1>4. CASE AddTask(d)
  BY <1>4 DEF AddTask
<1> QED
  BY <1>1, <1>2, <1>3, <1>4 DEF TraverseDirectory

LEMMA OneRunnableStep ==
  ASSUME ControlInv, TraversalInv, [Next]_vars
  PROVE  OneRunnable'
<1> USE DEF ControlInv, TraversalInv
<1>1. ASSUME NEW d \in Dirs, TraverseDirectory(d) PROVE OneRunnable'
  <2>1. \A e \in Dirs : e # d => ~Runnable(e)
    BY <1>1, ActorRunnable DEF OneRunnable
  <2>2. \A e \in Dirs : trav[e] = "join" => pos[e] >= 1 /\ Entry(e) \in Dirs
    BY DEF Hands
  <2>3. CASE SpawnSubdir(d)
    <3> DEFINE c == Entry(d)
    <3>1. c \in Dirs /\ c # d /\ pos' = pos
      BY <2>3, EntryIsDeeper DEF SpawnSubdir, Hands
    <3>2. trav' = [trav EXCEPT ![d] = "join", ![c] = "opendir"]
      BY <2>3 DEF SpawnSubdir
    <3>3. trav'[d] = "join" /\ trav'[c] = "opendir"
          /\ \A e \in Dirs \ {c, d} : trav'[e] = trav[e]
      BY <3>1, <3>2 DEF TypeOK
    <3>4. \A e \in Dirs : Entry(e)' = Entry(e)
      BY <3>1 DEF Entry
    <3>5. ~Runnable(d)'
      BY <3>1, <3>3, <3>4 DEF Runnable, Running
    <3>6. ASSUME NEW e \in Dirs \ {c, d} PROVE ~Runnable(e)'
      BY <2>1, <2>2, <3>3, <3>4, <3>6 DEF Runnable, Running
    <3> QED
      BY <3>5, <3>6 DEF OneRunnable
  <2>4. ASSUME NEW next \in TravStates \ {"none", "exited", "join"},
               trav' = [trav EXCEPT ![d] = next],
               \A e \in Dirs \ {d} : pos'[e] = pos[e]
        PROVE  OneRunnable'
    <3>1. trav'[d] = next /\ \A e \in Dirs \ {d} : trav'[e] = trav[e] /\ Entry(e)' = Entry(e)
      BY <2>4 DEF TypeOK, Entry
    <3>2. ASSUME NEW e \in Dirs \ {d} PROVE ~Runnable(e)'
      <4>1. CASE trav[e] = "join"
        <5>1. trav'[Entry(e)] # "exited"
          BY <2>1, <2>2, <2>4, <3>1, <4>1 DEF Runnable
        <5> QED
          BY <3>1, <4>1, <5>1 DEF Runnable, Running
      <4>2. CASE trav[e] # "join"
        BY <2>1, <3>1, <4>2 DEF Runnable, Running
      <4> QED
        BY <4>1, <4>2
    <3> QED
      BY <3>2 DEF OneRunnable
  <2>5. CASE trav' = [trav EXCEPT ![d] = "exited"] /\ pos' = pos
    <3>1. trav'[d] = "exited" /\ \A e \in Dirs \ {d} : trav'[e] = trav[e]
      BY <2>5 DEF TypeOK
    <3>2. \A e \in Dirs : Entry(e)' = Entry(e)
      BY <2>5 DEF Entry
    <3>3. ASSUME NEW e \in Dirs, Runnable(e)' PROVE pos[e] >= 1 /\ Entry(e) = d
      BY <2>1, <2>2, <3>1, <3>2, <3>3 DEF Runnable, Running
    <3> QED
      BY <3>3, EntriesDiffer DEF OneRunnable
  <2> QED
    BY <1>1, <2>3, <2>4, <2>5, TraversalMoves
<1>2. ASSUME NEW w \in Workers, WorkerThread(w) PROVE OneRunnable'
  BY <1>2, WorkerFrame DEF OneRunnable, Runnable, Running, Entry
<1>3. CASE Other
  <2>1. CASE trav' = trav
    BY <1>3, <2>1, OtherFrame DEF OneRunnable, Runnable, Running, Entry
  <2>2. CASE main = "start" /\ trav' = [trav EXCEPT ![Root] = "opendir"]
    <3>1. \A e \in Dirs \ {Root} : trav'[e] = "none"
      BY <2>2 DEF TypeOK, NotStarted
    <3> QED
      BY <3>1 DEF OneRunnable, Runnable, Running
  <2> QED
    BY <1>3, <2>1, <2>2, OtherFrame
<1> QED
  BY <1>1, <1>2, <1>3, NextCases

LEMMA NotStartedStep ==
  ASSUME ControlInv, TraversalInv, [Next]_vars
  PROVE  NotStarted'
<1> USE DEF ControlInv, TraversalInv, NotStarted
<1>1. ASSUME NEW d \in Dirs, TraverseDirectory(d) PROVE NotStarted'
  <2>1. main' = main /\ main # "start"
    BY <1>1, TraversalFrame, ActorRunnable DEF Runnable, Running
  <2> QED
    BY <2>1
<1>2. ASSUME NEW w \in Workers, WorkerThread(w) PROVE NotStarted'
  BY <1>2, WorkerFrame
<1>3. CASE Other
  BY <1>3, OtherFrame
<1> QED
  BY <1>1, <1>2, <1>3, NextCases

LEMMA TraversalInit == Init => TraversalInv
BY DEF Init, TraversalInv, OneRunnable, NotStarted, Runnable, Running

LEMMA SafeInvariant == Spec => [](ControlInv /\ TraversalInv)
<1>1. Init => ControlInv /\ TraversalInv
  BY ControlInit, TraversalInit
<1>2. ControlInv /\ TraversalInv /\ [Next]_vars => (ControlInv /\ TraversalInv)'
  BY ControlStep, OneRunnableStep, NotStartedStep DEF TraversalInv
<1> QED
  BY <1>1, <1>2, PTL DEF Spec

\* Of all the traversal threads, one per directory, at most one is not
\* blocked in pthread_join(): the hash table needs no lock for them.
THEOREM TraversalIsSerial == Spec => []OneTraverser
<1>1. ControlInv /\ TraversalInv => OneTraverser
  BY DEF TraversalInv, OneRunnable, OneTraverser, Runnable
<1> QED
  BY <1>1, SafeInvariant, PTL

-----------------------------------------------------------------------------
(* Every open file has one owner *)

\* Only one worker copies: it holds buffer_mutex.
LEMMA OneCopier ==
  ASSUME ControlInv, NEW w \in Workers, worker[w] \in {"check", "copy", "close"}
  PROVE  Copying \subseteq {w}
BY DEF ControlInv, MutexHeld, Copying

LEMMA SameHands ==
  ASSUME \A d \in Dirs : /\ trav'[d] = "add" <=> trav[d] = "add"
                         /\ trav[d] = "add" => pos'[d] = pos[d]
  PROVE  InHand' = InHand
<1>1. \A d \in Dirs : trav[d] = "add" => Entry(d)' = Entry(d)
  BY DEF Entry
<1>2. {e \in Dirs : trav[e] = "add"}' = {e \in Dirs : trav[e] = "add"}
  OBVIOUS
<1> QED
  BY <1>1, <1>2 DEF InHand

\* What a step of a traversal thread does to the files in hand and to fd.
LEMMA HandMoves ==
  ASSUME ControlInv, TraversalInv, NEW d \in Dirs, TraverseDirectory(d)
  PROVE  \/ OpenFile(d) /\ InHand' = InHand \cup {Entry(d)}
         \/ AddTask(d) /\ ~Full /\ InHand' = InHand \ {Entry(d)}
         \/ UNCHANGED <<fd, buffer, buffer_in, buffer_out>> /\ InHand' = InHand
<1> USE DEF ControlInv, TypeOK, travVars, ringVars
<1>1. CASE OpenDir(d) \/ ReadDir(d) \/ SkipEntry(d) \/ JoinSubdir(d) \/ CountFile(d) \/ CopyFifo(d)
  <2>1. \A e \in Dirs : /\ trav'[e] = "add" <=> trav[e] = "add"
                        /\ trav[e] = "add" => pos'[e] = pos[e]
    BY <1>1 DEF OpenDir, ReadDir, SkipEntry, JoinSubdir, CountFile, CopyFifo
  <2> QED
    BY <1>1, <2>1, SameHands DEF OpenDir, ReadDir, SkipEntry, JoinSubdir, CountFile, CopyFifo
<1>2. CASE SpawnSubdir(d)
  <2> DEFINE c == Entry(d)
  <2>1. c \in Dirs /\ c # d
    BY <1>2, EntryIsDeeper DEF SpawnSubdir, Hands
  <2>2. trav[c] # "add" /\ trav[d] = "entry"
    BY <1>2, <2>1 DEF SpawnSubdir, TraversalInv, OneRunnable, Runnable, Running
  <2>3. trav' = [trav EXCEPT ![d] = "join", ![c] = "opendir"] /\ pos' = pos
    BY <1>2 DEF SpawnSubdir
  <2>4. \A e \in Dirs : /\ trav'[e] = "add" <=> trav[e] = "add"
                        /\ trav[e] = "add" => pos'[e] = pos[e]
    BY <2>1, <2>2, <2>3
  <2> QED
    BY <1>2, <2>4, SameHands DEF SpawnSubdir
<1>3. CASE OpenFile(d)
  <2>1. \A e \in Dirs : trav'[e] = "add" <=> trav[e] = "add" \/ e = d
    BY <1>3 DEF OpenFile
  <2>2. \A e \in Dirs : Entry(e)' = Entry(e)
    BY <1>3 DEF OpenFile, Entry
  <2>3. {e \in Dirs : trav[e] = "add"}' = {e \in Dirs : trav[e] = "add"} \cup {d}
    BY <2>1
  <2> QED
    BY <1>3, <2>2, <2>3 DEF InHand
<1>4. CASE AddTask(d)
  <2>1. \A e \in Dirs : Entry(e)' = Entry(e)
    BY <1>4 DEF AddTask, Entry
  <2>2. CASE Full
    <3>1. trav' = trav /\ UNCHANGED <<buffer, buffer_in, buffer_out, fd>>
      BY <1>4, <2>2 DEF AddTask
    <3> QED
      BY <2>1, <3>1 DEF InHand
  <2>3. CASE ~Full
    <3>1. \A e \in Dirs : trav'[e] = "add" <=> trav[e] = "add" /\ e # d
      BY <1>4, <2>3 DEF AddTask
    <3>2. {e \in Dirs : trav[e] = "add"}' = {e \in Dirs : trav[e] = "add"} \ {d}
      BY <3>1
    <3>3. trav[d] = "add" /\ \A e \in Dirs : trav[e] = "add" => pos[e] >= 1
      BY <1>4 DEF AddTask, Hands
    <3>4. \A e \in Dirs : trav[e] = "add" /\ Entry(e) = Entry(d) => e = d
      BY <3>3, EntriesDiffer
    <3> QED
      BY <1>4, <2>1, <2>3, <3>2, <3>4 DEF InHand
  <2> QED
    BY <2>2, <2>3
<1> QED
  BY <1>1, <1>2, <1>3, <1>4 DEF TraverseDirectory

\* A file that is about to be opened never was.
LEMMA Unopened ==
  ASSUME TypeOK, OpenedInOrder, NEW d \in Dirs, pos[d] >= 1, trav[d] = "entry", Entry(d) \in Files
  PROVE  fd[Entry(d)] = "unopened"
<1>1. pos[d] \in Positions(d)
  BY EntryType
<1> QED
  BY <1>1 DEF OpenedInOrder, Entry

LEMMA OwnershipStep ==
  ASSUME ControlInv, TraversalInv, TaskOwnership, OpenedInOrder, [Next]_vars
  PROVE  TaskOwnership'
<1> USE DEF ControlInv
<1>1. ASSUME fd' = fd, InHand' = InHand, UNCHANGED <<buffer, buffer_in, buffer_out>>,
             Copying' = Copying, \A w \in Copying : task'[w] = task[w]
      PROVE  TaskOwnership'
  <2>1. Occupied' = Occupied /\ Queued' = Queued /\ OpenFiles' = OpenFiles
    BY <1>1 DEF Occupied, Queued, OpenFiles
  <2>2. Copied' = Copied
    BY <1>1 DEF Copied
  <2> QED
    BY <1>1, <2>1, <2>2 DEF TaskOwnership
<1>2. ASSUME NEW d \in Dirs, TraverseDirectory(d) PROVE TaskOwnership'
  <2> DEFINE f == Entry(d)
  <2>1. Copying' = Copying /\ task' = task /\ Copied' = Copied
    BY <1>2, TraversalFrame DEF Copying, Copied
  <2>2. CASE OpenFile(d) /\ InHand' = InHand \cup {f}
    <3>1. f \in Files /\ fd[f] = "unopened" /\ fd' = [fd EXCEPT ![f] = "open"]
      BY <2>2, Unopened DEF OpenFile, Hands
    <3>2. OpenFiles' = OpenFiles \cup {f} /\ f \notin OpenFiles
      BY <3>1 DEF OpenFiles, TypeOK
    <3>3. UNCHANGED <<buffer, Occupied, Queued>>
      BY <2>2 DEF OpenFile, ringVars, Occupied, Queued
    <3> QED
      BY <2>1, <2>2, <3>2, <3>3 DEF TaskOwnership
  <2>3. CASE AddTask(d) /\ ~Full /\ InHand' = InHand \ {f}
    <3> DEFINE t == [file |-> f, filename |-> d]
    <3>1. PutTask(t) /\ fd' = fd
      BY <2>3 DEF AddTask
    <3>2. /\ buffer_in \in Slots \ Occupied /\ Occupied \subseteq Slots
          /\ Occupied' = Occupied \cup {buffer_in}
      BY <2>3, <3>1, RingPut, OccupiedSlots
    <3>3. buffer' = [buffer EXCEPT ![buffer_in] = t]
      BY <3>1 DEF PutTask
    <3>4. buffer'[buffer_in].file = f /\ \A i \in Occupied : buffer'[i] = buffer[i]
      BY <3>2, <3>3 DEF TypeOK
    <3>5. Queued' = Queued \cup {f}
      BY <3>2, <3>4 DEF Queued
    <3>6. f \in InHand
      BY <2>3 DEF AddTask, InHand
    <3>7. \A i, j \in Occupied' : buffer'[i].file = buffer'[j].file => i = j
      <4>1. \A i \in Occupied : buffer[i].file \in Queued
        BY DEF Queued
      <4> QED
        BY <3>2, <3>4, <3>6, <4>1 DEF TaskOwnership
    <3>8. OpenFiles' = OpenFiles
      BY <3>1 DEF OpenFiles
    <3> QED
      BY <2>1, <2>3, <3>5, <3>6, <3>7, <3>8 DEF TaskOwnership
  <2> QED
    BY <1>1, <1>2, <2>1, <2>2, <2>3, HandMoves
<1>3. ASSUME NEW w \in Workers, WorkerThread(w) PROVE TaskOwnership'
  <2>0. InHand' = InHand
    BY <1>3, WorkerFrame DEF InHand, Entry
  <2>1. CASE TakeTask(w)
    <3> DEFINE f == buffer[buffer_out].file
    <3>1. buffer_out \in Occupied /\ Occupied' = Occupied \ {buffer_out} /\ buffer' = buffer
      BY <2>1, RingTake DEF TakeTask
    <3>2. Copying = {}
      BY <2>1, OneCopier DEF TakeTask, Copying
    <3>3. Copying' = {w} /\ task'[w] = buffer[buffer_out]
      BY <2>1, <3>2 DEF TakeTask, Copying, TypeOK
    <3>4. Copied = {} /\ Copied' = {f}
      BY <3>2, <3>3 DEF Copied
    <3>5. f \in Queued /\ Queued' = Queued \ {f}
      BY <3>1 DEF Queued, TaskOwnership
    <3>6. OpenFiles' = OpenFiles
      BY <2>1 DEF TakeTask, OpenFiles
    <3> QED
      BY <2>0, <3>1, <3>3, <3>4, <3>5, <3>6 DEF TaskOwnership
  <2>2. CASE CloseTask(w)
    <3> DEFINE f == task[w].file
    <3>1. Copying = {w}
      BY <2>2, OneCopier DEF CloseTask, Copying
    <3>2. Copying' = {}
      BY <2>2, <3>1 DEF CloseTask, Copying, TypeOK
    <3>3. Copied = {f} /\ Copied' = {}
      BY <3>1, <3>2 DEF Copied
    <3>4. OpenFiles' = OpenFiles \ {f}
      BY <2>2 DEF CloseTask, OpenFiles, TypeOK
    <3>5. UNCHANGED <<buffer, Occupied, Queued>>
      BY <2>2 DEF CloseTask, ringVars, Occupied, Queued
    <3> QED
      BY <2>0, <3>2, <3>3, <3>4, <3>5 DEF TaskOwnership
  <2>3. CASE ~TakeTask(w) /\ ~CloseTask(w)
    <3>1. fd' = fd /\ task' = task /\ UNCHANGED <<buffer, buffer_in, buffer_out>>
      BY <1>3, <2>3 DEF WorkerThread, LockBuffer, DecideToWait, WaitNotEmpty, ExitWorker,
         CopyChunk, CopyError, CopyDone, poolVars, ringVars
    <3>2. Copying' = Copying
      BY <1>3, <2>3 DEF WorkerThread, LockBuffer, DecideToWait, WaitNotEmpty,
         ExitWorker, CopyChunk, CopyError, CopyDone, poolVars, Copying, TypeOK
    <3> QED
      BY <1>1, <2>0, <3>1, <3>2
  <2> QED
    BY <2>1, <2>2, <2>3
<1>4. CASE Other
  <2>1. Copying' = Copying
    BY <1>4, OtherFrame DEF Copying, TypeOK
  <2>2. InHand' = InHand
    <3>1. \A d \in Dirs : trav'[d] = "add" <=> trav[d] = "add"
      BY <1>4, OtherFrame DEF TraversalInv, NotStarted, TypeOK
    <3> QED
      BY <1>4, <3>1, OtherFrame, SameHands
  <2> QED
    BY <1>1, <1>4, <2>1, <2>2, OtherFrame
<1> QED
  BY <1>2, <1>3, <1>4, NextCases

LEMMA OpenedInOrderStep ==
  ASSUME ControlInv, TraversalInv, TaskOwnership, OpenedInOrder, [Next]_vars
  PROVE  OpenedInOrder'
<1> SUFFICES ASSUME NEW e \in Dirs, NEW i \in Positions(e), Listing[e][i] \in Files,
                    fd'[Listing[e][i]] # "unopened"
             PROVE  i <= pos'[e] /\ (i = pos'[e] => trav'[e] # "entry")
  BY DEF OpenedInOrder
<1> USE DEF ControlInv
<1> DEFINE f == Listing[e][i]
<1>0. i \in Nat /\ pos[e] \in Nat
  BY TreeAssumption DEF Positions, TypeOK
<1>1. fd[f] # "unopened" => i <= pos[e] /\ (i = pos[e] => trav[e] # "entry")
  BY DEF OpenedInOrder
<1>2. ASSUME NEW d \in Dirs, TraverseDirectory(d)
      PROVE  i <= pos'[e] /\ (i = pos'[e] => trav'[e] # "entry")
  <2>1. CASE OpenFile(d)
    <3>1. pos' = pos /\ trav' = [trav EXCEPT ![d] = "add"] /\ fd' = [fd EXCEPT ![Entry(d)] = "open"]
      BY <2>1 DEF OpenFile
    <3>2. CASE f = Entry(d)
      <4>1. pos[d] \in Positions(d)
        BY <2>1, EntryType DEF OpenFile, Hands
      <4>2. e = d /\ i = pos[d]
        BY <3>2, <4>1, TreeAssumption DEF Entry
      <4> QED
        BY <1>0, <3>1, <4>2 DEF TypeOK
    <3>3. CASE f # Entry(d)
      <4>1. fd'[f] = fd[f]
        BY <3>1, <3>3 DEF TypeOK
      <4>2. trav'[e] = "entry" => trav[e] = "entry"
        BY <3>1 DEF TypeOK
      <4> QED
        BY <1>1, <3>1, <4>1, <4>2
    <3> QED
      BY <3>2, <3>3
  <2>2. CASE ReadDir(d)
    <3>1. fd' = fd /\ i <= pos[e] /\ (i = pos[e] => trav[e] # "entry")
      BY <1>1, <2>2 DEF ReadDir
    <3>2. CASE pos' = [pos EXCEPT ![d] = @ + 1] /\ trav' = [trav EXCEPT ![d] = "entry"]
      <4>1. CASE e = d
        BY <1>0, <3>1, <3>2, <4>1 DEF TypeOK
      <4>2. CASE e # d
        BY <3>1, <3>2, <4>2 DEF TypeOK
      <4> QED
        BY <4>1, <4>2
    <3>3. CASE pos' = pos /\ trav' = [trav EXCEPT ![d] = "exited"]
      BY <3>1, <3>3 DEF TypeOK
    <3> QED
      BY <2>2, <3>2, <3>3 DEF ReadDir
  <2>3. CASE ~OpenFile(d) /\ ~ReadDir(d)
    <3>1. fd' = fd /\ pos' = pos
      BY <1>2, <2>3 DEF TraverseDirectory, OpenDir, SkipEntry, SpawnSubdir, JoinSubdir,
         AddTask, CountFile, CopyFifo, travVars
    <3>2. trav'[e] = "entry" => trav[e] = "entry"
      BY <1>2, <2>3 DEF TraverseDirectory, OpenDir, SkipEntry, SpawnSubdir, JoinSubdir,
         AddTask, CountFile, CopyFifo, TypeOK
    <3> QED
      BY <1>1, <3>1, <3>2
  <2> QED
    BY <2>1, <2>2, <2>3
<1>3. ASSUME NEW w \in Workers, WorkerThread(w)
      PROVE  i <= pos'[e] /\ (i = pos'[e] => trav'[e] # "entry")
  <2>1. pos' = pos /\ trav' = trav
    BY <1>3, WorkerFrame
  <2>2. CASE CloseTask(w)
    <3>1. fd' = [fd EXCEPT ![task[w].file] = "closed"]
      BY <2>2 DEF CloseTask
    <3>2. task[w].file \in OpenFiles
      BY <2>2 DEF CloseTask, TaskOwnership, Copied, Copying
    <3>3. fd[f] # "unopened"
      BY <3>1, <3>2 DEF OpenFiles, TypeOK
    <3> QED
      BY <1>1, <2>1, <3>3
  <2>3. CASE ~CloseTask(w)
    <3>1. fd' = fd
      BY <1>3, <2>3 DEF WorkerThread, LockBuffer, DecideToWait, WaitNotEmpty, ExitWorker,
         TakeTask, CopyChunk, CopyError, CopyDone
    <3> QED
      BY <1>1, <2>1, <3>1
  <2> QED
    BY <2>2, <2>3
<1>4. CASE Other
  <2>1. trav'[e] = "entry" => trav[e] = "entry"
    BY <1>4, OtherFrame DEF TypeOK
  <2> QED
    BY <1>1, <1>4, <2>1, OtherFrame
<1> QED
  BY <1>2, <1>3, <1>4, NextCases

LEMMA OwnershipInit == Init => TaskOwnership /\ OpenedInOrder
<1> SUFFICES ASSUME Init PROVE TaskOwnership /\ OpenedInOrder
  OBVIOUS
<1>1. Occupied = {}
  BY DEF Init, Occupied
<1>2. Queued = {} /\ InHand = {} /\ Copying = {} /\ Copied = {} /\ OpenFiles = {}
  BY <1>1 DEF Init, Queued, InHand, Copying, Copied, OpenFiles
<1>3. OpenedInOrder
  BY DEF Init, OpenedInOrder
<1> QED
  BY <1>1, <1>2, <1>3 DEF TaskOwnership

LEMMA OwnershipInvariant ==
  Spec => [](ControlInv /\ TraversalInv /\ TaskOwnership /\ OpenedInOrder)
<1> DEFINE IInv == ControlInv /\ TraversalInv /\ TaskOwnership /\ OpenedInOrder
<1>1. Init => IInv
  BY ControlInit, TraversalInit, OwnershipInit
<1>2. IInv /\ [Next]_vars => IInv'
  BY ControlStep, OneRunnableStep, NotStartedStep, OwnershipStep, OpenedInOrderStep
     DEF TraversalInv
<1> QED
  BY <1>1, <1>2, PTL DEF Spec

\* Every pair of open descriptors has exactly one owner, so that no file is
\* leaked, copied twice or closed twice, whatever the tree, the number of
\* workers and the size of the ring.
THEOREM EveryOpenFileOwned == Spec => []TaskOwnership
BY OwnershipInvariant, PTL

-----------------------------------------------------------------------------
(* The bound on open descriptors *)

LEMMA AtMostOne ==
  ASSUME NEW S, \A x, y \in S : x = y
  PROVE  IsFiniteSet(S) /\ Cardinality(S) \in 0 .. 1
<1>1. CASE S = {}
  BY <1>1, FS_EmptySet
<1>2. CASE S # {}
  <2>1. PICK x : S = {x}
    BY <1>2
  <2> QED
    BY <2>1, FS_Singleton
<1> QED
  BY <1>1, <1>2

LEMMA DisjointUnion ==
  ASSUME NEW S, NEW T, IsFiniteSet(S), IsFiniteSet(T), S \cap T = {}
  PROVE  IsFiniteSet(S \cup T) /\ Cardinality(S \cup T) = Cardinality(S) + Cardinality(T)
<1>1. Cardinality(S) \in Nat /\ Cardinality(T) \in Nat
  BY FS_CardinalityType
<1>2. Cardinality(S \cap T) = 0
  BY FS_EmptySet
<1>3. /\ IsFiniteSet(S \cup T)
      /\ Cardinality(S \cup T) = Cardinality(S) + Cardinality(T) - Cardinality(S \cap T)
  BY FS_Union
<1> QED
  BY <1>1, <1>2, <1>3

LEMMA QueueBound ==
  ASSUME TypeOK
  PROVE  IsFiniteSet(Queued) /\ Cardinality(Queued) \in 0 .. BufSize - 1
<1>0. /\ BufSize \in Nat \ {0} /\ Slots = 0 .. BufSize - 1
      /\ buffer_in \in Slots /\ buffer_out \in Slots
  BY ParameterAssumption DEF Slots, TypeOK
<1>1. Occupied \subseteq Slots \ {buffer_in}
  BY <1>0 DEF Occupied
<1>2. IsFiniteSet(Slots) /\ Cardinality(Slots) = BufSize
  BY <1>0, FS_Interval
<1>3. IsFiniteSet(Slots \ {buffer_in}) /\ Cardinality(Slots \ {buffer_in}) = BufSize - 1
  <2>1. buffer_in \in Slots
    BY <1>0
  <2> QED
    BY <1>2, <2>1, FS_RemoveElement
<1>4. IsFiniteSet(Occupied) /\ Cardinality(Occupied) <= BufSize - 1
  BY <1>1, <1>3, FS_Subset
<1>5. DEFINE g == [i \in Occupied |-> buffer[i].file]
<1>6. g \in Surjection(Occupied, Queued)
  BY DEF Surjection, Queued
<1>7. IsFiniteSet(Queued) /\ Cardinality(Queued) <= Cardinality(Occupied)
  BY <1>4, <1>6, FS_Surjection
<1>8. Cardinality(Queued) \in Nat /\ Cardinality(Occupied) \in Nat
  BY <1>4, <1>7, FS_CardinalityType
<1> QED
  BY <1>0, <1>4, <1>7, <1>8

LEMMA OpenBound ==
  ASSUME ControlInv, TraversalInv, TaskOwnership
  PROVE  DescriptorBound
<1> USE DEF ControlInv
<1>1. IsFiniteSet(InHand) /\ Cardinality(InHand) \in 0 .. 1
  <2>1. \A d, e \in Dirs : trav[d] = "add" /\ trav[e] = "add" => d = e
    BY DEF TraversalInv, OneRunnable, Runnable, Running
  <2>2. \A f, h \in InHand : f = h
    BY <2>1 DEF InHand
  <2> QED
    BY <2>2, AtMostOne
<1>2. IsFiniteSet(Copied) /\ Cardinality(Copied) \in 0 .. 1
  <2>1. \A v, w \in Copying : v = w
    BY OneCopier DEF Copying
  <2>2. \A f, h \in Copied : f = h
    BY <2>1 DEF Copied
  <2> QED
    BY <2>2, AtMostOne
<1>3. IsFiniteSet(Queued) /\ Cardinality(Queued) \in 0 .. BufSize - 1
  BY QueueBound
<1>4. /\ IsFiniteSet(InHand \cup Queued)
      /\ Cardinality(InHand \cup Queued) = Cardinality(InHand) + Cardinality(Queued)
  <2>1. InHand \cap Queued = {}
    BY DEF TaskOwnership
  <2> QED
    BY <1>1, <1>3, <2>1, DisjointUnion
<1>5. Cardinality(OpenFiles)
        = Cardinality(InHand) + Cardinality(Queued) + Cardinality(Copied)
  <2>1. (InHand \cup Queued) \cap Copied = {}
    BY DEF TaskOwnership
  <2>2. OpenFiles = (InHand \cup Queued) \cup Copied
    BY DEF TaskOwnership
  <2> QED
    BY <1>2, <1>4, <2>1, <2>2, DisjointUnion
<1> QED
  BY <1>1, <1>2, <1>3, <1>5, ParameterAssumption DEF DescriptorBound

\* Never more than buffer_size + 1 pairs of descriptors are open, however
\* many files the tree holds and however many workers the pool has.
THEOREM DescriptorsBounded == Spec => []DescriptorBound
BY OpenBound, OwnershipInvariant, PTL

-----------------------------------------------------------------------------
(* After "done" nobody traverses *)

Active(d) == trav[d] \notin {"none", "exited"}

\* p waits in pthread_join() for the thread of d.
Awaits(p, d) == trav[p] = "join" /\ Entry(p) = d

\* Every thread but the root's has a parent that waits for it.
HasParent == \A d \in Dirs \ {Root} : Active(d) => \E p \in Dirs : Awaits(p, d)

DoneAfterRoot == done => trav[Root] = "exited" /\ main # "start"

ParentInv == HasParent /\ DoneAfterRoot

LEMMA ChildIsDeeper ==
  ASSUME ControlInv, NEW p \in Dirs, NEW d \in Dirs, Awaits(p, d)
  PROVE  pos[p] >= 1 /\ Depth[d] = Depth[p] + 1 /\ d # Root /\ d # p
<1>1. pos[p] >= 1
  BY DEF ControlInv, Hands, Awaits
<1>2. pos[p] \in Positions(p)
  BY <1>1, EntryType DEF ControlInv
<1>3. Depth[p] \in Nat
  BY TreeAssumption
<1> QED
  BY <1>1, <1>2, <1>3, TreeAssumption DEF Awaits, Entry

\* When the root has exited all have: the least deep of those that had not
\* would have a parent that is less deep.
LEMMA NoOrphan ==
  ASSUME ControlInv, HasParent, trav[Root] = "exited", NEW d \in Dirs
  PROVE  ~Active(d)
<1> SUFFICES ASSUME Active(d) PROVE FALSE
  OBVIOUS
<1> DEFINE D == {Depth[e] : e \in {x \in Dirs : Active(x)}}
<1>1. D \in SUBSET Nat /\ D # {}
  BY TreeAssumption
<1>2. PICK n \in D : \A m \in D : n <= m
  BY <1>1, Least
<1>3. PICK e \in Dirs : Active(e) /\ Depth[e] = n
  BY <1>2
<1>4. e # Root
  BY <1>3 DEF Active
<1>5. PICK p \in Dirs : Awaits(p, e)
  BY <1>3, <1>4 DEF HasParent
<1>6. Depth[e] = Depth[p] + 1 /\ Depth[p] \in Nat
  BY <1>5, ChildIsDeeper, TreeAssumption
<1>7. Depth[p] \in D
  BY <1>5 DEF Active, Awaits
<1>8. n <= Depth[p]
  BY <1>2, <1>7
<1> QED
  BY <1>3, <1>6, <1>8

LEMMA HasParentStep ==
  ASSUME ControlInv, TraversalInv, HasParent, [Next]_vars
  PROVE  HasParent'
<1> USE DEF ControlInv
<1>1. ASSUME NEW d \in Dirs, TraverseDirectory(d) PROVE HasParent'
  <2> SUFFICES ASSUME NEW e \in Dirs \ {Root}, Active(e)' PROVE \E p \in Dirs : Awaits(p, e)'
    BY DEF HasParent
  <2>1. CASE SpawnSubdir(d)
    <3> DEFINE c == Entry(d)
    <3>1. trav' = [trav EXCEPT ![d] = "join", ![c] = "opendir"] /\ pos' = pos
          /\ c \in Dirs /\ c # d /\ trav[d] = "entry" /\ pos[d] >= 1
      BY <2>1, EntryIsDeeper DEF SpawnSubdir, Hands
    <3>2. \A p \in Dirs : Entry(p)' = Entry(p)
      BY <3>1 DEF Entry
    <3>3. CASE e = c
      <4>1. Awaits(d, e)'
        BY <3>1, <3>2, <3>3 DEF Awaits, TypeOK
      <4> QED
        BY <4>1
    <3>4. CASE e # c
      <4>1. Active(e)
        BY <3>1, <3>4 DEF Active, TypeOK
      <4>2. PICK p \in Dirs : Awaits(p, e)
        BY <4>1 DEF HasParent
      <4>3. p # d
        BY <3>1, <4>2 DEF Awaits
      <4>4. p # c
        <5>1. ASSUME p = c PROVE FALSE
          <6>1. trav[c] = "join"
            BY <4>2, <5>1 DEF Awaits
          <6>2. pos[d] \in Positions(d)
            BY <3>1, EntryType
          <6>3. c # Root
            BY <6>2, TreeAssumption DEF Entry
          <6>4. PICK q \in Dirs : Awaits(q, c)
            BY <3>1, <6>1, <6>3 DEF HasParent, Active
          <6>5. q = d
            BY <3>1, <6>4, ChildIsDeeper, EntriesDiffer DEF Awaits
          <6> QED
            BY <3>1, <6>4, <6>5 DEF Awaits
        <5> QED
          BY <5>1
      <4>5. Awaits(p, e)'
        BY <3>1, <3>2, <4>2, <4>3, <4>4 DEF Awaits, TypeOK
      <4> QED
        BY <4>5
    <3> QED
      BY <3>3, <3>4
  <2>2. ASSUME ~SpawnSubdir(d)
        PROVE  \E p \in Dirs : Awaits(p, e)'
    <3>1. PICK next \in TravStates :
            /\ trav' = [trav EXCEPT ![d] = next]
            /\ \A p \in Dirs \ {d} : pos'[p] = pos[p]
      BY <1>1, <2>2, TraversalMoves DEF TravStates
    <3>2. Active(e)
      <4>1. Active(d)
        BY <1>1, ActorRunnable DEF Runnable, Running, Active
      <4> QED
        BY <3>1, <4>1 DEF Active, TypeOK
    <3>3. PICK p \in Dirs : Awaits(p, e)
      BY <3>2 DEF HasParent
    <3>4. CASE p = d
      <4>1. Runnable(d)
        BY <1>1, ActorRunnable
      <4>2. trav[e] = "exited"
        BY <3>3, <3>4, <4>1 DEF Awaits, Runnable, Running
      <4> QED
        BY <3>2, <4>2 DEF Active
    <3>5. CASE p # d
      <4>1. Awaits(p, e)'
        BY <3>1, <3>3, <3>5 DEF Awaits, Entry, TypeOK
      <4> QED
        BY <4>1
    <3> QED
      BY <3>4, <3>5
  <2> QED
    BY <2>1, <2>2
<1>2. ASSUME NEW w \in Workers, WorkerThread(w) PROVE HasParent'
  BY <1>2, WorkerFrame DEF HasParent, Active, Awaits, Entry
<1>3. CASE Other
  <2>1. CASE trav' = trav
    BY <1>3, <2>1, OtherFrame DEF HasParent, Active, Awaits, Entry
  <2>2. CASE main = "start" /\ trav' = [trav EXCEPT ![Root] = "opendir"]
    <3>1. \A e \in Dirs \ {Root} : trav'[e] = "none"
      BY <2>2 DEF TypeOK, TraversalInv, NotStarted
    <3> QED
      BY <3>1 DEF HasParent, Active
  <2> QED
    BY <1>3, <2>1, <2>2, OtherFrame
<1> QED
  BY <1>1, <1>2, <1>3, NextCases

\* Who sets "done", and when.
LEMMA DoneFrame ==
  ASSUME Other
  PROVE  \/ done' = done
         \/ done' = TRUE /\ RootJoined /\ main = "spawn" /\ main' = "broadcast" /\ trav' = trav
BY DEF Other, MainThread, StartRoot, SpawnWorker, SetDone, Broadcast, Finish, Interrupt, SpuriousWakeup,
       vars, travVars

LEMMA DoneAfterRootStep ==
  ASSUME ControlInv, TraversalInv, ParentInv, [Next]_vars
  PROVE  DoneAfterRoot'
<1> USE DEF ControlInv, ParentInv, DoneAfterRoot
<1>1. ASSUME NEW d \in Dirs, TraverseDirectory(d) PROVE DoneAfterRoot'
  <2>1. done' = done /\ main' = main
    BY <1>1, TraversalFrame
  <2>2. CASE done
    <3>1. ~Active(d)
      BY <2>2, NoOrphan
    <3> QED
      BY <1>1, <3>1, ActorRunnable DEF Runnable, Running, Active
  <2> QED
    BY <2>1, <2>2
<1>2. ASSUME NEW w \in Workers, WorkerThread(w) PROVE DoneAfterRoot'
  BY <1>2, WorkerFrame
<1>3. CASE Other
  BY <1>3, OtherFrame, DoneFrame DEF RootJoined
<1> QED
  BY <1>1, <1>2, <1>3, NextCases

LEMMA ParentInvInit == Init => ParentInv
BY DEF Init, ParentInv, HasParent, DoneAfterRoot, Active

LEMMA ParentInvariant == Spec => [](ControlInv /\ TraversalInv /\ ParentInv)
<1>1. ControlInv /\ TraversalInv /\ ParentInv /\ [Next]_vars => ParentInv'
  BY HasParentStep, DoneAfterRootStep DEF ParentInv
<1> QED
  BY <1>1, SafeInvariant, ParentInvInit, PTL DEF Spec

\* After "done" the only threads that step are workers and main(): nothing is put
\* into the ring any more (lines 317, 560-564), for every tree.
THEOREM OnlyDrains == Spec => DrainsAfterDone
<1>1. ControlInv /\ TraversalInv /\ ParentInv /\ [Next]_vars
        => (done => UNCHANGED <<buffer, buffer_in>> /\ done')
  <2> SUFFICES ASSUME ControlInv, TraversalInv, ParentInv, [Next]_vars, done
               PROVE  UNCHANGED <<buffer, buffer_in>> /\ done'
    OBVIOUS
  <2>1. ASSUME NEW d \in Dirs, TraverseDirectory(d) PROVE FALSE
    BY <2>1, NoOrphan, ActorRunnable DEF ParentInv, DoneAfterRoot, Runnable, Running, Active
  <2>2. ASSUME NEW w \in Workers, WorkerThread(w) PROVE UNCHANGED <<buffer, buffer_in, done>>
    BY <2>2, WorkerFrame
  <2>3. CASE Other
    BY <2>3, OtherFrame, DoneFrame
  <2> QED
    BY <2>1, <2>2, <2>3, NextCases
<1>2. ControlInv /\ TraversalInv /\ ParentInv /\ [Next]_vars
        => [done => UNCHANGED <<buffer, buffer_in>> /\ done']_vars
  BY <1>1
<1> QED
  BY <1>2, ParentInvariant, PTL DEF Spec, DrainsAfterDone

-----------------------------------------------------------------------------
(* No signal is lost *)

\* A worker that will test the ring, or hold the mutex until it has copied.
Awake(w) == worker[w] \notin {"none", "exited", "wait"} /\ w \notin not_empty

\* Who sleeps, and why a worker stopped looking at the ring.
Sleepers ==
  /\ \A w \in not_empty : worker[w] = "lock"
  /\ \A d \in not_full : trav[d] = "add"
  /\ \A w \in Workers : worker[w] = "exited" => done
  /\ \A w \in Workers : worker[w] = "wait" => Empty

TasksAreSeen == ~Empty /\ (\E w \in Workers : worker[w] # "none") => \E w \in Workers : Awake(w)
RoomIsSeen == not_full # {} => Full \/ Copying # {}

SleepInv == Sleepers /\ TasksAreSeen /\ RoomIsSeen

\* Only one thread can be asleep for want of room, so a signal empties the set.
LEMMA OneSleeper ==
  ASSUME ControlInv, TraversalInv, Sleepers, NEW d \in not_full
  PROVE  /\ not_full = {d} /\ d \in Dirs
         /\ \A x \in AfterSignal(not_full) : x = {}
<1>1. \A e \in not_full : e \in Dirs /\ Runnable(e)
  BY DEF ControlInv, TypeOK, Sleepers, Runnable, Running
<1>2. not_full = {d}
  BY <1>1 DEF TraversalInv, OneRunnable
<1> QED
  BY <1>1, <1>2 DEF AfterSignal

\* The steps of a traversal thread that neither add nor try to.
LEMMA NoAdding ==
  ASSUME ControlInv, NEW d \in Dirs, TraverseDirectory(d), ~AddTask(d)
  PROVE  /\ UNCHANGED <<buffer_in, not_full, not_empty>>
         /\ \A e \in Dirs : trav[e] = "add" => e = d \/ trav'[e] = "add" \/ SpawnSubdir(d)
         /\ trav[d] # "add"
BY DEF TraverseDirectory, OpenDir, ReadDir, SkipEntry, SpawnSubdir, JoinSubdir, OpenFile,
       CountFile, CopyFifo, condVars, ringVars, ControlInv, TypeOK

LEMMA TraversalKeepsSleep ==
  ASSUME ControlInv, TraversalInv, ParentInv, SleepInv, NEW d \in Dirs, TraverseDirectory(d)
  PROVE  SleepInv'
<1> USE DEF ControlInv, SleepInv
<1>0. /\ UNCHANGED <<worker, task, buffer_mutex, buffer_out, done, Copying>>
      /\ \A e \in Dirs : e # d => ~Runnable(e)
  BY TraversalFrame, ActorRunnable DEF TraversalInv, OneRunnable, Copying
<1>1. CASE AddTask(d) /\ Full
  <2>1. UNCHANGED <<trav, buffer_in, not_empty>> /\ not_full' = not_full \cup {d} /\ trav[d] = "add"
    BY <1>1 DEF AddTask, ringVars
  <2>2. Sleepers' /\ TasksAreSeen'
    BY <1>0, <2>1 DEF Sleepers, TasksAreSeen, Awake, Empty
  <2>3. Full'
    BY <1>0, <1>1, <2>1 DEF Full, Next_
  <2> QED
    BY <2>2, <2>3 DEF RoomIsSeen
<1>2. CASE AddTask(d) /\ ~Full
  <2>1. /\ trav[d] = "add" /\ trav' = [trav EXCEPT ![d] = "added"] /\ d \notin not_full
        /\ not_full' = not_full /\ not_empty' \in AfterSignal(not_empty) /\ buffer_mutex = None
    BY <1>2 DEF AddTask, SignalNotEmpty
  <2>2. not_full = {}
    <3>1. \A e \in not_full : e \in Dirs /\ Runnable(e)
      BY DEF TypeOK, Sleepers, Runnable, Running
    <3> QED
      BY <1>0, <2>1, <3>1
  <2>3. ~done
    <3>1. Active(d)
      BY <2>1 DEF Active
    <3> QED
      BY <3>1, NoOrphan DEF ParentInv, DoneAfterRoot
  <2>4. \A w \in Workers : worker[w] \notin {"wait", "exited"}
    <3>1. \A w \in Workers : w # None
      BY ParameterAssumption
    <3> QED
      BY <2>1, <2>3, <3>1 DEF MutexHeld, Sleepers
  <2>5. not_empty' \subseteq not_empty /\ (not_empty # {} => \E t \in not_empty : t \notin not_empty')
    BY <2>1 DEF AfterSignal
  <2>6. Sleepers'
    BY <1>0, <2>1, <2>2, <2>4, <2>5 DEF Sleepers
  <2>7. TasksAreSeen'
    <3> SUFFICES ASSUME NEW v \in Workers, worker[v] # "none"
                 PROVE \E w \in Workers : Awake(w)'
      BY <1>0 DEF TasksAreSeen
    <3>1. CASE not_empty = {}
      <4>1. Awake(v)'
        BY <1>0, <2>4, <2>5, <3>1 DEF Awake
      <4> QED
        BY <4>1
    <3>2. CASE not_empty # {}
      <4>1. PICK t \in not_empty : t \notin not_empty'
        BY <2>5, <3>2
      <4>2. t \in Workers /\ Awake(t)'
        BY <1>0, <4>1 DEF Awake, Sleepers, TypeOK
      <4> QED
        BY <4>2
    <3> QED
      BY <3>1, <3>2
  <2> QED
    BY <2>1, <2>2, <2>6, <2>7 DEF RoomIsSeen
<1>3. CASE ~AddTask(d)
  <2>1. UNCHANGED <<buffer_in, not_full, not_empty>> /\ trav[d] # "add"
    BY <1>3, NoAdding
  <2>2. not_full = {}
    <3>1. \A e \in not_full : e \in Dirs /\ Runnable(e) /\ trav[e] = "add"
      BY DEF TypeOK, Sleepers, Runnable, Running
    <3> QED
      BY <1>0, <2>1, <3>1
  <2> QED
    BY <1>0, <2>1, <2>2 DEF Sleepers, TasksAreSeen, RoomIsSeen, Awake, Empty
<1> QED
  BY <1>1, <1>2, <1>3

LEMMA WorkerKeepsSleep ==
  ASSUME ControlInv, TraversalInv, SleepInv, NEW w \in Workers, WorkerThread(w)
  PROVE  SleepInv'
<1> USE DEF ControlInv, SleepInv, TypeOK, condVars, ringVars
<1>0. UNCHANGED <<trav, buffer_in, done>>
  BY WorkerFrame
<1>1. CASE LockBuffer(w)
  <2>1. /\ worker' = [worker EXCEPT ![w] = "check"] /\ w \notin not_empty
        /\ UNCHANGED <<not_full, not_empty, buffer_out>>
    BY <1>1 DEF LockBuffer
  <2>2. Awake(w)' /\ Copying' = Copying
    BY <1>1, <2>1 DEF Awake, Copying, LockBuffer
  <2> QED
    BY <1>0, <2>1, <2>2 DEF Sleepers, TasksAreSeen, RoomIsSeen, Empty, Full
<1>2. CASE DecideToWait(w)
  <2>1. /\ worker' = [worker EXCEPT ![w] = "wait"] /\ Empty /\ worker[w] = "check"
        /\ UNCHANGED <<not_full, not_empty, buffer_out>>
    BY <1>2 DEF DecideToWait
  <2>2. Empty' /\ Copying' = Copying
    BY <1>0, <2>1 DEF Copying, Empty
  <2> QED
    BY <1>0, <2>1, <2>2 DEF Sleepers, TasksAreSeen, RoomIsSeen, Full
<1>3. CASE WaitNotEmpty(w)
  <2>1. /\ worker' = [worker EXCEPT ![w] = "lock"] /\ worker[w] = "wait"
        /\ not_empty' = not_empty \cup {w} /\ UNCHANGED <<not_full, buffer_out>>
    BY <1>3 DEF WaitNotEmpty
  <2>2. Empty' /\ Copying' = Copying
    BY <1>0, <2>1 DEF Copying, Empty, Sleepers
  <2> QED
    BY <1>0, <2>1, <2>2 DEF Sleepers, TasksAreSeen, RoomIsSeen, Full
<1>4. CASE ExitWorker(w)
  <2>1. /\ worker' = [worker EXCEPT ![w] = "exited"] /\ Empty /\ worker[w] = "check" /\ done
        /\ UNCHANGED <<not_empty, buffer_out>> /\ not_full' \in AfterSignal(not_full)
    BY <1>4 DEF ExitWorker, SignalNotFull
  <2>2. Empty'
    BY <1>0, <2>1 DEF Empty
  <2>3. not_full' = {}
    <3>1. CASE not_full = {}
      BY <2>1, <3>1 DEF AfterSignal
    <3>2. CASE not_full # {}
      BY <2>1, <3>2, OneSleeper
    <3> QED
      BY <3>1, <3>2
  <2> QED
    BY <1>0, <2>1, <2>2, <2>3 DEF Sleepers, TasksAreSeen, RoomIsSeen
<1>5. CASE TakeTask(w)
  <2>1. /\ worker' = [worker EXCEPT ![w] = "copy"] /\ worker[w] = "check"
        /\ UNCHANGED <<not_full, not_empty>>
    BY <1>5 DEF TakeTask
  <2>2. Awake(w)' /\ w \in Copying'
    BY <2>1 DEF Awake, Copying, Sleepers
  <2>3. \A v \in Workers : worker'[v] # "wait"
    <3>1. buffer_mutex = w
      BY <2>1 DEF MutexHeld
    <3> QED
      BY <2>1, <3>1 DEF MutexHeld
  <2> QED
    BY <1>0, <2>1, <2>2, <2>3 DEF Sleepers, TasksAreSeen, RoomIsSeen
<1>6. CASE CopyChunk(w) \/ CopyError(w) \/ CopyDone(w)
  <2>1. /\ worker' = worker \/ worker' = [worker EXCEPT ![w] = "close"]
        /\ worker[w] = "copy" /\ UNCHANGED <<not_full, not_empty, buffer_out>>
    BY <1>6 DEF CopyChunk, CopyError, CopyDone, poolVars
  <2>2. Awake(w)' /\ w \in Copying'
    BY <2>1 DEF Awake, Copying, Sleepers
  <2> QED
    BY <1>0, <2>1, <2>2 DEF Sleepers, TasksAreSeen, RoomIsSeen, Empty
<1>7. CASE CloseTask(w)
  <2>1. /\ worker' = [worker EXCEPT ![w] = "lock"] /\ worker[w] = "close"
        /\ UNCHANGED <<not_empty, buffer_out>> /\ not_full' \in AfterSignal(not_full)
    BY <1>7 DEF CloseTask, SignalNotFull
  <2>2. Awake(w)'
    BY <2>1 DEF Awake, Sleepers
  <2>3. not_full' = {}
    <3>1. CASE not_full = {}
      BY <2>1, <3>1 DEF AfterSignal
    <3>2. CASE not_full # {}
      BY <2>1, <3>2, OneSleeper
    <3> QED
      BY <3>1, <3>2
  <2> QED
    BY <1>0, <2>1, <2>2, <2>3 DEF Sleepers, TasksAreSeen, RoomIsSeen, Empty
<1> QED
  BY <1>1, <1>2, <1>3, <1>4, <1>5, <1>6, <1>7 DEF WorkerThread

LEMMA OtherKeepsSleep ==
  ASSUME ControlInv, TraversalInv, SleepInv, Other
  PROVE  SleepInv'
<1> USE DEF ControlInv, SleepInv, TypeOK
<1>0. UNCHANGED <<buffer_in, buffer_out>>
  BY OtherFrame
<1>1. not_full' \subseteq not_full /\ not_empty' \subseteq not_empty
  BY DEF Other, MainThread, StartRoot, SpawnWorker, SetDone, Broadcast, Finish, Interrupt,
         SpuriousWakeup, vars, condVars
<1>2. \A d \in Dirs : trav[d] = "add" => trav'[d] = "add"
  BY OtherFrame DEF TraversalInv, NotStarted
<1>3. /\ done => done'
      /\ \A v \in Workers : worker'[v] # worker[v] => worker[v] = "none" /\ worker'[v] = "lock"
  BY OtherFrame, DoneFrame
<1>4. Sleepers'
  BY <1>0, <1>1, <1>2, <1>3 DEF Sleepers, Empty
<1>5. TasksAreSeen'
  <2>1. \A v \in Workers : Awake(v) => Awake(v)'
    BY <1>1, <1>3 DEF Awake
  <2>2. \A v \in Workers : worker'[v] # worker[v] => Awake(v)'
    BY <1>1, <1>3 DEF Awake, Sleepers
  <2> QED
    BY <1>0, <2>1, <2>2 DEF TasksAreSeen, Empty
<1>6. RoomIsSeen'
  <2>1. Copying' = Copying
    BY <1>3 DEF Copying
  <2> QED
    BY <1>0, <1>1, <2>1 DEF RoomIsSeen, Full
<1> QED
  BY <1>4, <1>5, <1>6

LEMMA SleepInvInit == Init => SleepInv
BY DEF Init, SleepInv, Sleepers, TasksAreSeen, RoomIsSeen

\* For every tree, ring and pool, with and without spurious wakeups: no worker
\* sleeps over a task, no traversal thread over room in the ring (lines
\* 313-314, 324, 385-394).
THEOREM SignalsArrive == Spec => []NoSignalLost
<1>1. ControlInv /\ TraversalInv /\ ParentInv /\ SleepInv /\ [Next]_vars => SleepInv'
  BY NextCases, TraversalKeepsSleep, WorkerKeepsSleep, OtherKeepsSleep
<1>2. SleepInv => NoSignalLost
  BY DEF SleepInv, TasksAreSeen, RoomIsSeen, NoSignalLost, Awake
<1> QED
  BY <1>1, <1>2, ParentInvariant, SleepInvInit, PTL DEF Spec

-----------------------------------------------------------------------------
(* A closed file is complete or reported *)

Said(f) == \E n \in Entries : <<f, n>> \in errors
ReadAll(f) == src_off[f] = Size[f] \/ Said(f)

\* What was read was written, unless a write() was short.
Agrees(f) ==
  /\ dest_len[f] <= src_off[f] /\ src_off[f] <= Size[f]
  /\ f \in cut => dest_len[f] < src_off[f]
  /\ f \notin cut => dest_len[f] = src_off[f]

\* A worker closes a file when it has read all of it or has said that it could not.
CopyInv ==
  /\ \A f \in Files : Said(f) \/ Agrees(f)
  /\ \A w \in Workers : worker[w] = "close" => ReadAll(task[w].file)
  /\ \A f \in Files : fd[f] = "closed" => ReadAll(f)

LEMMA CopyInvStep ==
  ASSUME ControlInv, TraversalInv, TaskOwnership, CopyInv, [Next]_vars
  PROVE  CopyInv'
<1> USE DEF ControlInv, TypeOK
<1>1. ASSUME UNCHANGED <<src_off, dest_len, errors, cut, task>>,
             \A f \in Files : fd'[f] = "closed" => fd[f] = "closed",
             \A w \in Workers : worker'[w] = "close" => worker[w] = "close"
      PROVE  CopyInv'
  BY <1>1 DEF CopyInv, ReadAll, Said, Agrees
<1>2. ASSUME NEW d \in Dirs, TraverseDirectory(d) PROVE CopyInv'
  <2>1. UNCHANGED <<src_off, dest_len, errors, cut>>
    BY <1>2 DEF TraverseDirectory, OpenDir, ReadDir, SkipEntry, SpawnSubdir, JoinSubdir, OpenFile,
       AddTask, CountFile, CopyFifo, copyVars
  <2>2. \A f \in Files : fd'[f] = "closed" => fd[f] = "closed"
    BY <1>2 DEF TraverseDirectory, OpenDir, ReadDir, SkipEntry, SpawnSubdir, JoinSubdir, OpenFile,
       AddTask, CountFile, CopyFifo
  <2> QED
    BY <1>1, <1>2, <2>1, <2>2, TraversalFrame
<1>3. ASSUME NEW w \in Workers, WorkerThread(w) PROVE CopyInv'
  <2> DEFINE f == task[w].file
  <2>1. CASE LockBuffer(w) \/ DecideToWait(w) \/ WaitNotEmpty(w) \/ ExitWorker(w)
    BY <1>1, <2>1 DEF LockBuffer, DecideToWait, WaitNotEmpty, ExitWorker, copyVars
  <2>2. CASE TakeTask(w)
    <3>1. UNCHANGED <<src_off, dest_len, errors, cut, fd>>
          /\ \A v \in Workers : worker'[v] = "close" => worker[v] = "close" /\ task'[v] = task[v]
      BY <2>2 DEF TakeTask, copyVars
    <3> QED
      BY <3>1 DEF CopyInv, ReadAll, Said, Agrees
  <2>3. CASE CopyChunk(w)
    <3> DEFINE n == Chunk(f)
    <3>1. PICK written \in IF ShortWrites THEN 1 .. n ELSE {n} :
            /\ src_off' = [src_off EXCEPT ![f] = @ + n] /\ dest_len' = [dest_len EXCEPT ![f] = @ + written]
            /\ cut' = cut \cup (IF written < n THEN {f} ELSE {})
            /\ UNCHANGED <<errors, worker, task, fd>> /\ worker[w] = "copy" /\ src_off[f] < Size[f]
      BY <2>3 DEF CopyChunk, poolVars
    <3>2. f \in Files /\ f \in Copied
      BY <3>1 DEF WorkerTasks, Copying, Copied, GoodTask, Task
    <3>3. n \in Nat /\ src_off[f] + n <= Size[f] /\ written \in Nat /\ written <= n
      <4>1. Size[f] \in Nat /\ src_off[f] \in Nat /\ ChunkSize \in Nat
        BY <3>2, ParameterAssumption
      <4>2. n \in Nat /\ src_off[f] + n <= Size[f]
        BY <3>1, <4>1 DEF Chunk
      <4> HIDE DEF n
      <4> QED
        BY <3>1, <4>2
    <3> HIDE DEF n
    <3>4. \A g \in Files : (Said(g) \/ Agrees(g))'
      <4>1. ASSUME NEW g \in Files, ~Said(g)' PROVE Agrees(g)'
        <5>1. Agrees(g) /\ dest_len[g] \in Nat /\ src_off[g] \in Nat
          BY <3>1, <4>1 DEF CopyInv, Said
        <5>2. CASE g = f
          BY <3>1, <3>2, <3>3, <5>1, <5>2 DEF Agrees
        <5>3. CASE g # f
          BY <3>1, <5>1, <5>3 DEF Agrees
        <5> QED
          BY <5>2, <5>3
      <4> QED
        BY <4>1
    <3>5. fd[f] = "open"
      BY <3>2 DEF TaskOwnership, OpenFiles
    <3>6. \A g \in Files : fd[g] = "closed" => src_off'[g] = src_off[g]
      BY <3>1, <3>5
    <3>7. \A v \in Workers : worker[v] # "close"
      <4>1. buffer_mutex = w
        BY <3>1 DEF MutexHeld
      <4> QED
        BY <3>1, <4>1 DEF MutexHeld
    <3> QED
      BY <3>1, <3>4, <3>6, <3>7 DEF CopyInv, ReadAll, Said
  <2>4. CASE CopyError(w)
    <3>1. PICK name \in NamesSeen(task[w]) : errors' = errors \cup {<<f, name>>}
      BY <2>4 DEF CopyError
    <3>2. /\ UNCHANGED <<dest_len, cut, task, fd>> /\ worker[w] = "copy"
          /\ \A g \in Files \ {f} : src_off'[g] = src_off[g]
          /\ \A v \in Workers : worker'[v] = "close" => v = w \/ worker[v] = "close"
      BY <2>4 DEF CopyError
    <3>3. name \in Entries
      <4>1. GoodTask(task[w])
        BY <3>2 DEF WorkerTasks, Copying
      <4>2. NamesSeen(task[w]) \subseteq Entries
        BY <4>1, EntryType DEF NamesSeen, GoodTask, Task
      <4> QED
        BY <4>2
    <3>4. Said(f)' /\ \A g \in Files : Said(g) => Said(g)'
      <4>1. <<f, name>> \in errors' /\ errors \subseteq errors'
        BY <3>1
      <4> QED
        BY <3>2, <3>3, <4>1 DEF Said
    <3>5. \A g \in Files \ {f} : (Agrees(g) => Agrees(g)') /\ (ReadAll(g) => ReadAll(g)')
      BY <3>2, <3>4 DEF Agrees, ReadAll
    <3>6. \A v \in Workers : worker[v] = "close" => task[v].file \in Files
      BY DEF WorkerTasks, Copying, GoodTask, Task
    <3> QED
      BY <3>2, <3>4, <3>5, <3>6 DEF CopyInv, ReadAll
  <2>5. CASE CopyDone(w)
    BY <2>5 DEF CopyDone, EndOfFile, copyVars, CopyInv, ReadAll, Said, Agrees
  <2>6. CASE CloseTask(w)
    <3>1. /\ UNCHANGED <<src_off, dest_len, errors, cut>> /\ worker[w] = "close"
          /\ fd' = [fd EXCEPT ![f] = "closed"]
          /\ \A v \in Workers : worker'[v] = "close" => worker[v] = "close" /\ task'[v] = task[v]
      BY <2>6 DEF CloseTask, copyVars
    <3> QED
      BY <3>1 DEF CopyInv, ReadAll, Said, Agrees
  <2> QED
    BY <1>3, <2>1, <2>2, <2>3, <2>4, <2>5, <2>6 DEF WorkerThread
<1>4. CASE Other
  <2>1. UNCHANGED <<src_off, dest_len, errors, cut>>
    BY <1>4 DEF Other, MainThread, StartRoot, SpawnWorker, SetDone, Broadcast, Finish, Interrupt,
       SpuriousWakeup, vars, copyVars
  <2> QED
    BY <1>1, <1>4, <2>1, OtherFrame
<1> QED
  BY <1>2, <1>3, <1>4, NextCases

LEMMA CopyInvInit == Init => CopyInv
BY ParameterAssumption DEF Init, CopyInv, Agrees

\* Whatever the sizes of the files and of the buffer: a file that was closed without
\* a message is complete, unless one of its write() was short, which nobody is told
\* of (lines 417-435).
THEOREM ClosedMeansCopied == Spec => []CompleteOrReported
<1>1. ControlInv /\ TraversalInv /\ TaskOwnership /\ CopyInv /\ [Next]_vars => CopyInv'
  BY CopyInvStep
<1>2. CopyInv /\ ControlInv => CompleteOrReported
  BY ParameterAssumption DEF CopyInv, ReadAll, Said, Agrees, CompleteOrReported, ControlInv, TypeOK
<1> QED
  BY <1>1, <1>2, OwnershipInvariant, CopyInvInit, PTL DEF Spec

-----------------------------------------------------------------------------
(* The report *)

\* A file whose type is counted and that is not counted itself yet.
Uncounted(d) == trav[d] \in {"add", "added"}
Pending == IF \E d \in Dirs : Uncounted(d) THEN 1 ELSE 0

SumsInv ==
  /\ bytes_copied = SumFunctionOnSet(dest_len, Files)
  /\ SumFunctionOnSet(file_types, Types) = regular_files + fifos_copied + Pending

\* Workers leave when "done" is set and the ring is empty, main() when they have left.
LeftInv ==
  /\ main \in {"broadcast", "join", "finished"} => done
  /\ \A w \in Workers : worker[w] = "exited" => done /\ Empty
  /\ main = "finished" => \A w \in Workers : worker[w] = "exited"

\* One traversal thread moves at a time, and only it can have a file uncounted.
LEMMA PendingMoves ==
  ASSUME ControlInv, TraversalInv, NEW d \in Dirs, TraverseDirectory(d)
  PROVE  /\ Pending = IF Uncounted(d) THEN 1 ELSE 0
         /\ Pending' = IF Uncounted(d)' THEN 1 ELSE 0
<1>1. \A e \in Dirs \ {d} : ~Uncounted(e)
  BY ActorRunnable DEF TraversalInv, OneRunnable, Runnable, Running, Uncounted
<1>2. \A e \in Dirs \ {d} : trav'[e] \in {trav[e], "opendir"}
  <2>1. trav \in [Dirs -> TravStates]
    BY DEF ControlInv, TypeOK
  <2>2. SpawnSubdir(d) => \A e \in Dirs \ {d} : trav'[e] \in {trav[e], "opendir"}
    BY <2>1 DEF SpawnSubdir
  <2> QED
    BY <2>1, <2>2, TraversalMoves
<1> QED
  BY <1>1, <1>2 DEF Pending, Uncounted

\* A type is counted by the thread that then has a file uncounted, or counts a FIFO.
LEMMA TypeCounted ==
  ASSUME ControlInv, NEW t \in Types, IsFiniteSet(Types),
         file_types' = [file_types EXCEPT ![t] = @ + 1]
  PROVE  /\ SumFunctionOnSet(file_types, Types) \in Int
         /\ SumFunctionOnSet(file_types', Types) = SumFunctionOnSet(file_types, Types) + 1
<1>1. file_types \in [Types -> Int] /\ file_types' \in [Types -> Int] /\ Types \subseteq Types
      /\ file_types'[t] = file_types[t] + 1 /\ \A x \in Types \ {t} : file_types'[x] = file_types[x]
  BY DEF ControlInv, TypeOK
<1>2. SumFunctionOnSet(file_types, Types) \in Int
  BY <1>1, SumIsInteger
<1>3. SumFunctionOnSet(file_types', Types)
        = SumFunctionOnSet(file_types, Types) + (IF t \in Types THEN 1 ELSE 0)
  <2>1. 1 \in Int /\ t \in Types /\ IsFiniteSet(Types)
    OBVIOUS
  <2> QED
    BY ONLY <1>1, <2>1, SumUpdated
<1> QED
  BY <1>2, <1>3

LEMMA TraversalKeepsSums ==
  ASSUME IsFiniteSet(Types), ControlInv, TraversalInv, SumsInv, NEW d \in Dirs, TraverseDirectory(d)
  PROVE  SumsInv'
<1>1. UNCHANGED <<bytes_copied, dest_len>>
  BY DEF TraverseDirectory, OpenDir, ReadDir, SkipEntry, SpawnSubdir, JoinSubdir, OpenFile,
     AddTask, CountFile, CopyFifo, copyVars
<1>2. trav \in [Dirs -> TravStates] /\ regular_files \in Nat /\ fifos_copied \in Nat
  BY DEF ControlInv, TypeOK
<1> DEFINE sum == SumFunctionOnSet(file_types, Types)
           all == regular_files + fifos_copied
<1>3. sum = all + Pending
  BY DEF SumsInv
<1>4. sum' = all' + Pending'
  <2>1. CASE OpenDir(d) \/ ReadDir(d) \/ SkipEntry(d) \/ SpawnSubdir(d) \/ JoinSubdir(d) \/ AddTask(d)
    <3>1. UNCHANGED <<file_types, regular_files, fifos_copied>>
      BY <2>1 DEF OpenDir, ReadDir, SkipEntry, SpawnSubdir, JoinSubdir, AddTask, statVars
    <3>2. Uncounted(d)' <=> Uncounted(d)
      BY <1>2, <2>1 DEF OpenDir, ReadDir, SkipEntry, SpawnSubdir, JoinSubdir, AddTask, Uncounted
    <3> QED
      BY <1>3, <3>1, <3>2, PendingMoves
  <2>2. CASE OpenFile(d)
    <3>1. /\ ~Uncounted(d) /\ Uncounted(d)' /\ UNCHANGED <<regular_files, fifos_copied>>
          /\ Entry(d) \in Files /\ file_types' = [file_types EXCEPT ![FileType[Entry(d)]] = @ + 1]
      BY <1>2, <2>2 DEF OpenFile, Uncounted
    <3>2. sum \in Int /\ sum' = sum + 1
      BY <3>1, TypeCounted, ParameterAssumption
    <3> QED
      BY <1>2, <1>3, <3>1, <3>2, PendingMoves
  <2>3. CASE CountFile(d)
    <3>1. /\ Uncounted(d) /\ ~Uncounted(d)' /\ UNCHANGED <<file_types, fifos_copied>>
          /\ regular_files' = regular_files + 1
      BY <1>2, <2>3 DEF CountFile, Uncounted
    <3> QED
      BY <1>2, <1>3, <3>1, PendingMoves
  <2>4. CASE CopyFifo(d)
    <3>1. /\ ~Uncounted(d) /\ ~Uncounted(d)' /\ UNCHANGED regular_files
          /\ fifos_copied' = fifos_copied + 1
          /\ file_types' = [file_types EXCEPT ![FifoType] = @ + 1]
      BY <1>2, <2>4 DEF CopyFifo, Uncounted
    <3>2. sum \in Int /\ sum' = sum + 1
      BY <3>1, TypeCounted, ParameterAssumption
    <3> QED
      BY <1>2, <1>3, <3>1, <3>2, PendingMoves
  <2> QED
    BY <2>1, <2>2, <2>3, <2>4 DEF TraverseDirectory
<1> QED
  BY <1>1, <1>4 DEF SumsInv

LEMMA SumsInvStep ==
  ASSUME IsFiniteSet(Files), IsFiniteSet(Types), ControlInv, TraversalInv, SumsInv, [Next]_vars
  PROVE  SumsInv'
<1>1. ASSUME UNCHANGED <<dest_len, bytes_copied, statVars>>, \A d \in Dirs : Uncounted(d)' <=> Uncounted(d)
      PROVE  SumsInv'
  BY <1>1 DEF SumsInv, Pending, statVars
<1>2. ASSUME NEW w \in Workers, WorkerThread(w) PROVE SumsInv'
  <2>1. trav' = trav
    BY <1>2, WorkerFrame
  <2>2. CASE CopyChunk(w)
    <3> DEFINE f == task[w].file
    <3>1. PICK n \in Int : dest_len' = [dest_len EXCEPT ![f] = @ + n] /\ bytes_copied' = bytes_copied + n
      <4>1. f \in Files
        BY <2>2 DEF CopyChunk, ControlInv, WorkerTasks, Copying, GoodTask, Task
      <4>2. Size[f] \in Nat /\ src_off[f] \in Nat /\ ChunkSize \in Nat
        BY <4>1, ParameterAssumption DEF ControlInv, TypeOK
      <4> DEFINE n == Chunk(f)
      <4>3. (IF ShortWrites THEN 1 .. n ELSE {n}) \subseteq Int
        BY <4>2 DEF Chunk
      <4>4. \E written \in IF ShortWrites THEN 1 .. n ELSE {n} :
              dest_len' = [dest_len EXCEPT ![f] = @ + written] /\ bytes_copied' = bytes_copied + written
        BY <2>2 DEF CopyChunk
      <4> HIDE DEF n
      <4> QED
        BY <4>3, <4>4
    <3>2. f \in Files /\ statVars' = statVars
      BY <2>2 DEF CopyChunk, ControlInv, WorkerTasks, Copying, GoodTask, Task
    <3>3. /\ dest_len \in [Files -> Int] /\ dest_len' \in [Files -> Int] /\ Files \subseteq Files
          /\ dest_len'[f] = dest_len[f] + n /\ \A x \in Files \ {f} : dest_len'[x] = dest_len[x]
      BY <3>1, <3>2 DEF ControlInv, TypeOK
    <3>4. SumFunctionOnSet(dest_len', Files) = SumFunctionOnSet(dest_len, Files) + n
      BY <3>2, <3>3, SumUpdated
    <3> QED
      BY <2>1, <3>1, <3>2, <3>4 DEF SumsInv, Pending, Uncounted, statVars
  <2>3. CASE ~CopyChunk(w)
    <3>1. UNCHANGED <<dest_len, bytes_copied, statVars>>
      BY <1>2, <2>3 DEF WorkerThread, LockBuffer, DecideToWait, WaitNotEmpty, ExitWorker, TakeTask,
         CopyError, CopyDone, CloseTask, copyVars, statVars
    <3> QED
      BY <1>1, <2>1, <3>1 DEF Uncounted
  <2> QED
    BY <2>2, <2>3
<1>3. CASE Other
  <2>1. UNCHANGED <<dest_len, bytes_copied, statVars>>
    BY <1>3 DEF Other, MainThread, StartRoot, SpawnWorker, SetDone, Broadcast, Finish, Interrupt,
       SpuriousWakeup, vars, copyVars, statVars
  <2>2. trav' = trav \/ (trav[Root] = "none" /\ trav' = [trav EXCEPT ![Root] = "opendir"])
    BY <1>3, OtherFrame, TreeAssumption DEF TraversalInv, NotStarted
  <2>3. \A d \in Dirs : Uncounted(d)' <=> Uncounted(d)
    BY <2>2 DEF Uncounted, ControlInv, TypeOK
  <2> QED
    BY <1>1, <2>1, <2>3
<1> QED
  BY <1>2, <1>3, NextCases, TraversalKeepsSums

LEMMA LeftInvStep ==
  ASSUME ControlInv, TraversalInv, ParentInv, LeftInv, [Next]_vars
  PROVE  LeftInv'
<1> USE DEF LeftInv
<1>1. ASSUME NEW d \in Dirs, TraverseDirectory(d) PROVE LeftInv'
  <2>1. ~done
    BY <1>1, NoOrphan, ActorRunnable DEF ParentInv, DoneAfterRoot, Runnable, Running, Active
  <2> QED
    BY <1>1, <2>1, TraversalFrame
<1>2. ASSUME NEW w \in Workers, WorkerThread(w) PROVE LeftInv'
  <2>1. UNCHANGED <<main, done>> /\ main # "finished"
    BY <1>2, WorkerFrame DEF WorkerThread, LockBuffer, DecideToWait, WaitNotEmpty, ExitWorker, TakeTask,
         CopyChunk, CopyError, CopyDone, CloseTask, Alive
  <2>2. CASE TakeTask(w)
    BY <2>1, <2>2 DEF TakeTask, ControlInv, TypeOK
  <2>3. CASE ExitWorker(w)
    BY <2>1, <2>3 DEF ExitWorker, ControlInv, TypeOK, Empty, ringVars
  <2>4. CASE ~TakeTask(w) /\ ~ExitWorker(w)
    <3>1. /\ UNCHANGED <<buffer_in, buffer_out>>
          /\ \A v \in Workers : worker'[v] = "exited" => worker[v] = "exited"
      BY <1>2, <2>4 DEF WorkerThread, LockBuffer, DecideToWait, WaitNotEmpty, CopyChunk, CopyError,
         CopyDone, CloseTask, ringVars, poolVars, ControlInv, TypeOK
    <3> QED
      BY <2>1, <3>1 DEF Empty
  <2> QED
    BY <2>2, <2>3, <2>4
<1>3. CASE Other
  <2>1. UNCHANGED <<buffer_in, buffer_out>> /\ \A v \in Workers : worker'[v] = "exited" => worker[v] = "exited"
    BY <1>3, OtherFrame DEF ControlInv, TypeOK
  <2>2. done => done'
    BY <1>3, DoneFrame
  <2>3. \/ main' = main
        \/ main' \in {"spawn", "killed"}
        \/ main = "spawn" /\ main' = "broadcast" /\ done'
        \/ main = "broadcast" /\ main' = "join"
        \/ main = "join" /\ main' = "finished" /\ \A w \in Workers : worker'[w] = "exited"
    BY <1>3 DEF Other, MainThread, StartRoot, SpawnWorker, SetDone, Broadcast, Finish, Interrupt,
       SpuriousWakeup, vars, poolVars
  <2>4. main = "finished" => worker' = worker
    BY <1>3 DEF Other, MainThread, StartRoot, SpawnWorker, SetDone, Broadcast, Finish, Interrupt,
       SpuriousWakeup, vars, poolVars, Alive
  <2> QED
    BY <2>1, <2>2, <2>3, <2>4 DEF Empty
<1> QED
  BY <1>1, <1>2, <1>3, NextCases

LEMMA ReportInit ==
  ASSUME IsFiniteSet(Files), IsFiniteSet(Types)
  PROVE  Init => SumsInv /\ LeftInv
<1> SUFFICES ASSUME Init PROVE SumsInv /\ LeftInv
  OBVIOUS
<1>1. SumFunctionOnSet(dest_len, Files) = 0 /\ SumFunctionOnSet(file_types, Types) = 0
  <2>1. Files \subseteq Files /\ Types \subseteq Types
    OBVIOUS
  <2> QED
    BY <2>1, SumOfZeros DEF Init
<1> QED
  BY <1>1 DEF Init, SumsInv, LeftInv, Pending, Uncounted

\* For every finite tree, every ring and pool, whatever fails on the way: what main()
\* reports is what was done, and nothing is left open or queued (lines 567-606).
THEOREM ReportIsTrue ==
  ASSUME IsFiniteSet(Files), IsFiniteSet(Types)
  PROVE  Spec => []FinalReport
<1>1. ControlInv /\ TraversalInv /\ SumsInv /\ [Next]_vars => SumsInv'
  BY SumsInvStep
<1>2. ControlInv /\ TraversalInv /\ ParentInv /\ LeftInv /\ [Next]_vars => LeftInv'
  BY LeftInvStep
<1>3. ControlInv /\ ParentInv /\ TaskOwnership /\ SumsInv /\ LeftInv => FinalReport
  <2> SUFFICES ASSUME ControlInv, ParentInv, TaskOwnership, SumsInv, LeftInv, main = "finished"
               PROVE  /\ Workers # {} => OpenFiles = {} /\ Empty
                      /\ \A d \in Dirs : trav[d] \in {"none", "exited"}
                      /\ bytes_copied = SumFunction(dest_len)
                      /\ SumFunction(file_types) = regular_files + fifos_copied
    BY DEF FinalReport
  <2>1. \A d \in Dirs : trav[d] \in {"none", "exited"}
    BY NoOrphan DEF LeftInv, ParentInv, DoneAfterRoot, Active
  <2>2. ASSUME Workers # {} PROVE OpenFiles = {} /\ Empty
    <3>1. Empty /\ \A w \in Workers : worker[w] = "exited"
      BY <2>2 DEF LeftInv
    <3>2. Queued = {}
      BY <3>1 DEF Queued, Occupied, Empty, ControlInv, TypeOK, Slots
    <3>3. InHand = {} /\ Copied = {}
      BY <2>1, <3>1 DEF InHand, Copied, Copying
    <3> QED
      BY <3>1, <3>2, <3>3 DEF TaskOwnership
  <2>3. Pending = 0
    BY <2>1 DEF Pending, Uncounted
  <2>4. DOMAIN dest_len = Files /\ DOMAIN file_types = Types
        /\ regular_files \in Nat /\ fifos_copied \in Nat
    BY DEF ControlInv, TypeOK
  <2> QED
    BY <2>1, <2>2, <2>3, <2>4 DEF SumsInv, SumFunction
<1> QED
  BY <1>1, <1>2, <1>3, ParentInvariant, OwnershipInvariant, ReportInit, PTL DEF Spec

-----------------------------------------------------------------------------
(* The ring as a sequence *)

\* The slots from o up to i, how many they are, and the one that is number k.
Span(o, i) == IF o <= i THEN o .. i - 1 ELSE Slots \ (i .. o - 1)
Count(o, i) == IF o <= i THEN i - o ELSE i - o + BufSize
SlotNo(o, k) == (o + k - 1) % BufSize

LEMMA SlotsAre ==
  BufSize \in Nat \ {0} /\ Slots = 0 .. BufSize - 1
BY ParameterAssumption DEF Slots

LEMMA Wrap ==
  ASSUME NEW o \in Slots, NEW k \in 1 .. BufSize
  PROVE  SlotNo(o, k) = IF o + k - 1 < BufSize THEN o + k - 1 ELSE o + k - 1 - BufSize
<1>1. BufSize \in Nat \ {0} /\ o \in Nat /\ o < BufSize /\ k \in Nat /\ 1 <= k /\ k <= BufSize
  BY SlotsAre
<1>2. CASE o + k - 1 < BufSize
  BY <1>1, <1>2 DEF SlotNo
<1>3. CASE ~(o + k - 1 < BufSize)
  BY <1>1, <1>3 DEF SlotNo
<1> QED
  BY <1>2, <1>3

LEMMA CountSpan ==
  ASSUME NEW o \in Slots, NEW i \in Slots
  PROVE  Count(o, i) \in 0 .. BufSize - 1 /\ Cardinality(Span(o, i)) = Count(o, i)
<1>1. BufSize \in Nat \ {0} /\ o \in 0 .. BufSize - 1 /\ i \in 0 .. BufSize - 1
  BY SlotsAre
<1>2. CASE o <= i
  <2>1. Cardinality(o .. i - 1) = IF o > i - 1 THEN 0 ELSE (i - 1) - o + 1
    BY <1>1, FS_Interval
  <2> QED
    BY <1>1, <1>2, <2>1 DEF Span, Count
<1>3. CASE ~(o <= i)
  <2>1. /\ IsFiniteSet(i .. o - 1) /\ Cardinality(i .. o - 1) = o - i
        /\ IsFiniteSet(Slots) /\ Cardinality(Slots) = BufSize
    <3>1. /\ IsFiniteSet(i .. o - 1)
          /\ Cardinality(i .. o - 1) = IF i > o - 1 THEN 0 ELSE (o - 1) - i + 1
      BY <1>1, FS_Interval
    <3>2. /\ IsFiniteSet(0 .. BufSize - 1)
          /\ Cardinality(0 .. BufSize - 1) = IF 0 > BufSize - 1 THEN 0 ELSE (BufSize - 1) - 0 + 1
      BY <1>1, FS_Interval
    <3> QED
      BY <1>1, <1>3, <3>1, <3>2, SlotsAre
  <2>2. Slots \cap (i .. o - 1) = i .. o - 1
    BY <1>1, SlotsAre
  <2>3. Cardinality(Slots \ (i .. o - 1)) = BufSize - (o - i)
    <3> DEFINE T == i .. o - 1
    <3>1. Cardinality(Slots \ T) = Cardinality(Slots) - Cardinality(Slots \cap T)
      <4> HIDE DEF T
      <4> QED
        BY <2>1, FS_Difference
    <3> QED
      BY <2>1, <2>2, <3>1
  <2> QED
    BY <1>1, <1>3, <2>3 DEF Span, Count
<1> QED
  BY <1>2, <1>3

LEMMA SpanNumbered ==
  ASSUME NEW o \in Slots, NEW i \in Slots
  PROVE  /\ \A k \in 1 .. Count(o, i) : SlotNo(o, k) \in Span(o, i) /\ SlotNo(o, k) \in Slots
         /\ \A s \in Span(o, i) : \E k \in 1 .. Count(o, i) : SlotNo(o, k) = s
<1>1. BufSize \in Nat \ {0} /\ o \in 0 .. BufSize - 1 /\ i \in 0 .. BufSize - 1
  BY SlotsAre
<1>2. ASSUME NEW k \in 1 .. Count(o, i) PROVE SlotNo(o, k) \in Span(o, i) /\ SlotNo(o, k) \in Slots
  <2>1. Count(o, i) \in 0 .. BufSize - 1
    BY CountSpan
  <2>2. k \in 1 .. BufSize
    BY <1>1, <2>1
  <2>3. SlotNo(o, k) = IF o + k - 1 < BufSize THEN o + k - 1 ELSE o + k - 1 - BufSize
    BY <2>2, Wrap
  <2>4. CASE o <= i
    BY <1>1, <2>2, <2>3, <2>4, SlotsAre DEF Span, Count
  <2>5. CASE ~(o <= i)
    BY <1>1, <2>2, <2>3, <2>5, SlotsAre DEF Span, Count
  <2> QED
    BY <2>4, <2>5
<1>3. ASSUME NEW s \in Span(o, i) PROVE \E k \in 1 .. Count(o, i) : SlotNo(o, k) = s
  <2> DEFINE k == IF o <= s THEN s - o + 1 ELSE s - o + 1 + BufSize
  <2>1. s \in 0 .. BufSize - 1
    BY <1>1, SlotsAre DEF Span
  <2>2. k \in 1 .. BufSize /\ k \in 1 .. Count(o, i)
    BY <1>1, <2>1, SlotsAre DEF Span, Count
  <2>3. SlotNo(o, k) = s
    BY <1>1, <2>1, <2>2, Wrap
  <2> QED
    BY <2>2, <2>3
<1> QED
  BY <1>2, <1>3

LEMMA CountPut ==
  ASSUME NEW o \in Slots, NEW i \in Slots, Next_(i) # o
  PROVE  /\ Count(o, i) < BufSize - 1 /\ Count(o, Next_(i)) = Count(o, i) + 1
         /\ SlotNo(o, Count(o, i) + 1) = i
<1>1. BufSize \in Nat \ {0} /\ o \in 0 .. BufSize - 1 /\ i \in 0 .. BufSize - 1
  BY SlotsAre
<1>2. Next_(i) = IF i = BufSize - 1 THEN 0 ELSE i + 1
  BY NextSlot
<1>3. Count(o, i) < BufSize - 1 /\ Count(o, Next_(i)) = Count(o, i) + 1
  BY <1>1, <1>2 DEF Count
<1>4. Count(o, i) + 1 \in 1 .. BufSize
  BY <1>1, <1>3, CountSpan
<1>5. SlotNo(o, Count(o, i) + 1) = i
  <2>1. SlotNo(o, Count(o, i) + 1) =
          IF o + (Count(o, i) + 1) - 1 < BufSize THEN o + (Count(o, i) + 1) - 1
                                                 ELSE o + (Count(o, i) + 1) - 1 - BufSize
    BY <1>4, Wrap
  <2> QED
    BY <1>1, <2>1 DEF Count
<1> QED
  BY <1>3, <1>5

LEMMA CountTake ==
  ASSUME NEW o \in Slots, NEW i \in Slots, i # o
  PROVE  /\ Count(o, i) >= 1 /\ Count(Next_(o), i) = Count(o, i) - 1
         /\ SlotNo(o, 1) = o
         /\ \A k \in 1 .. Count(o, i) - 1 : SlotNo(Next_(o), k) = SlotNo(o, k + 1)
<1>1. BufSize \in Nat \ {0} /\ o \in 0 .. BufSize - 1 /\ i \in 0 .. BufSize - 1
  BY SlotsAre
<1>2. Next_(o) = (IF o = BufSize - 1 THEN 0 ELSE o + 1) /\ Next_(o) \in Slots
  BY NextSlot
<1>3. Count(o, i) >= 1 /\ Count(Next_(o), i) = Count(o, i) - 1
  BY <1>1, <1>2 DEF Count
<1>4. SlotNo(o, 1) = o
  <2>1. 1 \in 1 .. BufSize
    BY <1>1
  <2> QED
    BY <1>1, <2>1, Wrap
<1>5. ASSUME NEW k \in 1 .. Count(o, i) - 1 PROVE SlotNo(Next_(o), k) = SlotNo(o, k + 1)
  <2>1. k \in 1 .. BufSize /\ k + 1 \in 1 .. BufSize
    BY <1>1, CountSpan
  <2>2. SlotNo(o, k + 1) = IF o + (k + 1) - 1 < BufSize THEN o + (k + 1) - 1 ELSE o + (k + 1) - 1 - BufSize
    BY <2>1, Wrap
  <2>3. SlotNo(Next_(o), k) = IF Next_(o) + k - 1 < BufSize THEN Next_(o) + k - 1 ELSE Next_(o) + k - 1 - BufSize
    BY <1>2, <2>1, Wrap
  <2> QED
    BY <1>1, <1>2, <2>1, <2>2, <2>3
<1> QED
  BY <1>3, <1>4, <1>5

LEMMA RingIs ==
  ASSUME TypeOK
  PROVE  /\ Occupied = Span(buffer_out, buffer_in) /\ QueueLength = Count(buffer_out, buffer_in)
         /\ RingQueue = [k \in 1 .. Count(buffer_out, buffer_in) |-> buffer[SlotNo(buffer_out, k)].file]
<1>1. Occupied = Span(buffer_out, buffer_in)
  BY DEF Occupied, Span
<1>2. QueueLength = Count(buffer_out, buffer_in)
  BY <1>1, CountSpan DEF QueueLength, TypeOK
<1> QED
  BY <1>1, <1>2 DEF RingQueue, SlotNo

LEMMA RingType ==
  ASSUME TypeOK, RingTasks
  PROVE  /\ RingQueue \in Seq(Files) /\ Len(RingQueue) = Count(buffer_out, buffer_in)
         /\ Count(buffer_out, buffer_in) \in Nat /\ Pipeline!Waiting = Queued
<1> DEFINE n == Count(buffer_out, buffer_in)
<1>0. buffer_in \in Slots /\ buffer_out \in Slots
  BY DEF TypeOK
<1>1. n \in Nat
  <2>1. n \in 0 .. BufSize - 1
    BY <1>0, CountSpan
  <2> QED
    BY <2>1, SlotsAre
<1>2. /\ \A k \in 1 .. n : SlotNo(buffer_out, k) \in Occupied
      /\ \A s \in Occupied : \E k \in 1 .. n : SlotNo(buffer_out, k) = s
  BY <1>0, RingIs, SpanNumbered
<1>3. \A s \in Occupied : buffer[s].file \in Files
  BY DEF RingTasks, GoodTask, Task
<1>4. RingQueue = [k \in 1 .. n |-> buffer[SlotNo(buffer_out, k)].file]
  BY RingIs
<1>5. RingQueue \in Seq(Files) /\ Len(RingQueue) = n
  <2>1. \A k \in 1 .. n : buffer[SlotNo(buffer_out, k)].file \in Files
    BY <1>2, <1>3
  <2> HIDE DEF n
  <2> QED
    BY <1>1, <1>4, <2>1
<1>6. Pipeline!Waiting = Queued
  <2>1. Pipeline!Waiting = {RingQueue[k] : k \in 1 .. n}
    BY <1>4 DEF Pipeline!Waiting
  <2>2. \A k \in 1 .. n : RingQueue[k] = buffer[SlotNo(buffer_out, k)].file
    BY <1>4
  <2> QED
    BY <1>2, <2>1, <2>2 DEF Queued
<1> QED
  BY <1>1, <1>5, <1>6

-----------------------------------------------------------------------------
(* The ring, the hands and the locks implement the pipeline *)

RingFacts ==
  /\ Count(buffer_out, buffer_in) \in Nat
  /\ RingQueue = [k \in 1 .. Count(buffer_out, buffer_in) |-> buffer[SlotNo(buffer_out, k)].file]
  /\ RingQueue \in Seq(Files) /\ Len(RingQueue) = Count(buffer_out, buffer_in)
  /\ Pipeline!Waiting = Queued

Inv == ControlInv /\ TraversalInv /\ TaskOwnership /\ OpenedInOrder /\ RingFacts

ClosedFiles == {f \in Files : fd[f] = "closed"}

LEMMA SameQueue ==
  ASSUME UNCHANGED <<buffer, buffer_in, buffer_out>>
  PROVE  RingQueue' = RingQueue
BY DEF RingQueue, QueueLength, Occupied

LEMMA OpenImplemented ==
  ASSUME Inv, NEW d \in Dirs, OpenFile(d), InHand' = InHand \cup {Entry(d)}
  PROVE  Pipeline!Open(Entry(d)) /\ Entry(d) \in Files
<1> USE DEF Inv, ControlInv
<1> DEFINE f == Entry(d)
<1>1. f \in Files /\ fd[f] = "unopened" /\ fd' = [fd EXCEPT ![f] = "open"]
  BY Unopened DEF OpenFile, Hands
<1>2. InHand = {}
  BY DEF OpenFile, InHand, TraversalInv, OneRunnable, Runnable, Running
<1>3. f \notin Queued \cup Copied \cup ClosedFiles
  BY <1>1 DEF TaskOwnership, OpenFiles, ClosedFiles
<1>4. ClosedFiles' = ClosedFiles
  BY <1>1 DEF ClosedFiles, TypeOK
<1>5. Copied' = Copied
  BY DEF OpenFile, poolVars, Copied, Copying
<1>6. RingQueue' = RingQueue
  BY SameQueue DEF OpenFile, ringVars
<1> QED
  BY <1>1, <1>2, <1>3, <1>4, <1>5, <1>6 DEF Pipeline!Open, ClosedFiles, RingFacts

LEMMA PutImplemented ==
  ASSUME Inv, Inv', NEW d \in Dirs, AddTask(d), ~Full, InHand' = InHand \ {Entry(d)}
  PROVE  Pipeline!Put(Entry(d)) /\ Entry(d) \in Files
<1> USE DEF Inv, ControlInv
<1> DEFINE f == Entry(d)
           t == [file |-> f, filename |-> d]
           n == Count(buffer_out, buffer_in)
<1>0. buffer_in \in Slots /\ buffer_out \in Slots /\ BufSize \in Nat \ {0}
  BY ParameterAssumption DEF TypeOK
<1>1. /\ f \in Files /\ f \in InHand /\ fd' = fd /\ PutTask(t)
      /\ buffer' = [buffer EXCEPT ![buffer_in] = t]
      /\ buffer_in' = Next_(buffer_in) /\ buffer_out' = buffer_out
  BY DEF AddTask, Hands, InHand, PutTask
<1>2. InHand' = {}
  <2>1. \A e \in Dirs : trav[e] = "add" => e = d
    BY DEF AddTask, TraversalInv, OneRunnable, Runnable, Running
  <2> QED
    BY <2>1 DEF InHand
<1>3. Copied' = Copied /\ ClosedFiles' = ClosedFiles
  BY <1>1 DEF AddTask, poolVars, Copied, Copying, ClosedFiles
<1>4. /\ n < BufSize - 1 /\ Count(buffer_out, buffer_in)' = n + 1
      /\ SlotNo(buffer_out, n + 1) = buffer_in
  BY <1>0, <1>1, CountPut DEF Full
<1>5. /\ n \in Nat /\ RingQueue \in Seq(Files) /\ Len(RingQueue) = n
      /\ RingQueue = [k \in 1 .. n |-> buffer[SlotNo(buffer_out, k)].file]
  BY DEF RingFacts
<1>6. /\ RingQueue' \in Seq(Files) /\ Len(RingQueue') = n + 1
      /\ RingQueue' = [k \in 1 .. n + 1 |-> buffer'[SlotNo(buffer_out, k)].file]
  BY <1>1, <1>4 DEF RingFacts
<1>7. \A k \in 1 .. n : SlotNo(buffer_out, k) \in Slots \ {buffer_in}
  BY <1>0, <1>1, RingPut, RingIs, SpanNumbered
<1> HIDE DEF n
<1>8. Append(RingQueue, f) \in Seq(Files) /\ Len(Append(RingQueue, f)) = n + 1
  BY <1>1, <1>5, AppendProperties
<1>9. ASSUME NEW k \in 1 .. n + 1 PROVE RingQueue'[k] = Append(RingQueue, f)[k]
  <2>1. CASE k = n + 1
    <3>1. buffer'[buffer_in] = t
      BY <1>0, <1>1 DEF TypeOK
    <3>2. RingQueue'[k] = buffer'[buffer_in].file
      BY <1>4, <1>6, <2>1
    <3> QED
      BY <1>1, <1>5, <2>1, <3>1, <3>2, AppendProperties
  <2>2. CASE k # n + 1
    <3>1. k \in 1 .. n
      BY <1>5, <2>2
    <3>2. buffer'[SlotNo(buffer_out, k)] = buffer[SlotNo(buffer_out, k)]
      BY <1>0, <1>1, <1>7, <3>1 DEF TypeOK
    <3>3. RingQueue'[k] = RingQueue[k]
      BY <1>5, <1>6, <3>1, <3>2
    <3> QED
      BY <1>1, <1>5, <3>1, <3>3, AppendProperties
  <2> QED
    BY <2>1, <2>2
<1>10. RingQueue' = Append(RingQueue, f)
  BY <1>6, <1>8, <1>9, SeqEqual
<1>11. Len(RingQueue) < BufSize - 1
  BY <1>4, <1>5
<1> QED
  BY <1>1, <1>2, <1>3, <1>10, <1>11 DEF Pipeline!Put, ClosedFiles

LEMMA TakeImplemented ==
  ASSUME Inv, Inv', NEW w \in Workers, TakeTask(w), InHand' = InHand
  PROVE  Pipeline!Take
<1> USE DEF Inv, ControlInv
<1> DEFINE n == Count(buffer_out, buffer_in)
<1>0. buffer_in \in Slots /\ buffer_out \in Slots /\ BufSize \in Nat \ {0} /\ buffer_in # buffer_out
  BY ParameterAssumption DEF TypeOK, TakeTask, Empty
<1>1. buffer' = buffer /\ fd' = fd /\ buffer_in' = buffer_in /\ buffer_out' = Next_(buffer_out)
  BY DEF TakeTask
<1>2. Copying = {}
  BY OneCopier DEF TakeTask, Copying
<1>3. Copying' = {w} /\ task'[w] = buffer[buffer_out]
  BY <1>2 DEF TakeTask, Copying, TypeOK
<1>4. Copied = {} /\ Copied' = {buffer[buffer_out].file} /\ ClosedFiles' = ClosedFiles
  BY <1>1, <1>2, <1>3 DEF Copied, ClosedFiles
<1>5. /\ n >= 1 /\ Count(buffer_out, buffer_in)' = n - 1 /\ SlotNo(buffer_out, 1) = buffer_out
      /\ \A k \in 1 .. n - 1 : SlotNo(buffer_out', k) = SlotNo(buffer_out, k + 1)
  BY <1>0, <1>1, CountTake
<1>6. /\ n \in Nat /\ RingQueue \in Seq(Files) /\ Len(RingQueue) = n
      /\ RingQueue = [k \in 1 .. n |-> buffer[SlotNo(buffer_out, k)].file]
  BY DEF RingFacts
<1>7. /\ RingQueue' \in Seq(Files) /\ Len(RingQueue') = n - 1
      /\ RingQueue' = [k \in 1 .. n - 1 |-> buffer'[SlotNo(buffer_out', k)].file]
  BY <1>5 DEF RingFacts
<1> HIDE DEF n
<1>8. RingQueue # <<>> /\ Head(RingQueue) = buffer[buffer_out].file
  BY <1>5, <1>6, EmptySeq
<1>9. Tail(RingQueue) \in Seq(Files) /\ Len(Tail(RingQueue)) = n - 1
  BY <1>6, <1>8, HeadTailProperties
<1>10. ASSUME NEW k \in 1 .. n - 1 PROVE RingQueue'[k] = Tail(RingQueue)[k]
  <2>1. k + 1 \in 1 .. n
    BY <1>6
  <2>2. RingQueue'[k] = RingQueue[k + 1]
    BY <1>1, <1>5, <1>6, <1>7, <2>1
  <2> QED
    BY <1>6, <1>8, <1>9, <2>2, HeadTailProperties
<1>11. RingQueue' = Tail(RingQueue)
  BY <1>7, <1>9, <1>10, SeqEqual
<1> QED
  BY <1>4, <1>8, <1>11 DEF Pipeline!Take, ClosedFiles

LEMMA CloseImplemented ==
  ASSUME Inv, NEW w \in Workers, CloseTask(w), InHand' = InHand
  PROVE  \E f \in Files : Pipeline!Close(f)
<1> USE DEF Inv, ControlInv
<1>1. Copying = {w}
  BY OneCopier DEF CloseTask, Copying
<1>2. PICK f \in Files : f = task[w].file
  BY <1>1 DEF WorkerTasks, GoodTask, Task
<1>3. Copying' = {}
  BY <1>1 DEF CloseTask, Copying, TypeOK
<1>4. Copied = {f} /\ Copied' = {}
  BY <1>1, <1>2, <1>3 DEF Copied
<1>5. ClosedFiles' = ClosedFiles \cup {f}
  BY <1>2 DEF CloseTask, ClosedFiles, TypeOK
<1>6. RingQueue' = RingQueue
  BY SameQueue DEF CloseTask, ringVars
<1> QED
  BY <1>4, <1>5, <1>6 DEF Pipeline!Close, ClosedFiles

LEMMA StepImplements ==
  ASSUME Inv, Inv', [Next]_vars
  PROVE  [Pipeline!Next]_(Pipeline!vars)
<1> USE DEF Inv, ControlInv
<1>1. ASSUME UNCHANGED <<fd, buffer, buffer_in, buffer_out>>, InHand' = InHand, Copied' = Copied
      PROVE  UNCHANGED Pipeline!vars
  BY <1>1, SameQueue DEF Pipeline!vars, ClosedFiles
<1>2. ASSUME NEW d \in Dirs, TraverseDirectory(d) PROVE [Pipeline!Next]_(Pipeline!vars)
  <2>1. CASE OpenFile(d) /\ InHand' = InHand \cup {Entry(d)}
    BY <2>1, OpenImplemented DEF Pipeline!Next
  <2>2. CASE AddTask(d) /\ ~Full /\ InHand' = InHand \ {Entry(d)}
    BY <2>2, PutImplemented DEF Pipeline!Next
  <2>3. CASE UNCHANGED <<fd, buffer, buffer_in, buffer_out>> /\ InHand' = InHand
    <3>1. Copied' = Copied
      BY <1>2, TraversalFrame DEF Copied, Copying
    <3> QED
      BY <1>1, <2>3, <3>1
  <2> QED
    BY <1>2, <2>1, <2>2, <2>3, HandMoves
<1>3. ASSUME NEW w \in Workers, WorkerThread(w) PROVE [Pipeline!Next]_(Pipeline!vars)
  <2>0. InHand' = InHand
    BY <1>3, WorkerFrame DEF InHand, Entry
  <2>1. CASE TakeTask(w)
    BY <2>0, <2>1, TakeImplemented DEF Pipeline!Next
  <2>2. CASE CloseTask(w)
    BY <2>0, <2>2, CloseImplemented DEF Pipeline!Next
  <2>3. CASE ~TakeTask(w) /\ ~CloseTask(w)
    <3>1. fd' = fd /\ task' = task /\ UNCHANGED <<buffer, buffer_in, buffer_out>>
      BY <1>3, <2>3 DEF WorkerThread, LockBuffer, DecideToWait, WaitNotEmpty, ExitWorker,
         CopyChunk, CopyError, CopyDone, poolVars, ringVars
    <3>2. Copying' = Copying
      BY <1>3, <2>3 DEF WorkerThread, LockBuffer, DecideToWait, WaitNotEmpty,
         ExitWorker, CopyChunk, CopyError, CopyDone, poolVars, Copying, TypeOK
    <3> QED
      BY <1>1, <2>0, <3>1, <3>2 DEF Copied
  <2> QED
    BY <2>1, <2>2, <2>3
<1>4. CASE Other
  <2>1. Copying' = Copying
    BY <1>4, OtherFrame DEF Copying, TypeOK
  <2>2. InHand' = InHand
    <3>1. \A d \in Dirs : trav'[d] = "add" <=> trav[d] = "add"
      BY <1>4, OtherFrame DEF TraversalInv, NotStarted, TypeOK
    <3> QED
      BY <1>4, <3>1, OtherFrame, SameHands
  <2> QED
    BY <1>1, <1>4, <2>1, <2>2, OtherFrame DEF Copied
<1> QED
  BY <1>2, <1>3, <1>4, NextCases

\* Ring, indices, locks and condition variables implement the pipeline: every file
\* passes through it once, in order, with at most buffer_size - 1 files waiting
\* (lines 323-325, 355-409), whatever the tree, the pool and the ring.
THEOREM RingImplementsPipeline == Spec => ImplementsPipeline
<1>1. Init => Pipeline!Init
  <2> SUFFICES ASSUME Init PROVE Pipeline!Init
    OBVIOUS
  <2>1. Occupied = {} /\ InHand = {} /\ Copied = {} /\ ClosedFiles = {}
    BY DEF Init, Occupied, InHand, Copied, Copying, ClosedFiles
  <2>2. QueueLength = 0
    BY <2>1, FS_EmptySet DEF QueueLength
  <2>3. RingQueue = <<>>
    BY <2>2 DEF RingQueue
  <2> QED
    BY <2>1, <2>3 DEF Pipeline!Init, ClosedFiles
<1>2. Inv /\ Inv' /\ [Next]_vars => [Pipeline!Next]_(Pipeline!vars)
  BY StepImplements
<1>3. Spec => []Inv
  <2>1. TypeOK /\ RingTasks => RingFacts
    BY RingType, RingIs DEF RingFacts
  <2>2. ControlInv /\ TraversalInv /\ TaskOwnership /\ OpenedInOrder => Inv
    BY <2>1 DEF Inv, ControlInv
  <2> QED
    BY <2>2, OwnershipInvariant, PTL
<1> QED
  BY <1>1, <1>2, <1>3, PTL DEF Spec, ImplementsPipeline, Pipeline!Spec, Pipeline!vars
=============================================================================
