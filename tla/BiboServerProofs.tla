-------------------------- MODULE BiboServerProofs --------------------------
(***************************************************************************)
(* The server of Midterm_HW3 for every number of clients, slots and places *)
(* in the queue: the frames of its FIFO, where a client is kept, who holds *)
(* a slot, how far empty_slot_count can be off, and who is forgotten.      *)
(***************************************************************************)
EXTENDS BiboServer, FiniteSetTheorems, TLAPS

Busy == {"mode", "admit", "open", "write", "enqueue", "fork"}

\* What is in the server's hands, or in its queue, came out of SERVER_FIFO.
Written == Queue!isEmpty \/ \A k \in front .. rear : items[k] \in Words

TypeInv ==
  /\ TypeOK
  /\ srv \in Busy => client_pid \in Words
  /\ Written

-----------------------------------------------------------------------------
(* Lemmas about the queue *)

LEMMA QueueIndices ==
  ASSUME Queue!QueueTypeOK, ~Queue!isEmpty
  PROVE  /\ MaxSize \in Int /\ front \in Int /\ rear \in Int
         /\ 0 <= front /\ front <= rear /\ rear <= MaxSize - 1
<1>1. front \in 0 .. MaxSize - 1 /\ rear \in front .. MaxSize - 1
  BY DEF Queue!QueueTypeOK
<1> QED
  BY <1>1, BiboAssumption

\* A dequeue() takes the first element, and leaves the others where they are.
LEMMA DequeueTakes ==
  ASSUME Queue!QueueTypeOK, Written, ~Queue!isEmpty, Queue!dequeue
  PROVE  /\ Queue!QueueTypeOK' /\ items' = items
         /\ front \in front .. rear /\ Queue!Oldest = items[front] /\ items[front] \in Words
         /\ ~Queue!isEmpty' => front' = front + 1 /\ rear' = rear
<1>1. /\ MaxSize \in Int /\ front \in Int /\ rear \in Int
      /\ 0 <= front /\ front <= rear /\ rear <= MaxSize - 1
  BY QueueIndices
<1>2. items' = items
  BY DEF Queue!dequeue
<1>3. front \in front .. rear /\ Queue!Oldest = items[front] /\ items[front] \in Words
  BY <1>1 DEF Written, Queue!Oldest
<1>4. CASE front = rear
  BY <1>2, <1>3, <1>4 DEF Queue!dequeue, Queue!LastOne, Queue!isEmpty, Queue!QueueTypeOK
<1>5. CASE front # rear
  <2>1. front' = front + 1 /\ rear' = rear
    BY <1>5 DEF Queue!dequeue, Queue!LastOne
  <2>2. front' \in 0 .. MaxSize - 1 /\ rear' \in front' .. MaxSize - 1
    BY <1>1, <1>5, <2>1
  <2> QED
    BY <1>2, <1>3, <2>1, <2>2 DEF Queue!QueueTypeOK
<1> QED
  BY <1>4, <1>5

\* An enqueue() that is not refused adds one element behind the others.
LEMMA EnqueueAdds ==
  ASSUME Queue!QueueTypeOK, NEW w \in Words, Queue!Append_(w)
  PROVE  /\ Queue!QueueTypeOK' /\ ~Queue!isEmpty'
         /\ rear' \in front' .. rear' /\ items'[rear'] = w
         /\ \A k \in front' .. rear' :
              k # rear' => ~Queue!isEmpty /\ k \in front .. rear /\ items'[k] = items[k]
<1>1. items' \in [0 .. MaxSize - 1 -> Words \cup {Junk}]
  BY DEF Queue!QueueTypeOK, Queue!Append_
<1>2. CASE Queue!isEmpty
  <2>1. rear' = 0 /\ front' = 0
    BY <1>2 DEF Queue!Append_, Queue!NewFront, Queue!isEmpty
  <2>2. 0 \in 0 .. MaxSize - 1
    BY BiboAssumption
  <2>3. items'[0] = w
    BY <1>2, <2>2 DEF Queue!Append_, Queue!QueueTypeOK, Queue!isEmpty
  <2> QED
    BY <1>1, <2>1, <2>2, <2>3 DEF Queue!QueueTypeOK, Queue!isEmpty
<1>3. CASE ~Queue!isEmpty
  <2>1. /\ front' = front /\ rear' = rear + 1 /\ rear # MaxSize - 1
        /\ items' = [items EXCEPT ![rear + 1] = w]
    BY <1>3 DEF Queue!Append_, Queue!NewFront, Queue!isFull
  <2>2. /\ MaxSize \in Int /\ front \in Int /\ rear \in Int
        /\ 0 <= front /\ front <= rear /\ rear < MaxSize - 1
    BY <1>3, <2>1, QueueIndices
  <2>3. front' \in 0 .. MaxSize - 1 /\ rear' \in front' .. MaxSize - 1
    BY <2>1, <2>2
  <2>4. ~Queue!isEmpty' /\ rear' \in front' .. rear' /\ items'[rear'] = w
    BY <2>1, <2>2 DEF Queue!QueueTypeOK, Queue!isEmpty
  <2>5. ASSUME NEW k \in front' .. rear', k # rear'
        PROVE  k \in front .. rear /\ items'[k] = items[k]
    BY <2>1, <2>2, <2>5 DEF Queue!QueueTypeOK
  <2> QED
    BY <1>1, <1>3, <2>3, <2>4, <2>5 DEF Queue!QueueTypeOK
<1> QED
  BY <1>2, <1>3

LEMMA QueueUnchanged ==
  ASSUME UNCHANGED queueVars
  PROVE  /\ Queue!QueueTypeOK' <=> Queue!QueueTypeOK
         /\ Written' <=> Written
         /\ Queue!isEmpty' <=> Queue!isEmpty
BY DEF queueVars, Queue!QueueTypeOK, Queue!isEmpty, Written

-----------------------------------------------------------------------------
(* Types *)

LEMMA TypeInvInit == Init => TypeInv
<1> SUFFICES ASSUME Init PROVE TypeInv
  OBVIOUS
<1>1. Queue!QueueTypeOK /\ Written
  BY DEF Init, Queue!QueueInit, Queue!QueueTypeOK, Queue!isEmpty, Written
<1>2. empty_slot_count \in Int /\ connected_clients \in [Slots -> Words]
  BY BiboAssumption DEF Init, Words, Modes
<1>3. server_fifo \in Seq(Words) /\ status_fifo \in [Clients -> Seq(Statuses)]
  BY DEF Init
<1>4. /\ srv \in ServerStates /\ srv \notin Busy /\ flag \in Statuses
      /\ client_pid = Junk /\ connection_mode = Junk
  BY DEF Init, ServerStates, Busy, Statuses
<1>5. client \in [Clients -> ClientStates] /\ mode \in [Clients -> Modes] /\ semaphore \in {0, 1}
  BY DEF Init, ClientStates
<1>6. child \in [Clients -> ChildStates] /\ tmp \in [Clients -> Int]
  BY DEF Init, ChildStates
<1>7. sigusr2 \in BOOLEAN /\ split \in BOOLEAN /\ refused \subseteq Words
  BY DEF Init
<1> QED
  BY <1>1, <1>2, <1>3, <1>4, <1>5, <1>6, <1>7 DEF TypeInv, TypeOK

\* What no step of a client touches.
LEMMA ClientFrame ==
  ASSUME NEW c \in Clients, ClientProcess(c) \/ User(c)
  PROVE  /\ UNCHANGED <<client_pid, connection_mode, flag, history, queueVars, sharedVars, sigusr2,
                        mode, childVars>>
         /\ srv' = srv \/ srv' = "crashed"
BY DEF ClientProcess, User, SemWait, WritePid, WriteMode, SemPost, ReadStatus, Leave, Quit, KillServer,
       Interrupt, serverVars

\* What no step of a child touches.
LEMMA ChildFrame ==
  ASSUME NEW c \in Clients, ChildProcess(c)
  PROVE  UNCHANGED <<serverVars, queueVars, server_fifo, status_fifo, mode, semaphore>>
BY DEF ChildProcess, ReadCount, WriteCount, OpenSession, HandleQuit, HandleKillServer, clientVars

LEMMA WriteWordTypes ==
  ASSUME TypeOK, NEW c \in Clients, NEW from, NEW to \in ClientStates, NEW word \in Words,
         WriteWord(c, from, to, word)
  PROVE  client' \in [Clients -> ClientStates] /\ server_fifo' \in Seq(Words)
<1>1. client' \in [Clients -> ClientStates]
  BY DEF TypeOK, ClientStates, WriteWord, Step
<1>2. server_fifo \in Seq(Words) /\ Append(server_fifo, word) \in Seq(Words)
  BY DEF TypeOK
<1> QED
  BY <1>1, <1>2 DEF WriteWord

LEMMA ClientTypes ==
  ASSUME TypeInv, NEW c \in Clients, ClientProcess(c) \/ User(c)
  PROVE  /\ client' \in [Clients -> ClientStates] /\ server_fifo' \in Seq(Words)
         /\ semaphore' \in {0, 1} /\ status_fifo' \in [Clients -> Seq(Statuses)]
<1> USE DEF TypeInv, TypeOK, ClientStates
<1>1. CASE SemWait(c) \/ SemPost(c) \/ Leave(c) \/ Quit(c) \/ KillServer(c)
  BY <1>1 DEF SemWait, SemPost, Leave, Quit, KillServer, Step
<1>2. CASE WritePid(c)
  <2>1. "mode" \in ClientStates /\ c \in Words
    BY DEF Words
  <2>2. client' \in [Clients -> ClientStates] /\ server_fifo' \in Seq(Words)
    BY <1>2, <2>1, WriteWordTypes DEF WritePid
  <2> QED
    BY <1>2, <2>2 DEF WritePid
<1>3. CASE WriteMode(c)
  <2>1. "post" \in ClientStates /\ mode[c] \in Words
    BY DEF Words
  <2>2. client' \in [Clients -> ClientStates] /\ server_fifo' \in Seq(Words)
    BY <1>3, <2>1, WriteWordTypes DEF WriteMode
  <2> QED
    BY <1>3, <2>2 DEF WriteMode
<1>4. CASE ReadStatus(c)
  <2>1. status_fifo[c] \in Seq(Statuses) /\ status_fifo[c] # <<>>
    BY <1>4 DEF ReadStatus
  <2>2. Tail(status_fifo[c]) \in Seq(Statuses)
    BY <2>1
  <2>3. client' \in [Clients -> ClientStates] /\ status_fifo' \in [Clients -> Seq(Statuses)]
    BY <1>4, <2>2 DEF ReadStatus
  <2> QED
    BY <1>4, <2>3 DEF ReadStatus
<1>5. CASE Interrupt(c)
  BY <1>5 DEF Interrupt
<1> QED
  BY <1>1, <1>2, <1>3, <1>4, <1>5 DEF ClientProcess, User

LEMMA ChildTypes ==
  ASSUME TypeInv, NEW c \in Clients, ChildProcess(c)
  PROVE  /\ connected_clients' \in [Slots -> Words] /\ empty_slot_count' \in Int
         /\ sigusr2' \in BOOLEAN /\ client' \in [Clients -> ClientStates]
         /\ child' \in [Clients -> ChildStates] /\ tmp' \in [Clients -> Int]
<1> USE DEF TypeInv, TypeOK, ClientStates, ChildStates, sharedVars, clientVars, childVars
<1>1. CASE ReadCount(c)
  BY <1>1 DEF ReadCount
<1>2. CASE WriteCount(c)
  BY <1>2 DEF WriteCount, OneLess
<1>3. CASE OpenSession(c)
  BY <1>3 DEF OpenSession, Step
<1>4. CASE HandleQuit(c)
  <2>1. connected_clients' \in [Slots -> Words]
    BY <1>4 DEF HandleQuit, FreeSlot, Words, Modes
  <2> QED
    BY <1>4, <2>1 DEF HandleQuit
<1>5. CASE HandleKillServer(c)
  BY <1>5 DEF HandleKillServer, ServerRuns
<1> QED
  BY <1>1, <1>2, <1>3, <1>4, <1>5 DEF ChildProcess

LEMMA ServerTypes ==
  ASSUME TypeInv, ServerProcess
  PROVE  TypeInv'
<1> USE DEF TypeInv, TypeOK, ServerStates, Busy, serverVars, history, sharedVars, clientVars,
            childVars
<1>1. CASE Dequeue
  <2>1. Queue!QueueTypeOK' /\ client_pid' \in Words /\ Written'
    BY <1>1, DequeueTakes DEF Dequeue, Written
  <2> QED
    BY <1>1, <2>1 DEF Dequeue, Statuses
<1>2. CASE ReadPid
  <2>1. server_fifo' \in Seq(Words) /\ client_pid' \in Words
    BY <1>2 DEF ReadPid
  <2> QED
    BY <1>2, <2>1, QueueUnchanged DEF ReadPid
<1>3. CASE ReadMode
  <2>0. server_fifo # <<>> => Tail(server_fifo) \in Seq(Words) /\ Head(server_fifo) \in Words
    OBVIOUS
  <2>1. server_fifo' \in Seq(Words) /\ connection_mode' \in Words \cup {Junk}
    BY <1>3, <2>0 DEF ReadMode
  <2> QED
    BY <1>3, <2>1, QueueUnchanged DEF ReadMode
<1>4. CASE Admit
  <2>1. connected_clients' \in [Slots -> Words] /\ flag' \in Statuses
    BY <1>4 DEF Admit, TakeSlot, Statuses, Modes
  <2> QED
    BY <1>4, <2>1, QueueUnchanged DEF Admit
<1>5. CASE OpenStatusFifo
  <2>1. client' \in [Clients -> ClientStates]
    BY <1>5 DEF OpenStatusFifo, ClientStates
  <2> QED
    BY <1>5, <2>1, QueueUnchanged DEF OpenStatusFifo
<1>6. CASE WriteStatus
  <2>0. ASSUME NEW d \in Clients PROVE Append(status_fifo[d], flag) \in Seq(Statuses)
    OBVIOUS
  <2>1. status_fifo' \in [Clients -> Seq(Statuses)]
    BY <1>6, <2>0 DEF WriteStatus, Reads
  <2>2. srv' \in {"top", "enqueue", "fork", "crashed"}
    BY <1>6 DEF WriteStatus, Continue_, Statuses
  <2> QED
    BY <1>6, <2>1, <2>2, QueueUnchanged DEF WriteStatus
<1>7. CASE Enqueue
  <2>1. Queue!QueueTypeOK' /\ Written'
    BY <1>7, EnqueueAdds DEF Enqueue, Queue!enqueue, Queue!Refuse, Queue!queueVars, Written,
                             Queue!QueueTypeOK, Queue!isEmpty
  <2> QED
    BY <1>7, <2>1 DEF Enqueue
<1>8. CASE Fork
  <2>1. child' \in [Clients -> ChildStates] /\ tmp' = tmp
    BY <1>8 DEF Fork, ChildStates
  <2> QED
    BY <1>8, <2>1, QueueUnchanged DEF Fork
<1>9. CASE HandleSigusr2
  <2>1. client' \in [Clients -> ClientStates]
    BY <1>9 DEF HandleSigusr2, ClientStates
  <2> QED
    BY <1>9, <2>1, QueueUnchanged DEF HandleSigusr2
<1> QED
  BY <1>1, <1>2, <1>3, <1>4, <1>5, <1>6, <1>7, <1>8, <1>9 DEF ServerProcess

LEMMA TypeInvNext == TypeInv /\ [Next]_vars => TypeInv'
<1> SUFFICES ASSUME TypeInv, [Next]_vars PROVE TypeInv'
  OBVIOUS
<1>1. CASE ServerProcess
  BY <1>1, ServerTypes
<1>2. ASSUME NEW c \in Clients, ClientProcess(c) \/ User(c) PROVE TypeInv'
  <2>1. srv' \in ServerStates /\ (srv' \in Busy => client_pid' \in Words)
    BY <1>2, ClientFrame DEF TypeInv, TypeOK, ServerStates, Busy
  <2> QED
    BY <1>2, <2>1, ClientFrame, ClientTypes, QueueUnchanged
    DEF TypeInv, TypeOK, history, sharedVars, childVars
<1>3. ASSUME NEW c \in Clients, ChildProcess(c) PROVE TypeInv'
  BY <1>3, ChildFrame, ChildTypes, QueueUnchanged DEF TypeInv, TypeOK, serverVars, history
<1>4. CASE UNCHANGED vars
  BY <1>4, QueueUnchanged
     DEF vars, TypeInv, TypeOK, serverVars, history, sharedVars, clientVars, childVars
<1> QED
  BY <1>1, <1>2, <1>3, <1>4 DEF Next

LEMMA TypesHold == Spec => []TypeInv
BY TypeInvInit, TypeInvNext, PTL DEF Spec

\* The variables keep their types, whatever words the server reads for a pid
\* or a mode (lines 525-611 of the server).
THEOREM TypeCorrect == Spec => []TypeOK
<1>1. TypeInv => TypeOK
  BY DEF TypeInv
<1> QED
  BY <1>1, TypesHold, PTL

-----------------------------------------------------------------------------
(* The frames of SERVER_FIFO *)

\* Between sem_wait() and sem_post().
Critical == {"pid", "mode", "post"}
LastWord == server_fifo[Len(server_fifo)]

\* One client at a time is between the two calls; the FIFO ends with a mode
\* unless that client has just written its pid, or ended there and left the
\* semaphore taken for ever.
FrameInv ==
  /\ FramesWhole
  /\ \A c \in Clients : client[c] \in Critical =>
       semaphore = 0 /\ \A d \in Clients : client[d] \in Critical => d = c
  /\ \A c \in Clients : client[c] = "mode" /\ Len(server_fifo) > 0 => LastWord = c
  /\ Len(server_fifo) > 0 /\ LastWord \in Clients =>
       semaphore = 0 /\ \A c \in Clients : client[c] \notin {"pid", "post"}

FifoShrinks ==
  \/ server_fifo' = server_fifo
  \/ server_fifo # <<>> /\ server_fifo' = Tail(server_fifo)

\* A step that takes no semaphore and writes no word keeps the frames.
LEMMA FramesQuiet ==
  ASSUME TypeInv, FrameInv, FifoShrinks, UNCHANGED <<mode, semaphore>>,
         \A c \in Clients : client'[c] \in Critical => client'[c] = client[c]
  PROVE  FrameInv'
<1>1. server_fifo \in Seq(Words)
  BY DEF TypeInv, TypeOK
<1>2. CASE server_fifo' = server_fifo
  BY <1>2 DEF FrameInv, FramesWhole, LastWord, Critical
<1>3. CASE server_fifo # <<>> /\ server_fifo' = Tail(server_fifo)
  <2>1. /\ Len(server_fifo') = Len(server_fifo) - 1 /\ Len(server_fifo) \in Nat
        /\ \A k \in 1 .. Len(server_fifo') : server_fifo'[k] = server_fifo[k + 1]
    BY <1>1, <1>3
  <2>2. Len(server_fifo') > 0 => Len(server_fifo) > 0 /\ LastWord' = LastWord
    BY <2>1 DEF LastWord
  <2>3. FramesWhole'
    <3> SUFFICES ASSUME NEW i \in 1 .. Len(server_fifo') - 1
                 PROVE  IF server_fifo'[i] \in Clients
                          THEN server_fifo'[i + 1] = mode[server_fifo'[i]]
                          ELSE server_fifo'[i + 1] \in Clients
      BY DEF FramesWhole
    <3>1. /\ i + 1 \in 1 .. Len(server_fifo) - 1
          /\ server_fifo'[i] = server_fifo[i + 1] /\ server_fifo'[i + 1] = server_fifo[i + 2]
      BY <2>1
    <3> QED
      BY <3>1 DEF FrameInv, FramesWhole
  <2> QED
    BY <2>2, <2>3 DEF FrameInv, Critical
<1> QED
  BY <1>2, <1>3 DEF FifoShrinks

\* A word that may follow the last one keeps the frames whole.
LEMMA FramesAppend ==
  ASSUME TypeInv, FramesWhole, NEW w \in Words, server_fifo' = Append(server_fifo, w), mode' = mode,
         Len(server_fifo) > 0 => IF LastWord \in Clients THEN w = mode[LastWord] ELSE w \in Clients
  PROVE  FramesWhole' /\ Len(server_fifo') > 0 /\ LastWord' = w
<1>1. server_fifo \in Seq(Words)
  BY DEF TypeInv, TypeOK
<1>2. /\ Len(server_fifo') = Len(server_fifo) + 1 /\ Len(server_fifo) \in Nat
      /\ server_fifo'[Len(server_fifo) + 1] = w
      /\ \A k \in 1 .. Len(server_fifo) : server_fifo'[k] = server_fifo[k]
  BY <1>1
<1>3. ASSUME NEW i \in 1 .. Len(server_fifo') - 1
      PROVE  IF server_fifo'[i] \in Clients
               THEN server_fifo'[i + 1] = mode[server_fifo'[i]]
               ELSE server_fifo'[i + 1] \in Clients
  <2>1. CASE i = Len(server_fifo)
    BY <1>2, <2>1 DEF LastWord
  <2>2. CASE i # Len(server_fifo)
    <3>1. i \in 1 .. Len(server_fifo) - 1 /\ i + 1 \in 1 .. Len(server_fifo)
      BY <1>2, <2>2
    <3> QED
      BY <1>2, <3>1 DEF FramesWhole
  <2> QED
    BY <2>1, <2>2
<1>4. FramesWhole'
  BY <1>3 DEF FramesWhole
<1> QED
  BY <1>2, <1>4 DEF LastWord

LEMMA FrameInvInit == Init => FrameInv
BY DEF Init, FrameInv, FramesWhole, Critical

LEMMA ClientKeepsFrames ==
  ASSUME TypeInv, FrameInv, NEW c \in Clients, ClientProcess(c) \/ User(c)
  PROVE  FrameInv'
<1>0. /\ client \in [Clients -> ClientStates] /\ mode \in [Clients -> Modes] /\ mode' = mode
      /\ \A d \in Clients : d \notin Modes
  BY ClientFrame, BiboAssumption DEF TypeInv, TypeOK
<1>1. CASE SemWait(c)
  <2>1. /\ client[c] = "start" /\ client' = [client EXCEPT ![c] = "pid"]
        /\ semaphore = 1 /\ semaphore' = 0 /\ server_fifo' = server_fifo
    BY <1>1 DEF SemWait, Step, SemFree
  <2> QED
    BY <1>0, <2>1 DEF FrameInv, FramesWhole, LastWord, Critical
<1>2. CASE WritePid(c)
  <2>0. client[c] = "pid" /\ semaphore' = semaphore
    BY <1>2 DEF WritePid, WriteWord, Step
  <2>1. CASE client' = [client EXCEPT ![c] = "gone"] /\ server_fifo' = server_fifo
    BY <1>0, <2>0, <2>1, FramesQuiet DEF FifoShrinks, Critical
  <2>2. CASE client' = [client EXCEPT ![c] = "mode"] /\ server_fifo' = Append(server_fifo, c)
    <3>1. Len(server_fifo) > 0 => LastWord \notin Clients
      BY <2>0 DEF FrameInv
    <3>2. FramesWhole' /\ LastWord' = c
      BY <1>0, <2>2, <3>1, FramesAppend DEF FrameInv, Words
    <3> QED
      BY <1>0, <2>0, <2>2, <3>2 DEF FrameInv, Critical
  <2> QED
    BY <1>2, <2>1, <2>2 DEF WritePid, WriteWord, Step
<1>3. CASE WriteMode(c)
  <2>0. client[c] = "mode" /\ semaphore' = semaphore
    BY <1>3 DEF WriteMode, WriteWord, Step
  <2>1. CASE client' = [client EXCEPT ![c] = "gone"] /\ server_fifo' = server_fifo
    BY <1>0, <2>0, <2>1, FramesQuiet DEF FifoShrinks, Critical
  <2>2. CASE client' = [client EXCEPT ![c] = "post"] /\ server_fifo' = Append(server_fifo, mode[c])
    <3>1. Len(server_fifo) > 0 => LastWord = c
      BY <2>0 DEF FrameInv
    <3>2. FramesWhole' /\ LastWord' = mode[c] /\ mode[c] \notin Clients
      BY <1>0, <2>2, <3>1, FramesAppend DEF FrameInv, Words
    <3> QED
      BY <1>0, <2>0, <2>2, <3>2 DEF FrameInv, Critical
  <2> QED
    BY <1>3, <2>1, <2>2 DEF WriteMode, WriteWord, Step
<1>4. CASE SemPost(c)
  <2>1. /\ client[c] = "post" /\ client' = [client EXCEPT ![c] = "open"]
        /\ semaphore' = 1 /\ server_fifo' = server_fifo
    BY <1>4 DEF SemPost, Step
  <2> QED
    BY <1>0, <2>1 DEF FrameInv, FramesWhole, LastWord, Critical
<1>5. CASE ReadStatus(c) \/ Leave(c) \/ User(c)
  <2>1. UNCHANGED <<server_fifo, semaphore>>
    BY <1>5 DEF ReadStatus, Leave, User, Quit, KillServer, Interrupt
  <2>2. \E to \in {"status", "connect", "gone", "quit", "killServer"} :
          client' = [client EXCEPT ![c] = to]
    BY <1>5 DEF ReadStatus, Leave, User, Quit, KillServer, Interrupt, Step
  <2> QED
    BY <1>0, <2>1, <2>2, FramesQuiet DEF FifoShrinks, Critical
<1> QED
  BY <1>1, <1>2, <1>3, <1>4, <1>5 DEF ClientProcess

LEMMA FrameInvNext == TypeInv /\ FrameInv /\ [Next]_vars => FrameInv'
<1> SUFFICES ASSUME TypeInv, FrameInv, [Next]_vars PROVE FrameInv'
  OBVIOUS
<1>0. client \in [Clients -> ClientStates]
  BY DEF TypeInv, TypeOK
<1>1. ASSUME NEW c \in Clients, ClientProcess(c) \/ User(c) PROVE FrameInv'
  BY <1>1, ClientKeepsFrames
<1>2. ASSUME NEW c \in Clients, ChildProcess(c) PROVE FrameInv'
  <2>1. client' = client \/ client' = [client EXCEPT ![c] = "session"]
    BY <1>2 DEF ChildProcess, ReadCount, WriteCount, OpenSession, HandleQuit, HandleKillServer,
                Step, clientVars
  <2> QED
    BY <1>0, <1>2, <2>1, ChildFrame, FramesQuiet DEF FifoShrinks, Critical
<1>3. CASE ServerProcess
  <2>1. FifoShrinks /\ UNCHANGED <<mode, semaphore>>
    BY <1>3 DEF ServerProcess, Dequeue, ReadPid, ReadMode, Admit, OpenStatusFifo, WriteStatus, Enqueue,
                Fork, HandleSigusr2, FifoShrinks, clientVars
  <2>2. \A c \in Clients : client'[c] \in Critical => client'[c] = client[c]
    <3>1. CASE OpenStatusFifo
      BY <1>0, <3>1 DEF OpenStatusFifo, Critical
    <3>2. CASE HandleSigusr2
      BY <3>2 DEF HandleSigusr2, Critical
    <3>3. CASE ~OpenStatusFifo /\ ~HandleSigusr2
      BY <1>3, <3>3 DEF ServerProcess, Dequeue, ReadPid, ReadMode, Admit, WriteStatus, Enqueue, Fork,
                        clientVars
    <3> QED
      BY <3>1, <3>2, <3>3
  <2> QED
    BY <2>1, <2>2, FramesQuiet
<1>4. CASE UNCHANGED vars
  BY <1>4, FramesQuiet DEF vars, clientVars, FifoShrinks
<1> QED
  BY <1>1, <1>2, <1>3, <1>4 DEF Next

\* The semaphore keeps the words of a request together, whoever is interrupted
\* between them (biboClient.c, lines 129-144).
THEOREM FramesStayWhole == Spec => []FramesWhole
<1>1. FrameInv => FramesWhole
  BY DEF FrameInv
<1> QED
  BY <1>1, TypesHold, FrameInvInit, FrameInvNext, PTL DEF Spec

-----------------------------------------------------------------------------
(* Where a client is kept *)

InFifo(c) == \E k \in 1 .. Len(server_fifo) : server_fifo[k] = c
InQueue(c) == ~Queue!isEmpty /\ \E k \in front .. rear : items[k] = c

\* A client is in one place at most, and there once; before it has written its
\* pid it is in none.
PlaceInv ==
  \A c \in Clients :
    /\ \A j, k \in 1 .. Len(server_fifo) : server_fifo[j] = c /\ server_fifo[k] = c => j = k
    /\ ~Queue!isEmpty => \A j, k \in front .. rear : items[j] = c /\ items[k] = c => j = k
    /\ InFifo(c) => ~InQueue(c) /\ ~InHand(c) /\ ~HasChild(c)
    /\ InQueue(c) => ~InHand(c) /\ ~HasChild(c)
    /\ InHand(c) => ~HasChild(c)
    /\ client[c] \in {"start", "pid"} => ~InFifo(c) /\ ~InQueue(c) /\ ~InHand(c) /\ ~HasChild(c)

\* A step that moves nobody, other than out of the server's hands.
StaysPut ==
  /\ UNCHANGED <<server_fifo, queueVars>>
  /\ \A c \in Clients :
       /\ HasChild(c)' <=> HasChild(c)
       /\ InHand(c)' => InHand(c)
       /\ client'[c] \in {"start", "pid"} => client[c] \in {"start", "pid"}

LEMMA SamePlaces ==
  ASSUME PlaceInv, StaysPut
  PROVE  PlaceInv'
<1>1. \A c \in Clients : (InFifo(c)' <=> InFifo(c)) /\ (InQueue(c)' <=> InQueue(c))
  BY DEF StaysPut, InFifo, InQueue, queueVars, Queue!isEmpty
<1>2. Queue!isEmpty' <=> Queue!isEmpty
  BY DEF StaysPut, queueVars, Queue!isEmpty
<1> QED
  BY <1>1, <1>2 DEF PlaceInv, StaysPut, queueVars

\* The next word leaves SERVER_FIFO, and the others stay in it.
LEMMA TailTakes ==
  ASSUME TypeInv, PlaceInv, server_fifo # <<>>, server_fifo' = Tail(server_fifo)
  PROVE  /\ \A c \in Clients : InFifo(c)' => InFifo(c) /\ c # Head(server_fifo)
         /\ \A c \in Clients : \A j, k \in 1 .. Len(server_fifo') :
              server_fifo'[j] = c /\ server_fifo'[k] = c => j = k
         /\ Head(server_fifo) \in Clients => InFifo(Head(server_fifo))
<1>1. /\ Len(server_fifo') = Len(server_fifo) - 1 /\ Len(server_fifo) \in Nat /\ Len(server_fifo) > 0
      /\ \A k \in 1 .. Len(server_fifo') : server_fifo'[k] = server_fifo[k + 1]
      /\ Head(server_fifo) = server_fifo[1]
  BY DEF TypeInv, TypeOK
<1>2. \A k \in 1 .. Len(server_fifo') : k + 1 \in 1 .. Len(server_fifo) /\ k + 1 # 1
  BY <1>1
<1>3. 1 \in 1 .. Len(server_fifo)
  BY <1>1
<1>4. ASSUME NEW c \in Clients, InFifo(c)' PROVE InFifo(c) /\ c # Head(server_fifo)
  BY <1>1, <1>2, <1>3, <1>4 DEF InFifo, PlaceInv
<1>5. ASSUME NEW c \in Clients, NEW j \in 1 .. Len(server_fifo'), NEW k \in 1 .. Len(server_fifo'),
             server_fifo'[j] = c, server_fifo'[k] = c
      PROVE  j = k
  <2>1. j + 1 = k + 1
    BY <1>1, <1>2, <1>5 DEF PlaceInv
  <2> QED
    BY <1>1, <2>1
<1> QED
  BY <1>1, <1>3, <1>4, <1>5 DEF InFifo

LEMMA AppendPlaces ==
  ASSUME TypeInv, NEW w \in Words, server_fifo' = Append(server_fifo, w)
  PROVE  /\ \A c \in Clients : InFifo(c)' <=> InFifo(c) \/ c = w
         /\ \A c \in Clients :
              (~InFifo(c) \/ c # w)
              /\ (\A j, k \in 1 .. Len(server_fifo) : server_fifo[j] = c /\ server_fifo[k] = c => j = k)
              => \A j, k \in 1 .. Len(server_fifo') :
                   server_fifo'[j] = c /\ server_fifo'[k] = c => j = k
<1>1. /\ Len(server_fifo') = Len(server_fifo) + 1 /\ Len(server_fifo) \in Nat
      /\ server_fifo'[Len(server_fifo) + 1] = w
      /\ \A k \in 1 .. Len(server_fifo) : server_fifo'[k] = server_fifo[k]
  BY DEF TypeInv, TypeOK
<1>2. \A k \in 1 .. Len(server_fifo') : k \in 1 .. Len(server_fifo) \/ k = Len(server_fifo) + 1
  BY <1>1
<1>3. Len(server_fifo) + 1 \in 1 .. Len(server_fifo') /\ 1 .. Len(server_fifo) \subseteq 1 .. Len(server_fifo')
  BY <1>1
<1> QED
  BY <1>1, <1>2, <1>3 DEF InFifo

LEMMA PlaceInvInit == Init => PlaceInv
BY DEF Init, PlaceInv, InFifo, InQueue, InHand, HasChild, Queue!QueueInit, Queue!isEmpty

LEMMA ClientKeepsPlaces ==
  ASSUME TypeInv, PlaceInv, NEW c \in Clients, ClientProcess(c) \/ User(c)
  PROVE  PlaceInv'
<1>0. /\ client \in [Clients -> ClientStates] /\ mode \in [Clients -> Modes]
      /\ \A d \in Clients : d \notin Modes
  BY BiboAssumption DEF TypeInv, TypeOK
<1>1. \A d \in Clients : (HasChild(d)' <=> HasChild(d)) /\ (InHand(d)' => InHand(d))
  BY ClientFrame DEF HasChild, InHand, childVars
<1>2. CASE server_fifo' = server_fifo
           /\ \E to \in ClientStates : client' = [client EXCEPT ![c] = to]
                                       /\ (to \in {"start", "pid"} => client[c] = "start")
  <2>1. StaysPut
    BY <1>0, <1>1, <1>2, ClientFrame DEF StaysPut
  <2> QED
    BY <2>1, SamePlaces
<1>3. ASSUME NEW w \in Words, server_fifo' = Append(server_fifo, w), w \in Clients => w = c,
             NEW to \in {"mode", "post"}, client' = [client EXCEPT ![c] = to],
             w = c => client[c] = "pid"
      PROVE  PlaceInv'
  <2>1. \A d \in Clients : InQueue(d)' <=> InQueue(d)
    BY <1>3, ClientFrame DEF InQueue, queueVars, Queue!isEmpty
  <2>2. Queue!isEmpty' <=> Queue!isEmpty
    BY ClientFrame DEF queueVars, Queue!isEmpty
  <2>3. items' = items /\ front' = front /\ rear' = rear
    BY ClientFrame DEF queueVars
  <2>4. ASSUME NEW d \in Clients
        PROVE  /\ \A j, k \in 1 .. Len(server_fifo') : server_fifo'[j] = d /\ server_fifo'[k] = d => j = k
               /\ InFifo(d)' => ~InQueue(d)' /\ ~InHand(d)' /\ ~HasChild(d)'
               /\ client'[d] \in {"start", "pid"} => ~InFifo(d)'
    BY <1>0, <1>1, <1>3, <2>1, AppendPlaces DEF PlaceInv
  <2> QED
    BY <1>0, <1>1, <1>3, <2>1, <2>2, <2>3, <2>4 DEF PlaceInv
<1>4. CASE WritePid(c)
  <2>1. client[c] = "pid" /\ c \in Words
    BY <1>4 DEF WritePid, WriteWord, Step, Words
  <2>2. CASE client' = [client EXCEPT ![c] = "mode"] /\ server_fifo' = Append(server_fifo, c)
    BY <1>3, <2>1, <2>2
  <2>3. CASE client' = [client EXCEPT ![c] = "gone"] /\ server_fifo' = server_fifo
    BY <1>2, <2>3 DEF ClientStates
  <2> QED
    BY <1>4, <2>2, <2>3 DEF WritePid, WriteWord, Step
<1>5. CASE WriteMode(c)
  <2>1. mode[c] \in Words /\ mode[c] \notin Clients
    BY <1>0 DEF Words
  <2>2. CASE client' = [client EXCEPT ![c] = "post"] /\ server_fifo' = Append(server_fifo, mode[c])
    BY <1>3, <2>1, <2>2
  <2>3. CASE client' = [client EXCEPT ![c] = "gone"] /\ server_fifo' = server_fifo
    BY <1>2, <2>3 DEF ClientStates
  <2> QED
    BY <1>5, <2>2, <2>3 DEF WriteMode, WriteWord, Step
<1>6. CASE SemWait(c) \/ SemPost(c) \/ ReadStatus(c) \/ Leave(c) \/ User(c)
  BY <1>2, <1>6 DEF SemWait, SemPost, ReadStatus, Leave, User, Quit, KillServer, Interrupt, Step,
                    ClientStates
<1> QED
  BY <1>4, <1>5, <1>6 DEF ClientProcess

LEMMA ServerKeepsPlaces ==
  ASSUME TypeInv, PlaceInv, ServerProcess
  PROVE  PlaceInv'
<1>0. client \in [Clients -> ClientStates] /\ child \in [Clients -> ChildStates]
  BY DEF TypeInv, TypeOK
<1>1. CASE Dequeue
  <2>1. /\ items' = items /\ front \in front .. rear /\ client_pid' = items[front]
        /\ ~Queue!isEmpty' => front' = front + 1 /\ rear' = rear
    BY <1>1, DequeueTakes DEF Dequeue, TypeInv, TypeOK
  <2>2. /\ ~Queue!isEmpty /\ front \in Int /\ rear \in Int
        /\ srv = "top" /\ UNCHANGED <<server_fifo, client, child>>
    BY <1>1, QueueIndices DEF Dequeue, TypeInv, TypeOK, clientVars, childVars
  <2>3. ~Queue!isEmpty' => \A k \in front' .. rear' : k \in front .. rear /\ k # front
    BY <2>1, <2>2
  <2>4. ASSUME NEW d \in Clients
        PROVE  /\ InFifo(d)' <=> InFifo(d)
               /\ HasChild(d)' <=> HasChild(d)
               /\ InHand(d)' => d = items[front] /\ InQueue(d)
               /\ InQueue(d)' => InQueue(d) /\ d # items[front]
    BY <2>1, <2>2, <2>3 DEF InFifo, HasChild, InHand, InQueue, PlaceInv
  <2> QED
    BY <2>1, <2>2, <2>3, <2>4 DEF PlaceInv
<1>2. CASE ReadPid
  <2>1. /\ server_fifo # <<>> /\ server_fifo' = Tail(server_fifo) /\ client_pid' = Head(server_fifo)
        /\ srv = "top" /\ UNCHANGED <<queueVars, client, child>>
    BY <1>2 DEF ReadPid, clientVars, childVars
  <2>2. ASSUME NEW d \in Clients
        PROVE  /\ InQueue(d)' <=> InQueue(d)
               /\ HasChild(d)' <=> HasChild(d)
               /\ InHand(d)' => d = Head(server_fifo) /\ InFifo(d)
    BY <2>1, TailTakes DEF InQueue, HasChild, InHand, queueVars, Queue!isEmpty
  <2>3. (Queue!isEmpty' <=> Queue!isEmpty) /\ items' = items /\ front' = front /\ rear' = rear
    BY <2>1 DEF queueVars, Queue!isEmpty
  <2> QED
    BY <2>1, <2>2, <2>3, TailTakes DEF PlaceInv
<1>3. CASE ReadMode /\ server_fifo' # server_fifo
  <2>1. /\ server_fifo # <<>> /\ server_fifo' = Tail(server_fifo) /\ client_pid' = client_pid
        /\ srv = "mode" /\ UNCHANGED <<queueVars, client, child>>
    BY <1>3 DEF ReadMode, clientVars, childVars
  <2>2. ASSUME NEW d \in Clients
        PROVE  /\ InQueue(d)' <=> InQueue(d)
               /\ HasChild(d)' <=> HasChild(d)
               /\ InHand(d)' => InHand(d)
    BY <2>1 DEF InQueue, HasChild, InHand, queueVars, Queue!isEmpty
  <2>3. (Queue!isEmpty' <=> Queue!isEmpty) /\ items' = items /\ front' = front /\ rear' = rear
    BY <2>1 DEF queueVars, Queue!isEmpty
  <2> QED
    BY <2>1, <2>2, <2>3, TailTakes DEF PlaceInv
<1>4. CASE ReadMode /\ server_fifo' = server_fifo
  BY <1>4, SamePlaces DEF ReadMode, StaysPut, InHand, HasChild, clientVars, childVars
<1>5. CASE Admit \/ WriteStatus
  <2>1. StaysPut
    BY <1>5 DEF Admit, WriteStatus, StaysPut, InHand, HasChild, clientVars, childVars
  <2> QED
    BY <2>1, SamePlaces
<1>6. CASE OpenStatusFifo
  <2>1. StaysPut
    BY <1>0, <1>6 DEF OpenStatusFifo, StaysPut, InHand, HasChild, childVars
  <2> QED
    BY <2>1, SamePlaces
<1>7. CASE HandleSigusr2
  <2>1. StaysPut
    BY <1>0, <1>7 DEF HandleSigusr2, StaysPut, InHand, HasChild, childVars
  <2> QED
    BY <2>1, SamePlaces
<1>8. CASE Enqueue /\ Queue!Append_(client_pid)
  <2>1. /\ ~Queue!isEmpty' /\ rear' \in front' .. rear' /\ items'[rear'] = client_pid
        /\ \A k \in front' .. rear' :
             k # rear' => ~Queue!isEmpty /\ k \in front .. rear /\ items'[k] = items[k]
    BY <1>8, EnqueueAdds DEF TypeInv, TypeOK, Enqueue, Busy
  <2>2. srv = "enqueue" /\ srv' = "top" /\ UNCHANGED <<client_pid, server_fifo, client, child>>
    BY <1>8 DEF Enqueue, clientVars, childVars
  <2>3. ASSUME NEW d \in Clients
        PROVE  /\ InFifo(d)' <=> InFifo(d)
               /\ HasChild(d)' <=> HasChild(d)
               /\ ~InHand(d)'
               /\ InQueue(d)' => InQueue(d) \/ (d = client_pid /\ InHand(d))
               /\ InHand(d) <=> d = client_pid
    BY <2>1, <2>2 DEF InFifo, HasChild, InHand, InQueue
  <2>4. ASSUME NEW d \in Clients, NEW j \in front' .. rear', NEW k \in front' .. rear',
               items'[j] = d, items'[k] = d
        PROVE  j = k
    <3>1. CASE d = client_pid
      <4>1. ~InQueue(d)
        BY <2>3, <3>1 DEF PlaceInv
      <4>2. \A l \in front' .. rear' : items'[l] = d => l = rear'
        BY <2>1, <4>1 DEF InQueue
      <4> QED
        BY <2>4, <4>2
    <3>2. CASE d # client_pid
      <4>1. j # rear' /\ k # rear'
        BY <2>1, <2>4, <3>2
      <4> QED
        BY <2>1, <2>4, <4>1 DEF PlaceInv
    <3> QED
      BY <3>1, <3>2
  <2> QED
    BY <2>2, <2>3, <2>4 DEF PlaceInv
<1>9. CASE Enqueue /\ Queue!Refuse(client_pid)
  <2>1. StaysPut
    BY <1>9 DEF Enqueue, Queue!Refuse, Queue!queueVars, queueVars, StaysPut, InHand, HasChild, clientVars,
                childVars
  <2> QED
    BY <2>1, SamePlaces
<1>10. CASE Fork
  <2>1. /\ srv = "fork" /\ srv' \in {"top", "crashed"}
        /\ child' = [child EXCEPT ![client_pid] = "forked"] \/ child' = child
        /\ UNCHANGED <<client_pid, server_fifo, queueVars, client>>
    BY <1>10 DEF Fork, clientVars
  <2>2. ASSUME NEW d \in Clients
        PROVE  /\ InFifo(d)' <=> InFifo(d)
               /\ InQueue(d)' <=> InQueue(d)
               /\ ~InHand(d)'
               /\ HasChild(d)' => HasChild(d) \/ InHand(d)
    BY <1>0, <2>1 DEF InFifo, HasChild, InHand, InQueue, queueVars, Queue!isEmpty
  <2>3. (Queue!isEmpty' <=> Queue!isEmpty) /\ items' = items /\ front' = front /\ rear' = rear
    BY <2>1 DEF queueVars, Queue!isEmpty
  <2> QED
    BY <2>1, <2>2, <2>3 DEF PlaceInv
<1> QED
  BY <1>1, <1>2, <1>3, <1>4, <1>5, <1>6, <1>7, <1>8, <1>9, <1>10
  DEF ServerProcess, Enqueue, Queue!enqueue

LEMMA ChildKeepsPlaces ==
  ASSUME TypeInv, PlaceInv, NEW c \in Clients, ChildProcess(c)
  PROVE  PlaceInv'
<1>1. \A d \in Clients : HasChild(d)' <=> HasChild(d)
  BY DEF TypeInv, TypeOK, ChildProcess, ReadCount, WriteCount, OpenSession, HandleQuit, HandleKillServer,
         HasChild
<1>2. client' = client \/ client' = [client EXCEPT ![c] = "session"]
  BY DEF ChildProcess, ReadCount, WriteCount, OpenSession, HandleQuit, HandleKillServer, Step, clientVars
<1>3. StaysPut
  BY <1>1, <1>2, ChildFrame DEF StaysPut, InHand, serverVars, TypeInv, TypeOK
<1> QED
  BY <1>3, SamePlaces

LEMMA PlaceInvNext == TypeInv /\ PlaceInv /\ [Next]_vars => PlaceInv'
<1> SUFFICES ASSUME TypeInv, PlaceInv, [Next]_vars PROVE PlaceInv'
  OBVIOUS
<1>1. CASE UNCHANGED vars
  <2>1. StaysPut
    BY <1>1 DEF vars, StaysPut, InHand, HasChild, serverVars, clientVars, childVars
  <2> QED
    BY <2>1, SamePlaces
<1> QED
  BY <1>1, ClientKeepsPlaces, ServerKeepsPlaces, ChildKeepsPlaces DEF Next

LEMMA PlacesHold == Spec => []PlaceInv
BY TypesHold, PlaceInvInit, PlaceInvNext, PTL DEF Spec

LEMMA AtMostOne ==
  ASSUME NEW S, \A x, y \in S : x = y
  PROVE  Cardinality(S) <= 1
<1>1. CASE S = {}
  BY <1>1, FS_EmptySet
<1>2. ASSUME NEW x \in S PROVE Cardinality(S) = 1
  <2>1. S = {x}
    OBVIOUS
  <2> QED
    BY <2>1, FS_Singleton
<1> QED
  BY <1>1, <1>2

\* No client is queued twice, forked for twice, or queued while it is served
\* (lines 557-611 of the server).
THEOREM OnePlaceOnly == Spec => []OnePlace
<1>1. TypeInv /\ PlaceInv => OnePlace
  <2> SUFFICES ASSUME TypeInv, PlaceInv, NEW c \in Clients
               PROVE  Cardinality(Places(c)) <= 1
    BY DEF OnePlace
  <2> DEFINE fifo(x) == InFifo(c) /\ \E j \in 1 .. Len(server_fifo) : server_fifo[j] = c /\ x = <<"fifo", j>>
             queue(x) == InQueue(c) /\ \E j \in front .. rear : items[j] = c /\ x = <<"queue", j - front + 1>>
             hand(x) == InHand(c) /\ x = <<"hand", 1>>
             served(x) == HasChild(c) /\ x = <<"child", 1>>
  <2>1. DOMAIN server_fifo = 1 .. Len(server_fifo)
    BY DEF TypeInv, TypeOK
  <2>2. ASSUME NEW k \in DOMAIN Queue!Contents, Queue!Contents[k] = c
        PROVE  queue(<<"queue", k>>)
    <3>1. CASE Queue!isEmpty
      <4>1. Queue!Contents = <<>>
        BY <3>1 DEF Queue!Contents
      <4> QED
        BY <2>2, <4>1
    <3>2. CASE ~Queue!isEmpty
      <4>1. front \in Int /\ rear \in Int
        BY <3>2, QueueIndices DEF TypeInv, TypeOK
      <4>2. k \in 1 .. rear - front + 1 /\ items[front + k - 1] = c
        BY <2>2, <3>2 DEF Queue!Contents
      <4>3. front + k - 1 \in front .. rear /\ k = (front + k - 1) - front + 1
        BY <4>1, <4>2
      <4> QED
        BY <3>2, <4>2, <4>3 DEF InQueue
    <3> QED
      BY <3>1, <3>2
  <2>3. ASSUME NEW x \in Places(c) PROVE fifo(x) \/ queue(x) \/ hand(x) \/ served(x)
    <3>1. CASE x \in {<<"fifo", j>> : j \in {k \in DOMAIN server_fifo : server_fifo[k] = c}}
      BY <2>1, <3>1 DEF InFifo
    <3>2. CASE x \in {<<"queue", j>> : j \in {k \in DOMAIN Queue!Contents : Queue!Contents[k] = c}}
      BY <2>2, <3>2
    <3>3. CASE x \in {<<"hand", 1>> : j \in IF InHand(c) THEN {1} ELSE {}}
      BY <3>3
    <3>4. CASE x \in {<<"child", 1>> : j \in IF HasChild(c) THEN {1} ELSE {}}
      BY <3>4
    <3> QED
      BY <2>3, <3>1, <3>2, <3>3, <3>4 DEF Places
  <2>4. ASSUME NEW x \in Places(c), NEW y \in Places(c) PROVE x = y
    <3>1. CASE fifo(x) /\ fifo(y)
      BY <3>1 DEF PlaceInv
    <3>2. CASE queue(x) /\ queue(y)
      BY <3>2 DEF PlaceInv, InQueue
    <3>3. CASE (hand(x) /\ hand(y)) \/ (served(x) /\ served(y))
      BY <3>3
    <3>4. /\ fifo(x) => ~queue(y) /\ ~hand(y) /\ ~served(y)
          /\ queue(x) => ~fifo(y) /\ ~hand(y) /\ ~served(y)
          /\ hand(x) => ~fifo(y) /\ ~queue(y) /\ ~served(y)
          /\ served(x) => ~fifo(y) /\ ~queue(y) /\ ~hand(y)
      BY DEF PlaceInv
    <3>5. /\ fifo(x) \/ queue(x) \/ hand(x) \/ served(x)
          /\ fifo(y) \/ queue(y) \/ hand(y) \/ served(y)
      BY <2>3
    <3> QED
      BY <3>1, <3>2, <3>3, <3>4, <3>5
  <2> QED
    BY <2>4, AtMostOne
<1> QED
  BY <1>1, TypesHold, PlacesHold, PTL

-----------------------------------------------------------------------------
(* The slots *)

\* add_client() has given client_pid a slot, and its child is not forked yet.
BeingConnected(c) == client_pid = c /\ srv \in {"open", "write", "fork"} /\ flag = 2
BeingServed(c) == child[c] \notin {"none", "exited"}

HolderInv ==
  \A k \in Slots : connected_clients[k] \in Clients =>
    /\ BeingConnected(connected_clients[k]) \/ BeingServed(connected_clients[k])
    /\ \A l \in Slots : connected_clients[l] = connected_clients[k] => k = l

\* When killServer was handled the slots are not looked at any more.
SlotInv == ServerRuns /\ ~sigusr2 => HolderInv

\* A step that gives no slot, and ends no child.
KeepsSlots ==
  /\ UNCHANGED connected_clients
  /\ \A c \in Clients : BeingConnected(c) \/ BeingServed(c) => BeingConnected(c)' \/ BeingServed(c)'

LEMMA SameHolders ==
  ASSUME SlotInv, KeepsSlots, ServerRuns' /\ ~sigusr2' => ServerRuns /\ ~sigusr2
  PROVE  SlotInv'
BY DEF SlotInv, KeepsSlots, HolderInv

LEMMA SlotInvInit == Init => SlotInv
<1> SUFFICES ASSUME Init PROVE SlotInv
  OBVIOUS
<1>1. \A k \in Slots : connected_clients[k] \notin Clients
  BY BiboAssumption DEF Init, Modes
<1> QED
  BY <1>1 DEF SlotInv, HolderInv

\* Nobody who is given a slot has one.
LEMMA AdmitKeepsSlots ==
  ASSUME TypeInv, PlaceInv, SlotInv, Admit
  PROVE  SlotInv'
<1>1. /\ srv = "admit" /\ srv' = "open" /\ sigusr2' = sigusr2
      /\ UNCHANGED <<client_pid, child>>
  BY DEF Admit, childVars
<1>2. \A c \in Clients : ~BeingConnected(c) /\ (BeingServed(c)' <=> BeingServed(c))
  BY <1>1 DEF BeingConnected, BeingServed
<1>3. client_pid \in Clients => ~BeingServed(client_pid)
  BY <1>1 DEF PlaceInv, InHand, HasChild, BeingServed
<1>4. CASE UNCHANGED connected_clients
  BY <1>1, <1>2, <1>4, SameHolders DEF KeepsSlots, ServerRuns
<1>5. CASE TakeSlot /\ flag' = 2
  <2> SUFFICES ASSUME ~sigusr2 PROVE HolderInv'
    BY <1>1 DEF SlotInv
  <2>1. HolderInv
    BY <1>1 DEF SlotInv, ServerRuns
  <2>2. \A k \in Slots : connected_clients[k] \in Clients => connected_clients[k] # client_pid
    BY <1>2, <1>3, <2>1 DEF HolderInv
  <2>3. \A k \in Slots : connected_clients'[k] =
          IF k = FirstSlot(FreeSlots) THEN client_pid ELSE connected_clients[k]
    BY <1>5 DEF TakeSlot, TypeInv, TypeOK
  <2>4. \A k \in Slots : connected_clients'[k] \in Clients =>
          (BeingConnected(connected_clients[k]) \/ BeingServed(connected_clients[k]))'
    BY <1>1, <1>5, <2>1, <2>3 DEF HolderInv, BeingConnected, BeingServed
  <2>5. \A k, l \in Slots : connected_clients'[k] \in Clients /\ connected_clients'[l] = connected_clients'[k]
          => k = l
    BY <2>1, <2>2, <2>3 DEF HolderInv
  <2> QED
    BY <2>4, <2>5 DEF HolderInv
<1> QED
  BY <1>4, <1>5 DEF Admit

LEMMA ServerKeepsSlots ==
  ASSUME TypeInv, PlaceInv, SlotInv, ServerProcess
  PROVE  SlotInv'
<1>0. child \in [Clients -> ChildStates] /\ flag \in Statuses
  BY DEF TypeInv, TypeOK
<1>1. CASE Admit
  BY <1>1, AdmitKeepsSlots
<1>2. CASE HandleSigusr2
  BY <1>2 DEF HandleSigusr2, SlotInv, ServerRuns
<1>3. CASE Dequeue \/ ReadPid \/ ReadMode \/ Enqueue
  <2>1. /\ srv \in {"top", "mode", "enqueue"} /\ UNCHANGED <<connected_clients, child, sigusr2>>
    BY <1>3 DEF Dequeue, ReadPid, ReadMode, Enqueue, sharedVars, childVars
  <2> QED
    BY <2>1, SameHolders DEF KeepsSlots, BeingConnected, BeingServed, ServerRuns
<1>4. CASE OpenStatusFifo
  BY <1>4, SameHolders DEF OpenStatusFifo, KeepsSlots, BeingConnected, BeingServed, ServerRuns,
                           sharedVars, childVars
<1>5. CASE WriteStatus
  <2>1. /\ srv = "write" /\ UNCHANGED <<connected_clients, child, sigusr2, client_pid, flag>>
        /\ srv' = "crashed" \/ srv' = Continue_[flag]
    BY <1>5 DEF WriteStatus, sharedVars, childVars
  <2>2. CASE srv' = "crashed"
    BY <2>2 DEF SlotInv, ServerRuns
  <2>3. CASE srv' = Continue_[flag]
    <3>1. flag = 2 => srv' = "fork"
      BY <2>3 DEF Continue_, Statuses
    <3> QED
      BY <2>1, <3>1, SameHolders DEF KeepsSlots, BeingConnected, BeingServed, ServerRuns
  <2> QED
    BY <2>1, <2>2, <2>3
<1>6. CASE Fork
  <2>1. /\ srv = "fork" /\ UNCHANGED <<connected_clients, sigusr2>>
        /\ srv' = "crashed" \/ child' = [child EXCEPT ![client_pid] = "forked"]
    BY <1>6 DEF Fork, sharedVars
  <2>2. CASE srv' = "crashed"
    BY <2>2 DEF SlotInv, ServerRuns
  <2>3. CASE child' = [child EXCEPT ![client_pid] = "forked"]
    BY <1>0, <2>1, <2>3, SameHolders DEF KeepsSlots, BeingConnected, BeingServed, ServerRuns
  <2> QED
    BY <2>1, <2>2, <2>3
<1> QED
  BY <1>1, <1>2, <1>3, <1>4, <1>5, <1>6 DEF ServerProcess

LEMMA ChildKeepsSlots ==
  ASSUME TypeInv, PlaceInv, SlotInv, NEW c \in Clients, ChildProcess(c)
  PROVE  SlotInv'
<1>0. child \in [Clients -> ChildStates] /\ UNCHANGED serverVars
  BY ChildFrame DEF TypeInv, TypeOK
<1>1. CASE ReadCount(c) \/ WriteCount(c) \/ OpenSession(c)
  <2>1. /\ UNCHANGED <<connected_clients, sigusr2>>
        /\ \A d \in Clients : BeingServed(d) => BeingServed(d)'
    BY <1>0, <1>1 DEF ReadCount, WriteCount, OpenSession, BeingServed, sharedVars
  <2> QED
    BY <1>0, <2>1, SameHolders DEF KeepsSlots, BeingConnected, ServerRuns, serverVars
<1>2. CASE HandleKillServer(c)
  BY <1>0, <1>2 DEF HandleKillServer, SlotInv, ServerRuns, serverVars
<1>3. CASE HandleQuit(c)
  <2>1. /\ UNCHANGED sigusr2 /\ FreeSlot(c) /\ child[c] = "serve"
        /\ \A d \in Clients : d # c /\ BeingServed(d) => BeingServed(d)'
    BY <1>0, <1>3 DEF HandleQuit, BeingServed
  <2> SUFFICES ASSUME ServerRuns, ~sigusr2 PROVE HolderInv'
    BY <1>0, <2>1 DEF SlotInv, ServerRuns, serverVars
  <2>2. HolderInv
    BY DEF SlotInv
  <2>3. ASSUME NEW k \in Slots, connected_clients'[k] \in Clients
        PROVE  connected_clients'[k] = connected_clients[k] /\ connected_clients[k] # c
    <3> DEFINE held == {l \in Slots : connected_clients[l] = c}
    <3>1. connected_clients'[k] = IF held # {} /\ k = FirstSlot(held) THEN 0 ELSE connected_clients[k]
      BY <2>1 DEF FreeSlot
    <3>2. 0 \notin Clients
      BY BiboAssumption DEF Modes
    <3>3. connected_clients[k] = c => held = {k}
      BY <2>2 DEF HolderInv
    <3>4. held = {k} => FirstSlot(held) = k
      BY BiboAssumption DEF FirstSlot, Slots
    <3> HIDE DEF held
    <3> QED
      BY <2>3, <3>1, <3>2, <3>3, <3>4
  <2>4. \A d \in Clients : BeingConnected(d) => BeingConnected(d)'
    BY <1>0 DEF BeingConnected, serverVars
  <2> QED
    BY <2>1, <2>2, <2>3, <2>4 DEF HolderInv
<1> QED
  BY <1>1, <1>2, <1>3 DEF ChildProcess

LEMMA SlotInvNext == TypeInv /\ PlaceInv /\ SlotInv /\ [Next]_vars => SlotInv'
<1> SUFFICES ASSUME TypeInv, PlaceInv, SlotInv, [Next]_vars PROVE SlotInv'
  OBVIOUS
<1>1. ASSUME NEW c \in Clients, ClientProcess(c) \/ User(c) PROVE SlotInv'
  <2>1. CASE srv' = "crashed"
    BY <2>1 DEF SlotInv, ServerRuns
  <2>2. CASE srv' = srv
    BY <1>1, <2>2, ClientFrame, SameHolders
    DEF KeepsSlots, BeingConnected, BeingServed, ServerRuns, sharedVars, childVars
  <2> QED
    BY <1>1, <2>1, <2>2, ClientFrame
<1>2. CASE UNCHANGED vars
  BY <1>2, SameHolders
  DEF vars, KeepsSlots, BeingConnected, BeingServed, ServerRuns, serverVars, sharedVars, childVars
<1> QED
  BY <1>1, <1>2, ServerKeepsSlots, ChildKeepsSlots DEF Next

\* Server and children share the array without a lock, and no slot is lost or
\* given to two clients (lines 137-143, 373-381 of the server).
THEOREM SlotsAreTrue == Spec => []SlotsTruthful
<1>1. SlotInv => SlotsTruthful
  BY DEF SlotInv, HolderInv, SlotsTruthful, BeingConnected, BeingServed, InHand
<1> QED
  BY <1>1, TypesHold, PlacesHold, SlotInvInit, SlotInvNext, PTL DEF Spec

-----------------------------------------------------------------------------
(* The counter *)

Served == {c \in Clients : HasChild(c)}
\* The children that have written the counter.
Wrote == {c \in Clients : child[c] \in {"open", "serve", "exited"}}
Lowest == MaxClients - Cardinality(Wrote)

\* A child takes one off what it has read, and that was not too low then.
CountInv ==
  /\ IsFiniteSet(Served)
  /\ Lowest <= empty_slot_count /\ empty_slot_count <= MaxClients
  /\ \A c \in Clients : child[c] = "counted" => Lowest <= tmp[c] /\ tmp[c] <= MaxClients

LEMMA WroteFinite ==
  ASSUME IsFiniteSet(Served)
  PROVE  /\ IsFiniteSet(Wrote) /\ Cardinality(Wrote) \in Nat
         /\ Cardinality(Served) \in Nat /\ Cardinality(Wrote) <= Cardinality(Served)
<1>1. Wrote \in SUBSET Served
  BY DEF Wrote, Served, HasChild
<1> QED
  BY <1>1, FS_Subset, FS_CardinalityType

LEMMA CountInvInit == Init => CountInv
<1> SUFFICES ASSUME Init PROVE CountInv
  OBVIOUS
<1>1. Served = {} /\ Wrote = {} /\ \A c \in Clients : child[c] # "counted"
  BY DEF Init, Served, Wrote, HasChild
<1> QED
  BY <1>1, FS_EmptySet, BiboAssumption DEF Init, CountInv, Lowest

\* The counter, and which children have written it.
SameCount == UNCHANGED <<empty_slot_count, tmp>> /\ Wrote' = Wrote

LEMMA CountQuiet ==
  ASSUME CountInv, SameCount, IsFiniteSet(Served)',
         \A c \in Clients : child'[c] = "counted" => child[c] = "counted"
  PROVE  CountInv'
BY DEF CountInv, SameCount, Lowest

LEMMA ChildKeepsCount ==
  ASSUME TypeInv, CountInv, NEW c \in Clients, ChildProcess(c)
  PROVE  CountInv'
<1>0. /\ child \in [Clients -> ChildStates] /\ tmp \in [Clients -> Int] /\ empty_slot_count \in Int
      /\ MaxClients \in Nat
  BY BiboAssumption DEF TypeInv, TypeOK
<1>1. Served' = Served
  BY <1>0 DEF ChildProcess, ReadCount, WriteCount, OpenSession, HandleQuit, HandleKillServer, Served,
              HasChild
<1>2. IsFiniteSet(Wrote) /\ Cardinality(Wrote) \in Nat /\ IsFiniteSet(Served)
  BY WroteFinite DEF CountInv
<1>3. CASE ReadCount(c)
  <2>1. /\ tmp' = [tmp EXCEPT ![c] = empty_slot_count] /\ child' = [child EXCEPT ![c] = "counted"]
        /\ child[c] = "forked" /\ empty_slot_count' = empty_slot_count
    BY <1>3 DEF ReadCount, sharedVars
  <2>2. Wrote' = Wrote
    BY <1>0, <2>1 DEF Wrote
  <2> QED
    BY <1>0, <1>1, <1>2, <2>1, <2>2 DEF CountInv, Lowest
<1>4. CASE WriteCount(c)
  <2>1. /\ tmp' = [tmp EXCEPT ![c] = 0] /\ child' = [child EXCEPT ![c] = "open"]
        /\ child[c] = "counted" /\ empty_slot_count' = tmp[c] - 1
    BY <1>4 DEF WriteCount, OneLess
  <2>2. Wrote' = Wrote \cup {c} /\ c \notin Wrote
    BY <1>0, <2>1 DEF Wrote
  <2>3. Cardinality(Wrote') = Cardinality(Wrote) + 1
    BY <1>2, <2>2, FS_AddElement
  <2>4. Lowest <= tmp[c] /\ tmp[c] <= MaxClients /\ tmp[c] \in Int
    BY <1>0, <2>1 DEF CountInv
  <2>5. Lowest' = Lowest - 1 /\ Lowest \in Int
    BY <1>0, <1>2, <2>3 DEF Lowest
  <2>6. Lowest' <= empty_slot_count' /\ empty_slot_count' <= MaxClients
    BY <1>0, <2>1, <2>4, <2>5
  <2>7. ASSUME NEW d \in Clients, child'[d] = "counted"
        PROVE  Lowest' <= tmp'[d] /\ tmp'[d] <= MaxClients
    <3>1. d # c /\ child[d] = "counted" /\ tmp'[d] = tmp[d] /\ tmp[d] \in Int
      BY <1>0, <2>1, <2>7
    <3> QED
      BY <1>0, <2>5, <3>1 DEF CountInv
  <2> QED
    BY <1>1, <1>2, <2>6, <2>7 DEF CountInv
<1>5. CASE OpenSession(c) \/ HandleQuit(c) \/ HandleKillServer(c)
  <2>1. /\ UNCHANGED <<empty_slot_count, tmp>> /\ child[c] \in {"open", "serve"}
        /\ \E s \in {"serve", "exited"} : child' = [child EXCEPT ![c] = s]
    BY <1>5 DEF OpenSession, HandleQuit, HandleKillServer, sharedVars
  <2>2. Wrote' = Wrote /\ \A d \in Clients : child'[d] = "counted" => child[d] = "counted"
    BY <1>0, <2>1 DEF Wrote
  <2> QED
    BY <1>1, <1>2, <2>1, <2>2, CountQuiet DEF SameCount
<1> QED
  BY <1>3, <1>4, <1>5 DEF ChildProcess

\* A child is forked for a client that has none, so that none that has written
\* the counter is forgotten.
LEMMA ForkKeepsCount ==
  ASSUME TypeInv, PlaceInv, CountInv, Fork
  PROVE  CountInv'
<1>0. child \in [Clients -> ChildStates]
  BY DEF TypeInv, TypeOK
<1>1. /\ srv = "fork" /\ UNCHANGED <<empty_slot_count, tmp>>
      /\ child' = [child EXCEPT ![client_pid] = "forked"] \/ child' = child
  BY DEF Fork, sharedVars
<1>2. client_pid \in Clients => child[client_pid] = "none"
  BY <1>1 DEF PlaceInv, InHand, HasChild
<1>3. Wrote' = Wrote /\ \A c \in Clients : child'[c] = "counted" => child[c] = "counted"
  BY <1>0, <1>1, <1>2 DEF Wrote
<1>4. Served' = Served \/ Served' = Served \cup {client_pid}
  BY <1>0, <1>1 DEF Served, HasChild
<1>5. IsFiniteSet(Served)'
  BY <1>4, FS_AddElement DEF CountInv
<1> QED
  BY <1>1, <1>3, <1>5, CountQuiet DEF SameCount

LEMMA CountInvNext == TypeInv /\ PlaceInv /\ CountInv /\ [Next]_vars => CountInv'
<1> SUFFICES ASSUME TypeInv, PlaceInv, CountInv, [Next]_vars PROVE CountInv'
  OBVIOUS
<1>1. CASE UNCHANGED <<empty_slot_count, child, tmp>>
  <2>1. Wrote' = Wrote /\ Served' = Served
    BY <1>1 DEF Wrote, Served, HasChild
  <2> QED
    BY <1>1, <2>1, CountQuiet DEF SameCount, CountInv
<1>2. CASE ServerProcess /\ ~Fork
  <2>1. UNCHANGED <<empty_slot_count, child, tmp>>
    BY <1>2 DEF ServerProcess, Dequeue, ReadPid, ReadMode, Admit, OpenStatusFifo, WriteStatus, Enqueue,
                HandleSigusr2, sharedVars, childVars
  <2> QED
    BY <1>1, <2>1
<1>3. ASSUME NEW c \in Clients, ClientProcess(c) \/ User(c) PROVE CountInv'
  BY <1>1, <1>3, ClientFrame DEF sharedVars, childVars
<1>4. CASE UNCHANGED vars
  BY <1>1, <1>4 DEF vars, sharedVars, childVars
<1> QED
  BY <1>2, <1>3, <1>4, ForkKeepsCount, ChildKeepsCount DEF Next

\* However the unlocked decrements interleave, the counter is never below the
\* slots that the children forked so far can have taken (line 606 of the
\* server).
THEOREM CountIsNotTooLow == Spec => []CountNotUnderstated
<1>1. TypeInv /\ CountInv => CountNotUnderstated
  <2> SUFFICES ASSUME TypeInv, CountInv PROVE CountNotUnderstated
    OBVIOUS
  <2>1. MaxClients \in Nat /\ empty_slot_count \in Int
    BY BiboAssumption DEF TypeInv, TypeOK
  <2>2. /\ Cardinality(Wrote) \in Nat /\ Cardinality(Served) \in Nat
        /\ Cardinality(Wrote) <= Cardinality(Served)
    BY WroteFinite DEF CountInv
  <2>3. empty_slot_count >= MaxClients - Cardinality(Served) /\ empty_slot_count <= MaxClients
    BY <2>1, <2>2 DEF CountInv, Lowest
  <2> QED
    BY <2>3 DEF CountNotUnderstated, Served
<1> QED
  BY <1>1, TypesHold, PlacesHold, CountInvInit, CountInvNext, PTL DEF Spec

-----------------------------------------------------------------------------
(* Nobody is forgotten.  Until the server has once read a pid whose mode was *)
(* not there yet, it reads a pid for a pid and a mode for a mode, and a client *)
(* is told "full" only when it asked for connect: it reads that and goes on. *)

\* The pid has been read whose mode is still to be written, by a client between
\* its two writes, or by one that ended there and left the semaphore taken.
ModeToCome ==
  /\ semaphore = 0
  /\ \A c \in Clients :
       client[c] \notin {"pid", "post"} /\ (client[c] = "mode" => c = client_pid)

AlignInv ==
  ServerRuns /\ ~split =>
    /\ \A c \in Clients : client[c] = "mode" =>
         \/ Len(server_fifo) > 0 /\ LastWord = c
         \/ Len(server_fifo) = 0 /\ srv = "mode" /\ client_pid = c
    /\ srv = "mode" =>
         /\ client_pid \in Clients
         /\ Len(server_fifo) > 0 => server_fifo[1] = mode[client_pid]
         /\ Len(server_fifo) = 0 => ModeToCome
    /\ srv # "mode" /\ Len(server_fifo) > 0 => server_fifo[1] \in Clients
    /\ srv = "admit" => client_pid \in Clients /\ connection_mode = mode[client_pid]
    /\ srv \in {"open", "write"} /\ client_pid \in Clients /\ flag = 0 => mode[client_pid] = 0

Kept(c) == InFifo(c) \/ InQueue(c) \/ InHand(c) \/ HasChild(c)
Waits(c) == client[c] \in {"mode", "post", "open", "status"}

Answered(c) == mode[c] = 0 /\ status_fifo[c] # <<>>

KeptInv ==
  ServerRuns /\ ~split =>
    \A c \in Clients : Waits(c) => Kept(c) \/ Answered(c) \/ c \in refused

\* enqueue() refuses nobody.
HasRoom == srv = "enqueue" /\ ~split => ~Queue!isFull

\* The array holds all that came into the queue since it was empty: a client
\* before front has a child, or is just getting one.
GetsChild(c) == InHand(c) /\ flag = 2 /\ srv \in {"open", "write", "fork"}

RoomInv ==
  ServerRuns /\ ~split =>
    /\ srv \in Busy => client_pid \in Clients
    /\ ~Queue!isEmpty =>
         /\ \A k \in 0 .. rear : items[k] \in Clients
         /\ \A j, k \in 0 .. rear : items[j] = items[k] => j = k
         /\ \A k \in 0 .. rear : k < front => HasChild(items[k]) \/ GetsChild(items[k])

\* The first word stays first when others follow it, and the second one comes
\* first when it has been read.
LEMMA FifoAppend ==
  ASSUME TypeInv, NEW w \in Words, server_fifo' = Append(server_fifo, w)
  PROVE  /\ Len(server_fifo') > 0 /\ LastWord' = w
         /\ Len(server_fifo) > 0 => server_fifo'[1] = server_fifo[1]
         /\ ~(Len(server_fifo) > 0) => server_fifo'[1] = w
BY DEF TypeInv, TypeOK, LastWord

LEMMA FifoTail ==
  ASSUME TypeInv, server_fifo # <<>>, server_fifo' = Tail(server_fifo)
  PROVE  /\ Len(server_fifo) > 0 /\ Head(server_fifo) = server_fifo[1]
         /\ Len(server_fifo') > 0 <=> Len(server_fifo) > 1
         /\ Len(server_fifo) > 1 => server_fifo'[1] = server_fifo[2] /\ LastWord' = LastWord
         /\ ~(Len(server_fifo) > 1) => LastWord = server_fifo[1]
BY DEF TypeInv, TypeOK, LastWord

LEMMA FirstFrame ==
  ASSUME TypeInv, FrameInv, Len(server_fifo) > 1
  PROVE  IF server_fifo[1] \in Clients THEN server_fifo[2] = mode[server_fifo[1]]
                                       ELSE server_fifo[2] \in Clients
<1>1. 1 \in 1 .. Len(server_fifo) - 1 /\ 1 + 1 = 2
  BY DEF TypeInv, TypeOK
<1> QED
  BY <1>1 DEF FrameInv, FramesWhole

LEMMA ModesAreNoClients ==
  ASSUME TypeInv, NEW c \in Clients
  PROVE  c \notin Modes /\ mode[c] \in Modes /\ mode[c] \notin Clients /\ c \in Words /\ mode[c] \in Words
BY BiboAssumption DEF TypeInv, TypeOK, Words

\* A step that leaves the FIFO alone, and the server where it is or no longer
\* running, keeps the requests aligned.
AlignQuiet ==
  /\ UNCHANGED <<server_fifo, client_pid, connection_mode, flag, mode, split>>
  /\ srv' = srv \/ ~ServerRuns'
  /\ \A c \in Clients : client'[c] = "mode" => client[c] = "mode"
  /\ ServerRuns /\ ~split /\ srv = "mode" /\ Len(server_fifo) = 0 =>
       semaphore' = 0 /\ \A c \in Clients : client'[c] \in {"pid", "post"} => client[c] \in {"pid", "post"}

LEMMA QuietKeepsAlign ==
  ASSUME AlignInv, AlignQuiet
  PROVE  AlignInv'
<1>1. /\ UNCHANGED <<server_fifo, client_pid, connection_mode, flag, mode, split, LastWord>>
      /\ \A c \in Clients : client'[c] = "mode" => client[c] = "mode"
  BY DEF AlignQuiet, LastWord
<1>2. CASE srv' = srv
  <2>1. ServerRuns /\ ~split /\ srv = "mode" /\ Len(server_fifo) = 0 => ModeToCome'
    BY <1>1 DEF AlignInv, AlignQuiet, ModeToCome
  <2> QED
    BY <1>1, <1>2, <2>1 DEF AlignInv, ServerRuns
<1>3. CASE ~ServerRuns'
  BY <1>3 DEF AlignInv
<1> QED
  BY <1>2, <1>3 DEF AlignQuiet

\* While the server waits for a mode that is not there, no client takes the
\* semaphore and none gives it back.
LEMMA ClientKeepsAlign ==
  ASSUME TypeInv, FrameInv, AlignInv, NEW c \in Clients, ClientProcess(c) \/ User(c)
  PROVE  AlignInv'
<1>0. /\ UNCHANGED <<client_pid, connection_mode, flag, mode, split>> /\ (srv' = srv \/ ~ServerRuns')
      /\ client \in [Clients -> ClientStates] /\ c \in Words /\ mode[c] \in Words
      /\ Len(server_fifo) \in Nat
  BY ClientFrame, ModesAreNoClients DEF TypeInv, TypeOK, ServerRuns, history
<1>1. CASE /\ server_fifo' = server_fifo /\ semaphore' = semaphore
           /\ \E to \in ClientStates \ {"mode", "pid", "post"} : client' = [client EXCEPT ![c] = to]
  <2>1. AlignQuiet
    BY <1>0, <1>1 DEF AlignQuiet, AlignInv, ModeToCome
  <2> QED
    BY <2>1, QuietKeepsAlign
<1>2. CASE WritePid(c) /\ client' = [client EXCEPT ![c] = "mode"]
                       /\ server_fifo' = Append(server_fifo, c)
  <2>1. /\ Len(server_fifo') > 0 /\ LastWord' = c
        /\ Len(server_fifo) > 0 => server_fifo'[1] = server_fifo[1]
        /\ ~(Len(server_fifo) > 0) => server_fifo'[1] = c
    BY <1>0, <1>2, FifoAppend
  <2>2. client[c] = "pid" /\ srv' = srv
    BY <1>2 DEF WritePid, WriteWord, Step, serverVars
  <2>3. \A d \in Clients : client'[d] = "mode" => d = c
    BY <1>0, <1>2, <2>2 DEF FrameInv, Critical
  <2>4. ServerRuns /\ ~split /\ srv = "mode" => Len(server_fifo) > 0
    BY <1>0, <2>2 DEF AlignInv, ModeToCome
  <2>5. Len(server_fifo') # 0
    BY <2>1
  <2> QED
    BY <1>0, <2>1, <2>2, <2>3, <2>4, <2>5 DEF AlignInv, ServerRuns
<1>3. CASE WriteMode(c) /\ client' = [client EXCEPT ![c] = "post"]
                        /\ server_fifo' = Append(server_fifo, mode[c])
  <2>1. client[c] = "mode" /\ srv' = srv
    BY <1>3 DEF WriteMode, WriteWord, Step, serverVars
  <2>2. /\ Len(server_fifo') > 0
        /\ Len(server_fifo) > 0 => server_fifo'[1] = server_fifo[1]
        /\ ~(Len(server_fifo) > 0) => server_fifo'[1] = mode[c]
    BY <1>0, <1>3, FifoAppend
  <2>3. \A d \in Clients : client'[d] # "mode"
    BY <1>0, <1>3, <2>1 DEF FrameInv, Critical
  <2>4. ServerRuns /\ ~split /\ ~(Len(server_fifo) > 0) => srv = "mode" /\ client_pid = c
    BY <1>0, <2>1 DEF AlignInv
  <2>5. Len(server_fifo') # 0
    BY <2>2
  <2> QED
    BY <1>0, <2>1, <2>2, <2>3, <2>4, <2>5 DEF AlignInv, ServerRuns
<1>4. CASE SemWait(c)
  <2>1. /\ semaphore = 1 /\ UNCHANGED <<server_fifo, srv>> /\ client' = [client EXCEPT ![c] = "pid"]
    BY <1>4 DEF SemWait, SemFree, Step, serverVars
  <2>2. AlignQuiet
    BY <1>0, <2>1 DEF AlignQuiet, AlignInv, ModeToCome
  <2> QED
    BY <2>2, QuietKeepsAlign
<1>5. CASE SemPost(c)
  <2>1. /\ client[c] = "post" /\ UNCHANGED <<server_fifo, srv>> /\ client' = [client EXCEPT ![c] = "open"]
    BY <1>5 DEF SemPost, Step, serverVars
  <2>2. AlignQuiet
    BY <1>0, <2>1 DEF AlignQuiet, AlignInv, ModeToCome
  <2> QED
    BY <2>2, QuietKeepsAlign
<1> QED
  BY <1>1, <1>2, <1>3, <1>4, <1>5
     DEF ClientProcess, User, WritePid, WriteMode, WriteWord, ReadStatus, Leave,
         Quit, KillServer, Interrupt, Step, ClientStates

LEMMA ChildKeepsAlign ==
  ASSUME TypeInv, AlignInv, NEW c \in Clients, ChildProcess(c)
  PROVE  AlignInv'
<1>1. client' = client \/ client' = [client EXCEPT ![c] = "session"]
  BY DEF ChildProcess, ReadCount, WriteCount, OpenSession, HandleQuit, HandleKillServer, Step, clientVars
<1>2. AlignQuiet
  BY <1>1, ChildFrame DEF AlignQuiet, AlignInv, ModeToCome, serverVars, history, TypeInv, TypeOK
<1> QED
  BY <1>2, QuietKeepsAlign

LEMMA ServerKeepsAlign ==
  ASSUME TypeInv, FrameInv, AlignInv, ServerProcess
  PROVE  AlignInv'
<1> SUFFICES ASSUME ServerRuns', ~split' PROVE AlignInv'
  BY DEF AlignInv
<1>0. client \in [Clients -> ClientStates] /\ flag \in Statuses /\ Len(server_fifo) \in Nat
  BY DEF TypeInv, TypeOK
<1>a. ServerRuns /\ ~split
  BY DEF ServerProcess, Dequeue, ReadPid, ReadMode, Admit, OpenStatusFifo, WriteStatus, Enqueue, Fork,
         HandleSigusr2, ServerRuns, history, TypeInv, TypeOK
<1>1. CASE Dequeue
  <2>1. /\ srv = "top" /\ srv' = "open" /\ flag' = 2
        /\ UNCHANGED <<server_fifo, client, mode>>
    BY <1>1 DEF Dequeue, clientVars
  <2>2. LastWord' = LastWord
    BY <2>1 DEF LastWord
  <2> QED
    BY <1>a, <2>1, <2>2 DEF AlignInv, ServerRuns
<1>2. CASE ReadPid
  <2>1. /\ srv = "top" /\ srv' = "mode" /\ server_fifo # <<>>
        /\ client_pid' = Head(server_fifo) /\ server_fifo' = Tail(server_fifo)
        /\ UNCHANGED <<client, mode, semaphore, flag, connection_mode>>
    BY <1>2 DEF ReadPid, clientVars
  <2>2. client_pid' = server_fifo[1] /\ Len(server_fifo) > 0
    BY <2>1, FifoTail
  <2>3. server_fifo[1] \in Clients
    BY <1>a, <2>1, <2>2 DEF AlignInv, ServerRuns
  <2>4. ASSUME NEW c \in Clients, client[c] = "mode" PROVE LastWord = c
    BY <1>a, <2>1, <2>2, <2>4 DEF AlignInv
  <2>5. CASE Len(server_fifo) > 1
    <3>1. Len(server_fifo') > 0 /\ server_fifo'[1] = server_fifo[2] /\ LastWord' = LastWord
      BY <2>1, <2>5, FifoTail
    <3>2. server_fifo[2] = mode[server_fifo[1]]
      BY <2>3, <2>5, FirstFrame
    <3>3. Len(server_fifo') # 0
      BY <3>1
    <3> QED
      BY <2>1, <2>2, <2>3, <2>4, <3>1, <3>2, <3>3 DEF AlignInv, ServerRuns
  <2>6. CASE ~(Len(server_fifo) > 1)
    <3>1. LastWord = server_fifo[1] /\ ~(Len(server_fifo') > 0)
      BY <2>1, <2>6, FifoTail
    <3>2. Len(server_fifo') = 0
      <4>1. server_fifo' \in Seq(Words)
        BY <2>1 DEF TypeInv, TypeOK
      <4>2. Len(server_fifo') \in Nat
        BY <4>1
      <4> QED
        BY <3>1, <4>2
    <3>3. ModeToCome'
      BY <2>1, <2>2, <2>3, <2>4, <3>1 DEF ModeToCome, FrameInv
    <3> QED
      BY <2>1, <2>2, <2>3, <2>4, <3>1, <3>2, <3>3 DEF AlignInv, ServerRuns
  <2> QED
    BY <2>5, <2>6
<1>3. CASE ReadMode
  <2>1. /\ srv = "mode" /\ server_fifo # <<>> /\ srv' = "admit"
        /\ connection_mode' = Head(server_fifo) /\ server_fifo' = Tail(server_fifo)
        /\ UNCHANGED <<client_pid, client, mode, flag>>
    BY <1>3 DEF ReadMode, clientVars
  <2>2. Len(server_fifo) > 0 /\ client_pid \in Clients /\ server_fifo[1] = mode[client_pid]
    BY <1>a, <2>1, FifoTail DEF AlignInv
  <2>4. connection_mode' = mode[client_pid] /\ server_fifo[1] \notin Clients
    BY <2>1, <2>2, FifoTail, ModesAreNoClients
  <2>5. Len(server_fifo') > 0 => server_fifo'[1] \in Clients /\ LastWord' = LastWord
    BY <2>1, <2>4, FifoTail, FirstFrame
  <2>6. ASSUME NEW c \in Clients, client[c] = "mode"
        PROVE  Len(server_fifo') > 0 /\ LastWord' = c
    <3>0. Len(server_fifo) # 0
      BY <2>2
    <3>1. LastWord = c
      BY <1>a, <2>6, <3>0 DEF AlignInv
    <3>2. Len(server_fifo) > 1
      BY <2>1, <2>4, <3>1, FifoTail
    <3> QED
      BY <2>1, <3>1, <3>2, FifoTail
  <2> QED
    BY <2>1, <2>2, <2>4, <2>5, <2>6 DEF AlignInv, ServerRuns
<1>4. CASE Admit
  <2>1. /\ srv = "admit" /\ srv' = "open"
        /\ UNCHANGED <<server_fifo, client_pid, connection_mode, client, mode>>
        /\ flag' = 2 \/ flag' = IF connection_mode \in Modes THEN connection_mode ELSE 2
    BY <1>4 DEF Admit, clientVars
  <2>2. LastWord' = LastWord /\ connection_mode = mode[client_pid]
    BY <1>a, <2>1 DEF LastWord, AlignInv
  <2>3. flag' = 0 => mode[client_pid] = 0
    BY <2>1, <2>2
  <2> QED
    BY <1>a, <2>1, <2>2, <2>3 DEF AlignInv, ServerRuns
<1>5. CASE OpenStatusFifo
  <2>1. /\ srv = "open" /\ srv' = "write"
        /\ UNCHANGED <<server_fifo, client_pid, connection_mode, mode, flag>>
        /\ \A c \in Clients : client'[c] = "mode" => client[c] = "mode"
    BY <1>0, <1>5 DEF OpenStatusFifo
  <2>2. LastWord' = LastWord
    BY <2>1 DEF LastWord
  <2> QED
    BY <1>a, <2>1, <2>2 DEF AlignInv, ServerRuns
<1>6. CASE WriteStatus \/ Enqueue \/ Fork
  <2>1. /\ UNCHANGED <<server_fifo, client, mode>> /\ ServerRuns /\ srv # "mode"
        /\ srv' \in {"top", "enqueue", "fork", "crashed"}
    BY <1>0, <1>6 DEF WriteStatus, Enqueue, Fork, clientVars, ServerRuns, Continue_, Statuses
  <2>2. LastWord' = LastWord
    BY <2>1 DEF LastWord
  <2> QED
    BY <1>a, <2>1, <2>2 DEF AlignInv
<1>7. CASE HandleSigusr2
  BY <1>7 DEF HandleSigusr2, ServerRuns
<1> QED
  BY <1>1, <1>2, <1>3, <1>4, <1>5, <1>6, <1>7 DEF ServerProcess

LEMMA AlignInvNext == TypeInv /\ FrameInv /\ AlignInv /\ [Next]_vars => AlignInv'
<1> SUFFICES ASSUME TypeInv, FrameInv, AlignInv, [Next]_vars PROVE AlignInv'
  OBVIOUS
<1>1. CASE UNCHANGED vars
  <2>1. AlignQuiet
    BY <1>1 DEF vars, AlignQuiet, AlignInv, ModeToCome, serverVars, history, clientVars
  <2> QED
    BY <2>1, QuietKeepsAlign
<1> QED
  BY <1>1, ClientKeepsAlign, ServerKeepsAlign, ChildKeepsAlign DEF Next

LEMMA AlignInvInit == Init => AlignInv
BY DEF Init, AlignInv, ServerRuns

\* enqueue() with room: the client is behind the others, who stay.
LEMMA EnqueueKeeps ==
  ASSUME Queue!QueueTypeOK, NEW w \in Words, Queue!enqueue(w), ~Queue!isFull
  PROVE  /\ Queue!Append_(w) /\ ~Queue!isEmpty' /\ front' \in Nat /\ rear' \in Nat
         /\ rear' \in front' .. rear' /\ items'[rear'] = w
         /\ ~Queue!isEmpty =>
              /\ front' = front /\ rear' = rear + 1 /\ front \in Nat /\ rear \in Nat
              /\ \A k \in 0 .. rear : items'[k] = items[k]
         /\ Queue!isEmpty => front' = 0 /\ rear' = 0
<1>1. Queue!Append_(w)
  BY DEF Queue!enqueue, Queue!Refuse
<1>2. Queue!QueueTypeOK' /\ ~Queue!isEmpty' /\ rear' \in front' .. rear' /\ items'[rear'] = w
  BY <1>1, EnqueueAdds
<1>3. front' \in Nat /\ rear' \in Nat
  BY <1>2, BiboAssumption DEF Queue!QueueTypeOK
<1>4. CASE ~Queue!isEmpty
  <2>1. /\ front' = front /\ rear' = rear + 1 /\ rear # MaxSize - 1
        /\ items' = [items EXCEPT ![rear + 1] = w]
    BY <1>1, <1>4 DEF Queue!Append_, Queue!NewFront, Queue!isFull
  <2>2. /\ MaxSize \in Int /\ front \in Int /\ rear \in Int
        /\ 0 <= front /\ front <= rear /\ rear < MaxSize - 1
    BY <1>4, <2>1, QueueIndices
  <2>3. \A k \in 0 .. rear : items'[k] = items[k]
    BY <2>1, <2>2 DEF Queue!QueueTypeOK
  <2> QED
    BY <1>1, <1>2, <1>3, <1>4, <2>1, <2>2, <2>3
<1>5. CASE Queue!isEmpty
  <2>1. rear' = 0 /\ front' = 0
    BY <1>1, <1>5 DEF Queue!Append_, Queue!NewFront, Queue!isEmpty
  <2> QED
    BY <1>1, <1>2, <1>3, <1>5, <2>1
<1> QED
  BY <1>4, <1>5

\* dequeue() takes the first one; the queue is empty after it only when that was
\* the last one.
LEMMA DequeueKeeps ==
  ASSUME Queue!QueueTypeOK, Written, ~Queue!isEmpty, Queue!dequeue
  PROVE  /\ items' = items /\ Queue!Oldest = items[front]
         /\ front \in Nat /\ rear \in Nat /\ front <= rear
         /\ Queue!isEmpty' <=> front = rear
         /\ ~Queue!isEmpty' => front' = front + 1 /\ rear' = rear
<1>1. /\ MaxSize \in Int /\ front \in Int /\ rear \in Int
      /\ 0 <= front /\ front <= rear /\ rear <= MaxSize - 1
  BY QueueIndices
<1>2. front = rear => Queue!isEmpty'
  BY DEF Queue!dequeue, Queue!LastOne, Queue!isEmpty
<1>3. front # rear => front' = front + 1
  BY DEF Queue!dequeue, Queue!LastOne
<1>4. front # rear => ~Queue!isEmpty'
  BY <1>1, <1>3 DEF Queue!isEmpty
<1> QED
  BY <1>1, <1>2, <1>3, <1>4, DequeueTakes

\* A step after which everybody is kept who was.
KeepsAll == \A c \in Clients : Kept(c) => Kept(c)'

LEMMA QuietKeepsAll ==
  ASSUME UNCHANGED <<server_fifo, queueVars, client_pid>>, srv' = srv \/ (srv' \in Busy),
         \A c \in Clients : HasChild(c) => HasChild(c)'
  PROVE  KeepsAll
<1>1. \A c \in Clients : (InFifo(c) => InFifo(c)') /\ (InQueue(c) => InQueue(c)')
  BY DEF InFifo, InQueue, queueVars, Queue!isEmpty
<1>2. \A c \in Clients : InHand(c) => InHand(c)'
  BY DEF InHand, Busy
<1> QED
  BY <1>1, <1>2 DEF KeepsAll, Kept

LEMMA ClientKeepsAll ==
  ASSUME TypeInv, NEW c \in Clients, ClientProcess(c) \/ User(c), ServerRuns'
  PROVE  KeepsAll
<1>1. UNCHANGED <<client_pid, queueVars, childVars>> /\ srv' = srv
  BY ClientFrame DEF ServerRuns
<1>2. \A d \in Clients : (InQueue(d) => InQueue(d)') /\ (InHand(d) => InHand(d)')
                         /\ (HasChild(d) => HasChild(d)')
  BY <1>1 DEF InQueue, InHand, HasChild, childVars, queueVars, Queue!isEmpty
<1>3. \A d \in Clients : InFifo(d) => InFifo(d)'
  <2>1. CASE server_fifo' = server_fifo
    BY <2>1 DEF InFifo
  <2>2. CASE server_fifo' # server_fifo
    <3>1. PICK w \in Words : server_fifo' = Append(server_fifo, w)
      BY <2>2, ModesAreNoClients
         DEF ClientProcess, User, SemWait, WritePid, WriteMode, WriteWord, SemPost, ReadStatus,
             Leave, Quit, KillServer, Interrupt
    <3> QED
      BY <3>1, AppendPlaces
  <2> QED
    BY <2>1, <2>2
<1> QED
  BY <1>2, <1>3 DEF KeepsAll, Kept

LEMMA ClientStaysKept ==
  ASSUME TypeInv, KeptInv, NEW c \in Clients, ClientProcess(c) \/ User(c)
  PROVE  KeptInv'
<1> SUFFICES ASSUME ServerRuns', ~split', NEW d \in Clients, Waits(d)'
             PROVE  Kept(d)' \/ Answered(d)' \/ d \in refused'
  BY DEF KeptInv
<1>0. /\ ServerRuns /\ ~split /\ refused' = refused /\ KeepsAll /\ mode' = mode
      /\ client \in [Clients -> ClientStates] /\ mode \in [Clients -> Modes]
      /\ status_fifo \in [Clients -> Seq(Statuses)]
  BY ClientFrame, ClientKeepsAll DEF ServerRuns, history, TypeInv, TypeOK
<1>1. CASE Waits(d) /\ status_fifo' = status_fifo
  BY <1>0, <1>1 DEF KeptInv, KeepsAll, Answered
<1>2. CASE ~Waits(d)
  <2>1. WritePid(d) /\ d = c /\ client'[d] = "mode"
    BY <1>0, <1>2
       DEF ClientProcess, User, SemWait, WritePid, WriteMode, WriteWord, SemPost, ReadStatus,
           Leave, Quit, KillServer, Interrupt, Step, Waits
  <2>2. server_fifo' = Append(server_fifo, d)
    BY <1>0, <2>1 DEF WritePid, WriteWord, Step
  <2>3. InFifo(d)'
    BY <2>2, ModesAreNoClients, AppendPlaces
  <2> QED
    BY <2>3 DEF Kept
<1>3. CASE Waits(d) /\ status_fifo' # status_fifo
  <2>1. ReadStatus(c)
    BY <1>3 DEF ClientProcess, User, SemWait, WritePid, WriteMode, SemPost, Leave, Quit,
                KillServer, Interrupt
  <2>2. CASE d # c
    <3>1. status_fifo'[d] = status_fifo[d]
      BY <1>0, <2>1, <2>2 DEF ReadStatus
    <3> QED
      BY <1>0, <1>3, <3>1 DEF KeptInv, KeepsAll, Answered
  <2>3. CASE d = c
    <3>1. mode[d] = 1
      BY <1>0, <2>1, <2>3 DEF ReadStatus, Waits
    <3> QED
      BY <1>0, <1>3, <3>1 DEF KeptInv, KeepsAll, Answered
  <2> QED
    BY <2>2, <2>3
<1> QED
  BY <1>1, <1>2, <1>3

LEMMA ChildStaysKept ==
  ASSUME TypeInv, KeptInv, NEW c \in Clients, ChildProcess(c)
  PROVE  KeptInv'
<1>1. UNCHANGED <<srv, client_pid, history, server_fifo, queueVars, mode, status_fifo>>
  BY ChildFrame DEF serverVars
<1>2. \A d \in Clients : HasChild(d) => HasChild(d)'
  BY DEF TypeInv, TypeOK, ChildProcess, ReadCount, WriteCount, OpenSession, HandleQuit,
         HandleKillServer, HasChild
<1>3. \A d \in Clients : Waits(d)' => Waits(d)
  BY DEF TypeInv, TypeOK, ChildProcess, ReadCount, WriteCount, OpenSession, HandleQuit,
         HandleKillServer, Step, clientVars, Waits
<1>4. KeepsAll
  BY <1>1, <1>2, QuietKeepsAll
<1> QED
  BY <1>1, <1>3, <1>4 DEF KeptInv, KeepsAll, Answered, ServerRuns, history

\* The steps of the server that move a client.
LEMMA ServerKeepsAll ==
  ASSUME TypeInv, AlignInv, ServerProcess, ServerRuns', ~split, ~WriteStatus,
         srv = "enqueue" => ~Queue!isFull
  PROVE  KeepsAll
<1>0. ServerRuns /\ child \in [Clients -> ChildStates]
  BY DEF ServerProcess, Dequeue, ReadPid, ReadMode, Admit, OpenStatusFifo, WriteStatus, Enqueue,
         Fork, HandleSigusr2, ServerRuns, TypeInv, TypeOK
<1>1. CASE Dequeue
  <2>1. /\ items' = items /\ client_pid' = items[front]
        /\ front \in Nat /\ rear \in Nat /\ front <= rear
        /\ Queue!isEmpty' <=> front = rear
        /\ ~Queue!isEmpty' => front' = front + 1 /\ rear' = rear
    BY <1>1, DequeueKeeps DEF Dequeue, TypeInv, TypeOK
  <2>2. srv = "top" /\ srv' = "open" /\ UNCHANGED <<server_fifo, childVars>>
    BY <1>1 DEF Dequeue
  <2>3. ASSUME NEW c \in Clients, InQueue(c) PROVE InQueue(c)' \/ InHand(c)'
    <3>1. PICK k \in front .. rear : items[k] = c
      BY <2>3 DEF InQueue
    <3>2. CASE k = front
      BY <2>1, <2>2, <3>1, <3>2 DEF InHand
    <3>3. CASE k # front
      <4>1. ~Queue!isEmpty' /\ k \in front' .. rear'
        BY <2>1, <3>1, <3>3
      <4> QED
        BY <2>1, <3>1, <4>1 DEF InQueue
    <3> QED
      BY <3>2, <3>3
  <2> QED
    BY <2>2, <2>3 DEF KeepsAll, Kept, InFifo, InHand, HasChild, childVars
<1>2. CASE ReadPid \/ (ReadMode /\ server_fifo' # server_fifo)
  <2>1. /\ server_fifo # <<>> /\ server_fifo' = Tail(server_fifo)
        /\ UNCHANGED <<queueVars, childVars>> /\ server_fifo \in Seq(Words)
    BY <1>2 DEF ReadPid, ReadMode, TypeInv, TypeOK
  <2>2. /\ Len(server_fifo') = Len(server_fifo) - 1 /\ Len(server_fifo) \in Nat
        /\ \A k \in 1 .. Len(server_fifo') : server_fifo'[k] = server_fifo[k + 1]
        /\ Head(server_fifo) = server_fifo[1]
    BY <2>1
  <2>3. ASSUME NEW c \in Clients, InFifo(c), c # server_fifo[1] PROVE InFifo(c)'
    <3>1. PICK k \in 1 .. Len(server_fifo) : server_fifo[k] = c
      BY <2>3 DEF InFifo
    <3>2. k - 1 \in 1 .. Len(server_fifo') /\ server_fifo'[k - 1] = c
      BY <2>2, <2>3, <3>1
    <3> QED
      BY <3>2 DEF InFifo
  <2>4. ASSUME NEW c \in Clients
        PROVE  (InQueue(c) => InQueue(c)') /\ (HasChild(c) => HasChild(c)')
    BY <2>1 DEF InQueue, HasChild, queueVars, childVars, Queue!isEmpty
  <2>5. CASE ReadPid
    <3>1. srv = "top" /\ srv' = "mode" /\ client_pid' = server_fifo[1]
      BY <2>2, <2>5 DEF ReadPid
    <3> QED
      BY <2>3, <2>4, <3>1 DEF KeepsAll, Kept, InHand
  <2>6. CASE ReadMode
    <3>1. srv = "mode" /\ srv' = "admit" /\ client_pid' = client_pid
      BY <2>6 DEF ReadMode
    <3>2. Len(server_fifo) > 0
      BY <2>1, FifoTail
    <3>3. server_fifo[1] \notin Clients
      BY <1>0, <3>1, <3>2, ModesAreNoClients DEF AlignInv
    <3> QED
      BY <2>3, <2>4, <3>1, <3>3 DEF KeepsAll, Kept, InHand
  <2> QED
    BY <1>2, <2>5, <2>6
<1>3. CASE (ReadMode /\ server_fifo' = server_fifo) \/ Admit \/ OpenStatusFifo
  BY <1>3, QuietKeepsAll DEF ReadMode, Admit, OpenStatusFifo, HasChild, childVars, Busy
<1>4. CASE Enqueue
  <2>1. srv = "enqueue" /\ UNCHANGED <<client_pid, server_fifo, childVars>>
    BY <1>4 DEF Enqueue
  <2>2. /\ ~Queue!isEmpty' /\ rear' \in front' .. rear' /\ items'[rear'] = client_pid
        /\ front' \in Nat /\ rear' \in Nat
        /\ ~Queue!isEmpty =>
             /\ front' = front /\ rear' = rear + 1 /\ front \in Nat /\ rear \in Nat
             /\ \A k \in 0 .. rear : items'[k] = items[k]
    BY <1>4, <2>1, EnqueueKeeps DEF Enqueue, TypeInv, TypeOK, Busy
  <2>3. ASSUME NEW c \in Clients, InQueue(c) PROVE InQueue(c)'
    <3>1. PICK k \in front .. rear : items[k] = c
      BY <2>3 DEF InQueue
    <3>2. ~Queue!isEmpty
      BY <2>3 DEF InQueue
    <3>3. k \in front' .. rear' /\ items'[k] = c
      BY <2>2, <3>1, <3>2
    <3> QED
      BY <2>2, <3>3 DEF InQueue
  <2>4. ASSUME NEW c \in Clients, InHand(c) PROVE InQueue(c)'
    BY <2>2, <2>4 DEF InHand, InQueue
  <2> QED
    BY <2>1, <2>3, <2>4 DEF KeepsAll, Kept, InFifo, HasChild, childVars
<1>5. CASE Fork
  <2>1. /\ UNCHANGED <<client_pid, server_fifo, queueVars>> /\ srv = "fork"
        /\ child' = [child EXCEPT ![client_pid] = "forked"]
    BY <1>5 DEF Fork, ServerRuns
  <2>2. ASSUME NEW c \in Clients
        PROVE  /\ InFifo(c) => InFifo(c)'
               /\ InQueue(c) => InQueue(c)'
               /\ InHand(c) \/ HasChild(c) => HasChild(c)'
    BY <1>0, <2>1 DEF InFifo, InQueue, InHand, HasChild, queueVars, Queue!isEmpty
  <2> QED
    BY <2>2 DEF KeepsAll, Kept
<1>6. ~HandleSigusr2
  BY DEF HandleSigusr2, ServerRuns
<1> QED
  BY <1>1, <1>2, <1>3, <1>4, <1>5, <1>6 DEF ServerProcess

\* A refusal leaves the queue as it was; who is not in the hands of the server stays
\* where it is.
LEMMA RefusalKeepsOthers ==
  ASSUME Enqueue, Queue!isFull, NEW c \in Clients, Kept(c), c # client_pid
  PROVE  Kept(c)'
<1>1. UNCHANGED <<client_pid, server_fifo, childVars>> /\ UNCHANGED queueVars
  BY DEF Enqueue, Queue!enqueue, Queue!Append_, Queue!Refuse, Queue!queueVars, queueVars
<1> QED
  BY <1>1 DEF Kept, InFifo, InQueue, InHand, HasChild, queueVars, childVars, Queue!isEmpty

LEMMA ServerStaysKept ==
  ASSUME TypeInv, AlignInv, KeptInv, ServerProcess
  PROVE  KeptInv'
<1> SUFFICES ASSUME ServerRuns', ~split', NEW c \in Clients, Waits(c)'
             PROVE  Kept(c)' \/ Answered(c)' \/ c \in refused'
  BY DEF KeptInv
<1>0. /\ ServerRuns /\ mode' = mode /\ status_fifo \in [Clients -> Seq(Statuses)]
      /\ ~split /\ refused \subseteq refused'
  BY DEF ServerProcess, Dequeue, ReadPid, ReadMode, Admit, OpenStatusFifo, WriteStatus, Enqueue,
         Fork, HandleSigusr2, clientVars, history, ServerRuns, TypeInv, TypeOK
<1>1. Waits(c)
  <2>1. CASE OpenStatusFifo
    BY <2>1 DEF OpenStatusFifo, Waits, TypeInv, TypeOK
  <2>2. CASE ~OpenStatusFifo
    BY <2>2 DEF ServerProcess, Dequeue, ReadPid, ReadMode, Admit, WriteStatus, Enqueue, Fork,
                HandleSigusr2, clientVars, ServerRuns, Waits
  <2> QED
    BY <2>1, <2>2
<1>2. Kept(c) \/ Answered(c) \/ c \in refused
  BY <1>0, <1>1 DEF KeptInv
<1>3. CASE ~WriteStatus
  <2>1. Kept(c) => Kept(c)' \/ c \in refused'
    <3>1. CASE Enqueue /\ Queue!isFull
      BY <3>1, RefusalKeepsOthers DEF Enqueue
    <3>2. CASE srv = "enqueue" => ~Queue!isFull
      BY <1>0, <1>3, <3>2, ServerKeepsAll DEF KeepsAll
    <3>3. srv = "enqueue" => Enqueue
      BY <1>0 DEF ServerProcess, Dequeue, ReadPid, ReadMode, Admit, OpenStatusFifo, WriteStatus, Fork,
                  HandleSigusr2, ServerRuns
    <3> QED
      BY <3>1, <3>2, <3>3
  <2>2. status_fifo' = status_fifo
    BY <1>3 DEF ServerProcess, Dequeue, ReadPid, ReadMode, Admit, OpenStatusFifo, Enqueue, Fork,
                HandleSigusr2
  <2> QED
    BY <1>0, <1>2, <2>1, <2>2 DEF Answered
<1>4. CASE WriteStatus
  <2>1. /\ srv = "write" /\ client_pid \in Clients /\ srv' = Continue_[flag] /\ flag \in Statuses
        /\ status_fifo' = [status_fifo EXCEPT ![client_pid] = Append(@, flag)]
        /\ UNCHANGED <<client_pid, server_fifo, queueVars, childVars>>
    BY <1>4 DEF WriteStatus, Reads, ServerRuns, TypeInv, TypeOK
  <2>2. CASE flag # 0
    <3>1. srv' \in {"enqueue", "fork"}
      BY <2>1, <2>2 DEF Continue_, Statuses
    <3>2. KeepsAll
      BY <2>1, <3>1, QuietKeepsAll DEF Busy, HasChild, childVars
    <3>3. status_fifo[c] # <<>> => status_fifo'[c] # <<>>
      BY <1>0, <2>1
    <3> QED
      BY <1>0, <1>2, <3>2, <3>3 DEF KeepsAll, Answered
  <2>3. CASE flag = 0
    <3>1. mode[client_pid] = 0
      BY <1>0, <2>1, <2>3 DEF AlignInv
    <3>2. CASE c = client_pid
      <4>1. status_fifo'[c] # <<>>
        BY <1>0, <2>1, <3>2
      <4> QED
        BY <1>0, <3>1, <3>2, <4>1 DEF Answered
    <3>3. CASE c # client_pid
      <4>1. status_fifo'[c] = status_fifo[c]
        BY <1>0, <2>1, <3>3
      <4>2. Kept(c) => Kept(c)'
        BY <2>1, <3>3 DEF Kept, InFifo, InQueue, InHand, HasChild, queueVars, childVars, Queue!isEmpty
      <4> QED
        BY <1>0, <1>2, <4>1, <4>2 DEF Answered
    <3> QED
      BY <3>2, <3>3
  <2> QED
    BY <2>2, <2>3
<1> QED
  BY <1>3, <1>4

LEMMA KeptInvInit == Init => KeptInv
BY DEF Init, KeptInv, Waits

LEMMA KeptInvNext == TypeInv /\ AlignInv /\ KeptInv /\ [Next]_vars => KeptInv'
<1> SUFFICES ASSUME TypeInv, AlignInv, KeptInv, [Next]_vars PROVE KeptInv'
  OBVIOUS
<1>1. CASE UNCHANGED vars
  <2>1. KeepsAll /\ UNCHANGED <<srv, split, refused, client, mode, status_fifo>>
    BY <1>1, QuietKeepsAll DEF vars, serverVars, history, clientVars, childVars, HasChild
  <2> QED
    BY <2>1 DEF KeptInv, KeepsAll, Answered, ServerRuns, Waits
<1> QED
  BY <1>1, ClientStaysKept, ServerStaysKept, ChildStaysKept DEF Next

\* Whoever is in one of the four places is in Places.
LEMMA KeptHasPlace ==
  ASSUME TypeInv, NEW c \in Clients, Kept(c)
  PROVE  Places(c) # {}
<1>1. CASE InFifo(c)
  <2>1. PICK k \in 1 .. Len(server_fifo) : server_fifo[k] = c
    BY <1>1 DEF InFifo
  <2>2. k \in DOMAIN server_fifo
    BY <2>1 DEF TypeInv, TypeOK
  <2>3. <<"fifo", k>> \in Places(c)
    BY <2>1, <2>2 DEF Places
  <2> QED
    BY <2>3
<1>2. CASE InQueue(c)
  <2>1. PICK k \in front .. rear : items[k] = c
    BY <1>2 DEF InQueue
  <2>2. ~Queue!isEmpty /\ front \in Int /\ rear \in Int
    BY <1>2, QueueIndices DEF InQueue, TypeInv, TypeOK
  <2>3. Queue!Contents = [i \in 1 .. rear - front + 1 |-> items[front + i - 1]]
    BY <2>2 DEF Queue!Contents
  <2>4. k - front + 1 \in 1 .. rear - front + 1 /\ front + (k - front + 1) - 1 = k
    BY <2>2
  <2>5. k - front + 1 \in DOMAIN Queue!Contents /\ Queue!Contents[k - front + 1] = c
    BY <2>1, <2>3, <2>4
  <2>6. <<"queue", k - front + 1>> \in Places(c)
    BY <2>5 DEF Places
  <2> QED
    BY <2>6
<1>3. CASE InHand(c)
  BY <1>3 DEF Places
<1>4. CASE HasChild(c)
  BY <1>4 DEF Places
<1> QED
  BY <1>1, <1>2, <1>3, <1>4 DEF Kept

\* For every number of clients, slots and places, whoever is interrupted: a client that
\* waits for an answer is kept somewhere, or its answer is on its way, unless the
\* queue refused it or the server once read half a request (biboServer.c 557-611).
THEOREM NobodyIsForgotten == Spec => []NobodyForgotten
<1>1. TypeInv /\ KeptInv => NobodyForgotten
  <2> SUFFICES ASSUME TypeInv, KeptInv, NEW c \in Clients, ServerRuns,
                      client[c] \in {"open", "status"}
               PROVE  Places(c) # {} \/ status_fifo[c] # <<>> \/ c \in refused \/ split
    BY DEF NobodyForgotten
  <2> QED
    BY KeptHasPlace DEF KeptInv, Answered, Waits
<1> QED
  BY <1>1, TypesHold, FrameInvInit, FrameInvNext, AlignInvInit, AlignInvNext, KeptInvInit,
     KeptInvNext, PTL DEF Spec

\* What the invariant needs of the array: clients, each once, those before front
\* served.
ArrayInv ==
  /\ \A k \in 0 .. rear : items[k] \in Clients
  /\ \A j, k \in 0 .. rear : items[j] = items[k] => j = k
  /\ \A k \in 0 .. rear : k < front => HasChild(items[k]) \/ GetsChild(items[k])

\* A step that leaves the array alone and whoever gets a child gets it still.
LEMMA QuietKeepsRoom ==
  ASSUME RoomInv, UNCHANGED queueVars, ServerRuns' /\ ~split' => ServerRuns /\ ~split,
         ServerRuns' /\ ~split' /\ srv' \in Busy => client_pid' \in Clients,
         \A c \in Clients : HasChild(c) \/ GetsChild(c) => ~ServerRuns' \/ HasChild(c)' \/ GetsChild(c)'
  PROVE  RoomInv'
<1> SUFFICES ASSUME ServerRuns', ~split', ~Queue!isEmpty' PROVE ArrayInv'
  BY DEF RoomInv, ArrayInv
<1>1. ArrayInv /\ UNCHANGED <<items, front, rear>>
  BY DEF RoomInv, ArrayInv, queueVars, Queue!isEmpty
<1>2. /\ \A k \in 0 .. rear : items[k] \in Clients
      /\ \A k \in 0 .. rear : k < front => HasChild(items[k]) \/ GetsChild(items[k])
  BY <1>1 DEF ArrayInv
<1>3. ASSUME NEW k \in 0 .. rear, k < front
      PROVE  HasChild(items[k])' \/ GetsChild(items[k])'
  <2>1. PICK c \in Clients : c = items[k]
    BY <1>2
  <2>2. HasChild(c)' \/ GetsChild(c)'
    BY <1>2, <1>3, <2>1
  <2> QED
    BY <1>1, <2>1, <2>2 DEF HasChild, GetsChild, InHand
<1> QED
  BY <1>1, <1>3 DEF ArrayInv

LEMMA ServerKeepsRoom ==
  ASSUME TypeInv, PlaceInv, AlignInv, HasRoom, RoomInv, ServerProcess
  PROVE  RoomInv'
<1> SUFFICES ASSUME ServerRuns', ~split' PROVE RoomInv'
  BY DEF RoomInv
<1>0. ServerRuns /\ ~split /\ child \in [Clients -> ChildStates] /\ flag \in Statuses
  BY DEF ServerProcess, Dequeue, ReadPid, ReadMode, Admit, OpenStatusFifo, WriteStatus, Enqueue,
         Fork, HandleSigusr2, history, ServerRuns, TypeInv, TypeOK
<1>1. CASE Dequeue
  <2>1. /\ items' = items /\ client_pid' = items[front]
        /\ front \in Nat /\ rear \in Nat /\ front <= rear
        /\ Queue!isEmpty' <=> front = rear
        /\ ~Queue!isEmpty' => front' = front + 1 /\ rear' = rear
    BY <1>1, DequeueKeeps DEF Dequeue, TypeInv, TypeOK
  <2>2. srv = "top" /\ srv' = "open" /\ flag' = 2 /\ child' = child /\ ~Queue!isEmpty
    BY <1>1 DEF Dequeue, childVars
  <2>3. ArrayInv
    BY <1>0, <2>2 DEF RoomInv, ArrayInv
  <2>4. client_pid' \in Clients
    BY <2>1, <2>3 DEF ArrayInv
  <2>5. ASSUME ~Queue!isEmpty' PROVE ArrayInv'
    <3>1. front' = front + 1 /\ rear' = rear
      BY <2>1, <2>5
    <3>2. ASSUME NEW k \in 0 .. rear, k < front + 1
          PROVE  HasChild(items[k])' \/ GetsChild(items[k])'
      <4>1. CASE k = front
        BY <2>1, <2>2, <4>1 DEF GetsChild, InHand
      <4>2. CASE k # front
        <5>1. HasChild(items[k])
          BY <2>1, <2>2, <2>3, <3>2, <4>2 DEF ArrayInv, GetsChild
        <5> QED
          BY <2>1, <2>2, <5>1 DEF HasChild
      <4> QED
        BY <4>1, <4>2
    <3> QED
      BY <2>1, <2>3, <3>1, <3>2 DEF ArrayInv
  <2> QED
    BY <2>4, <2>5 DEF RoomInv, ArrayInv
<1>2. CASE ReadPid
  <2>1. /\ srv = "top" /\ srv' = "mode" /\ client_pid' = Head(server_fifo) /\ server_fifo # <<>>
        /\ server_fifo' = Tail(server_fifo) /\ UNCHANGED <<queueVars, child>>
    BY <1>2 DEF ReadPid, childVars
  <2>2. client_pid' \in Clients
    BY <1>0, <2>1, FifoTail DEF AlignInv
  <2> QED
    BY <1>0, <2>1, <2>2, QuietKeepsRoom DEF HasChild, GetsChild
<1>3. CASE ReadMode \/ Admit \/ OpenStatusFifo \/ WriteStatus
  <2>1. UNCHANGED <<queueVars, child, client_pid>> /\ srv \in Busy /\ client_pid \in Clients
    BY <1>0, <1>3 DEF ReadMode, Admit, OpenStatusFifo, WriteStatus, childVars, RoomInv, Busy
  <2>2. ASSUME NEW c \in Clients, GetsChild(c) PROVE ~ServerRuns' \/ GetsChild(c)'
    BY <1>3, <2>1, <2>2
       DEF ReadMode, Admit, OpenStatusFifo, WriteStatus, GetsChild, InHand, Continue_, Statuses,
           ServerRuns
  <2> QED
    BY <1>0, <2>1, <2>2, QuietKeepsRoom DEF HasChild
<1>4. CASE Enqueue
  <2>1. srv = "enqueue" /\ srv' = "top" /\ UNCHANGED <<client_pid, child>> /\ client_pid \in Clients
    BY <1>0, <1>4 DEF Enqueue, childVars, RoomInv, Busy
  <2>2. /\ front' \in Nat /\ rear' \in Nat /\ items'[rear'] = client_pid
        /\ ~Queue!isEmpty =>
             /\ front' = front /\ rear' = rear + 1 /\ front \in Nat /\ rear \in Nat
             /\ \A k \in 0 .. rear : items'[k] = items[k]
        /\ Queue!isEmpty => front' = 0 /\ rear' = 0
    BY <1>4, <2>1, <1>0, EnqueueKeeps DEF Enqueue, HasRoom, TypeInv, TypeOK, Words
  <2>3. CASE Queue!isEmpty
    <3>1. ArrayInv'
      BY <2>1, <2>2, <2>3 DEF ArrayInv
    <3> QED
      BY <2>1, <3>1 DEF RoomInv, ArrayInv, Busy
  <2>4. CASE ~Queue!isEmpty
    <3>1. /\ front' = front /\ rear' = rear + 1 /\ front \in Nat /\ rear \in Nat
          /\ \A k \in 0 .. rear : items'[k] = items[k]
      BY <2>2, <2>4
    <3>2. ArrayInv
      BY <1>0, <2>4 DEF RoomInv, ArrayInv
    <3>3. InHand(client_pid) /\ ~HasChild(client_pid) /\ ~InQueue(client_pid)
      BY <2>1 DEF InHand, PlaceInv
    <3>4. ASSUME NEW k \in 0 .. rear PROVE items[k] # client_pid
      <4>1. CASE k < front
        BY <2>1, <3>2, <3>3, <4>1 DEF ArrayInv, GetsChild
      <4>2. CASE ~(k < front)
        BY <2>4, <3>1, <3>3, <4>2 DEF InQueue
      <4> QED
        BY <4>1, <4>2
    <3>5. \A k \in 0 .. rear' : k \in 0 .. rear \/ k = rear'
      BY <3>1
    <3>6. ASSUME NEW k \in 0 .. rear', k < front' PROVE HasChild(items[k])'
      <4>1. k \in 0 .. rear
        BY <3>1, <3>6, <2>4, QueueIndices DEF TypeInv, TypeOK
      <4>2. HasChild(items[k])
        BY <2>1, <3>1, <3>2, <3>6, <4>1 DEF ArrayInv, GetsChild
      <4> QED
        BY <2>1, <3>1, <4>1, <4>2 DEF HasChild
    <3>7. ArrayInv'
      BY <2>1, <2>2, <3>1, <3>2, <3>4, <3>5, <3>6 DEF ArrayInv
    <3> QED
      BY <2>1, <3>7 DEF RoomInv, ArrayInv, Busy
  <2> QED
    BY <2>3, <2>4
<1>5. CASE Fork
  <2>1. srv = "fork" /\ UNCHANGED <<queueVars, client_pid>> /\ srv' \in {"top", "crashed"}
    BY <1>5 DEF Fork
  <2>2. ServerRuns' => child' = [child EXCEPT ![client_pid] = "forked"]
    BY <1>5 DEF Fork, ServerRuns
  <2>3. ASSUME NEW c \in Clients, HasChild(c) \/ GetsChild(c), ServerRuns' PROVE HasChild(c)'
    BY <1>0, <2>2, <2>3 DEF HasChild, GetsChild, InHand
  <2> QED
    BY <1>0, <2>1, <2>3, QuietKeepsRoom DEF Busy
<1>6. CASE HandleSigusr2
  BY <1>6 DEF HandleSigusr2, ServerRuns
<1> QED
  BY <1>1, <1>2, <1>3, <1>4, <1>5, <1>6 DEF ServerProcess

LEMMA RoomInvNext ==
  TypeInv /\ PlaceInv /\ AlignInv /\ HasRoom /\ RoomInv /\ [Next]_vars => RoomInv'
<1> SUFFICES ASSUME TypeInv, PlaceInv, AlignInv, HasRoom, RoomInv, [Next]_vars PROVE RoomInv'
  OBVIOUS
<1>1. ASSUME NEW c \in Clients, ClientProcess(c) \/ User(c) PROVE RoomInv'
  <2>1. UNCHANGED <<client_pid, flag, split, queueVars, childVars>> /\ (srv' = srv \/ ~ServerRuns')
    BY <1>1, ClientFrame DEF ServerRuns, history
  <2> QED
    BY <2>1, QuietKeepsRoom DEF RoomInv, ServerRuns, GetsChild, InHand, HasChild, childVars
<1>2. ASSUME NEW c \in Clients, ChildProcess(c) PROVE RoomInv'
  <2>1. UNCHANGED <<srv, client_pid, flag, split, queueVars>>
    BY <1>2, ChildFrame DEF serverVars, history
  <2>2. \A d \in Clients : HasChild(d) => HasChild(d)'
    BY <1>2 DEF TypeInv, TypeOK, ChildProcess, ReadCount, WriteCount, OpenSession, HandleQuit,
                HandleKillServer, HasChild
  <2> QED
    BY <2>1, <2>2, QuietKeepsRoom DEF RoomInv, ServerRuns, GetsChild, InHand
<1>3. CASE UNCHANGED vars
  <2>1. UNCHANGED <<srv, client_pid, flag, split, queueVars, child>>
    BY <1>3 DEF vars, serverVars, history, childVars
  <2> QED
    BY <2>1, QuietKeepsRoom DEF RoomInv, ServerRuns, GetsChild, InHand, HasChild
<1> QED
  BY <1>1, <1>2, <1>3, ServerKeepsRoom DEF Next

\* When there are no more clients than places, the array never runs out of them:
\* those in it and the one in hand are distinct clients.
LEMMA RoomForFew ==
  ASSUME IsFiniteSet(Clients), Cardinality(Clients) <= MaxSize, TypeInv, PlaceInv, RoomInv
  PROVE  HasRoom
<1> SUFFICES ASSUME srv = "enqueue", ~split, Queue!isFull PROVE FALSE
  BY DEF HasRoom
<1>1. rear = MaxSize - 1 /\ MaxSize \in Nat \ {0} /\ Cardinality(Clients) \in Nat
  BY BiboAssumption, FS_CardinalityType DEF Queue!isFull
<1>2. ~Queue!isEmpty /\ front \in Int
  BY <1>1 DEF TypeInv, TypeOK, Queue!QueueTypeOK, Queue!isEmpty
<1>3. ArrayInv /\ client_pid \in Clients
  BY <1>2 DEF RoomInv, ArrayInv, ServerRuns, Busy
<1>4. InHand(client_pid) /\ ~HasChild(client_pid) /\ ~InQueue(client_pid)
  BY <1>3 DEF InHand, PlaceInv
<1>5. ASSUME NEW k \in 0 .. rear PROVE items[k] # client_pid
  <2>1. CASE k < front
    BY <1>3, <1>4, <2>1 DEF ArrayInv, GetsChild
  <2>2. CASE ~(k < front)
    BY <1>1, <1>2, <1>4, <2>2 DEF InQueue
  <2> QED
    BY <2>1, <2>2
<1> DEFINE all == [k \in 0 .. MaxSize |-> IF k = MaxSize THEN client_pid ELSE items[k]]
<1>6. all \in [0 .. MaxSize -> Clients]
  BY <1>1, <1>3 DEF ArrayInv
<1>7. \A j, k \in 0 .. MaxSize : all[j] = all[k] => j = k
  <2>1. \A k \in 0 .. MaxSize : k # MaxSize => k \in 0 .. rear
    BY <1>1
  <2> QED
    BY <1>3, <1>5, <2>1 DEF ArrayInv
<1> HIDE DEF all
<1>8. all \in Injection(0 .. MaxSize, Clients)
  BY <1>6, <1>7 DEF Injection, IsInjective
<1>9. Cardinality(0 .. MaxSize) = MaxSize + 1 /\ IsFiniteSet(0 .. MaxSize)
  BY <1>1, FS_Interval
<1>10. Cardinality(0 .. MaxSize) <= Cardinality(Clients)
  BY <1>8, <1>9, FS_Injection DEF ExistsInjection
<1> QED
  BY <1>1, <1>9, <1>10

LEMMA RoomInvInit == Init => RoomInv
BY DEF Init, RoomInv, Queue!QueueInit, Queue!isEmpty, Busy

\* What enqueue() has refused while it had always room.
RefusedInv == ~split => refused = {}

LEMMA RefusedInvNext == TypeInv /\ HasRoom /\ RefusedInv /\ [Next]_vars => RefusedInv'
<1> SUFFICES ASSUME TypeInv, HasRoom, RefusedInv, [Next]_vars PROVE RefusedInv'
  OBVIOUS
<1>1. CASE ServerProcess
  <2>1. CASE ReadMode
    BY <2>1 DEF ReadMode, RefusedInv, TypeInv, TypeOK
  <2>2. CASE Enqueue
    BY <2>2 DEF Enqueue, HasRoom, RefusedInv
  <2>3. CASE UNCHANGED history
    BY <2>3 DEF history, RefusedInv
  <2> QED
    BY <1>1, <2>1, <2>2, <2>3
       DEF ServerProcess, Dequeue, ReadPid, Admit, OpenStatusFifo, WriteStatus, Fork, HandleSigusr2
<1>2. CASE ~ServerProcess
  <2>1. UNCHANGED history
    BY <1>2, ClientFrame, ChildFrame DEF Next, vars, serverVars
  <2> QED
    BY <2>1 DEF history, RefusedInv
<1> QED
  BY <1>1, <1>2

\* With as many places in the queue as there are clients, enqueue() refuses nobody
\* until the server has read half a request, however many are connected, queued and
\* dequeued in turn (biboServer.c 42-79, 557-611).
THEOREM FewAreNotRefused ==
  ASSUME IsFiniteSet(Clients), Cardinality(Clients) <= MaxSize
  PROVE  Spec => [](split \/ refused = {})
<1>1. TypeInv /\ PlaceInv /\ RoomInv => HasRoom
  BY RoomForFew
<1>2. Init => RefusedInv
  BY DEF Init, RefusedInv
<1>3. RefusedInv => split \/ refused = {}
  BY DEF RefusedInv
<1> QED
  BY <1>1, <1>2, <1>3, TypesHold, FrameInvInit, FrameInvNext, PlaceInvInit, PlaceInvNext, AlignInvInit,
     AlignInvNext, RoomInvInit, RoomInvNext, RefusedInvNext, PTL DEF Spec
=============================================================================
