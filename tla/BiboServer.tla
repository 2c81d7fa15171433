---------------------------- MODULE BiboServer ----------------------------
(***************************************************************************)
(* Midterm_HW3: the main loop of biboServer.c, the children it forks, the  *)
(* shared memory between them, and the clients of biboClient.c up to and   *)
(* after their session (BiboSession models the requests of a session).     *)
(*                                                                         *)
(* A client writes two words into the server's FIFO, its pid and its mode. *)
(* The server answers with a status word through the FIFO of that pid and  *)
(* forks a child for the client, or puts it into the waiting queue.        *)
(***************************************************************************)
EXTENDS Integers, Sequences, FiniteSets

CONSTANTS
  Clients,     \* the pids of the clients
  MaxClients,  \* max_clients
  MaxSize,     \* MAX_SIZE of the queue
  Interrupts,  \* do users press Ctrl+C?
  Junk         \* an uninitialised word

Modes == {0, 1}  \* connect and tryConnect
Slots == 0 .. MaxClients - 1
Words == Clients \cup Modes
Statuses == {0, 1, 2}  \* the server is full, in the queue, connected

ASSUME BiboAssumption ==
  /\ MaxClients \in Nat \ {0} /\ MaxSize \in Nat \ {0}
  /\ Clients \cap (Modes \cup {Junk, -1}) = {}
  /\ Interrupts \in BOOLEAN

VARIABLES
  srv,              \* where the server is
  client_pid, connection_mode, flag,  \* its local variables
  items, front, rear,                 \* its queue
  server_fifo,      \* the words in SERVER_FIFO
  connected_clients, empty_slot_count, \* the shared memory
  sigusr2,          \* is SIGUSR2 pending at the server?
  client,           \* client[c]: where client c is
  mode,             \* mode[c]: how c was started
  semaphore,        \* SEM_NAME
  status_fifo,      \* status_fifo[c]: the status words on their way to c
  child,            \* child[c]: where the child that serves c is
  tmp,              \* tmp[c]: the empty_slot_count it has read and not yet written
  split,            \* the server has read a pid whose mode was not there yet
  refused           \* those that enqueue() has refused

history    == <<split, refused>>
serverVars == <<srv, client_pid, connection_mode, flag, history>>
queueVars  == <<items, front, rear>>
sharedVars == <<connected_clients, empty_slot_count>>
clientVars == <<client, mode, semaphore>>
childVars  == <<child, tmp>>
vars == <<serverVars, queueVars, server_fifo, sharedVars, sigusr2, clientVars,
          status_fifo, childVars>>

Queue == INSTANCE BiboQueue WITH Data <- Words, NoItem <- Junk

Init ==
  /\ srv = "top" /\ client_pid = Junk /\ connection_mode = Junk /\ flag = 0
  /\ Queue!QueueInit
  /\ server_fifo = <<>>
  /\ connected_clients = [i \in Slots |-> 0]
  /\ empty_slot_count = MaxClients
  /\ sigusr2 = FALSE
  /\ client = [c \in Clients |-> "start"]
  /\ mode \in [Clients -> Modes]
  /\ semaphore = 1
  /\ status_fifo = [c \in Clients |-> <<>>]
  /\ child = [c \in Clients |-> "none"]
  /\ tmp = [c \in Clients |-> 0]
  /\ split = FALSE /\ refused = {}

ServerRuns == srv \notin {"stopped", "crashed"}

-----------------------------------------------------------------------------
(* main() of the client, up to the session *)

Step(c, from, to) == client[c] = from /\ client' = [client EXCEPT ![c] = to]

\* The server and the children it forked hold SERVER_FIFO open for reading; a
\* write() into a FIFO that nobody reads kills the client with SIGPIPE.
ServerFifoIsRead == ServerRuns \/ \E c \in Clients : child[c] \notin {"none", "exited"}

WriteWord(c, from, to, word) ==
  IF ServerFifoIsRead
    THEN Step(c, from, to) /\ server_fifo' = Append(server_fifo, word)
    ELSE Step(c, from, "gone") /\ UNCHANGED server_fifo

SemFree_Ignored == TRUE
SemFree == semaphore = 1

\* open() of SERVER_FIFO, which waits for a reader, and sem_wait().
SemWait(c) ==
  /\ Step(c, "start", "pid") /\ ServerFifoIsRead /\ SemFree
  /\ semaphore' = 0
  /\ UNCHANGED <<serverVars, queueVars, server_fifo, sharedVars, sigusr2, mode,
                 status_fifo, childVars>>

WritePid(c) ==
  /\ WriteWord(c, "pid", "mode", c)
  /\ UNCHANGED <<serverVars, queueVars, sharedVars, sigusr2, mode, semaphore,
                 status_fifo, childVars>>

WriteMode(c) ==
  /\ WriteWord(c, "mode", "post", mode[c])
  /\ UNCHANGED <<serverVars, queueVars, sharedVars, sigusr2, mode, semaphore,
                 status_fifo, childVars>>

SemPost(c) ==
  /\ Step(c, "post", "open")
  /\ semaphore' = 1
  /\ UNCHANGED <<serverVars, queueVars, server_fifo, sharedVars, sigusr2, mode,
                 status_fifo, childVars>>

\* get_connection_status(): a tryConnect client reads on until it gets a 2.
ReadStatus(c) ==
  /\ client[c] = "status" /\ status_fifo[c] # <<>>
  /\ client' = [client EXCEPT ![c] =
                  IF mode[c] = 1 /\ Head(status_fifo[c]) # 2 THEN "status" ELSE "connect"]
  /\ status_fifo' = [status_fifo EXCEPT ![c] = Tail(@)]
  /\ UNCHANGED <<serverVars, queueVars, server_fifo, sharedVars, sigusr2, mode,
                 semaphore, childVars>>

\* The user ends the session with "quit", or the server with "killServer".
Quit(c) ==
  /\ Step(c, "session", "quit")
  /\ UNCHANGED <<serverVars, queueVars, server_fifo, sharedVars, sigusr2, mode,
                 semaphore, status_fifo, childVars>>

KillServer(c) ==
  /\ Step(c, "session", "killServer")
  /\ UNCHANGED <<serverVars, queueVars, server_fifo, sharedVars, sigusr2, mode,
                 semaphore, status_fifo, childVars>>

\* The last message of the child arrived.
Leave(c) ==
  /\ Step(c, "quit", "gone") /\ child[c] = "exited"
  /\ UNCHANGED <<serverVars, queueVars, server_fifo, sharedVars, sigusr2, mode,
                 semaphore, status_fifo, childVars>>

\* A client has its status FIFO open for reading, or is opening it.
Reads_NotWhileOpening(c) ==
  c \in Clients /\ client[c] \notin {"start", "pid", "mode", "post", "open", "gone"}
Reads(c) == c \in Clients /\ client[c] \notin {"start", "pid", "mode", "post", "gone"}

\* signal_handler() of the client, at Ctrl+C: SIGUSR1 to the server, exit(0).
\* The server's handler returns, but an open() that waits for a reader then
\* fails with EINTR and send_notification() calls exit(1).
Interrupt(c) ==
  /\ Interrupts /\ client[c] # "gone"
  /\ client' = [client EXCEPT ![c] = "gone"]
  /\ \/ UNCHANGED srv
     \/ srv = "open" /\ ~Reads(client_pid) /\ srv' = "crashed"
  /\ UNCHANGED <<client_pid, connection_mode, flag, history, queueVars, server_fifo,
                 sharedVars, sigusr2, mode, semaphore, status_fifo, childVars>>

ClientProcess(c) ==
  \/ SemWait(c) \/ WritePid(c) \/ WriteMode(c) \/ SemPost(c) \/ ReadStatus(c)
  \/ Leave(c)

-----------------------------------------------------------------------------
(* main() of the server *)

SlotIsEmpty == empty_slot_count > 0

\* Somebody waits and the counter says a slot is empty: dequeue and notify.
Dequeue ==
  /\ srv = "top" /\ ~Queue!isEmpty /\ SlotIsEmpty
  /\ client_pid' = Queue!Oldest
  /\ Queue!dequeue
  /\ flag' = 2
  /\ srv' = "open"
  /\ UNCHANGED <<connection_mode, history, server_fifo, sharedVars, sigusr2, clientVars,
                 status_fifo, childVars>>

\* Otherwise read the pid of a request; without one, usleep() and try again.
ReadPid ==
  /\ srv = "top" /\ (Queue!isEmpty \/ ~SlotIsEmpty)
  /\ server_fifo # <<>>
  /\ client_pid' = Head(server_fifo)
  /\ server_fifo' = Tail(server_fifo)
  /\ srv' = "mode"
  /\ UNCHANGED <<connection_mode, flag, history, queueVars, sharedVars, sigusr2,
                 clientVars, status_fifo, childVars>>

\* The second read() of a request does not wait either: when the FIFO is empty
\* connection_mode keeps the value it had.
ReadMode ==
  /\ srv = "mode"
  /\ \/ /\ server_fifo # <<>>
        /\ connection_mode' = Head(server_fifo)
        /\ server_fifo' = Tail(server_fifo)
        /\ UNCHANGED split
     \/ /\ server_fifo = <<>>
        /\ split' = TRUE
        /\ UNCHANGED <<connection_mode, server_fifo>>
  /\ srv' = "admit"
  /\ UNCHANGED <<client_pid, flag, refused, queueVars, sharedVars, sigusr2, clientVars,
                 status_fifo, childVars>>

\* add_client(): the first free slot, if there is one.
FreeSlots == {i \in Slots : connected_clients[i] = 0}
FirstSlot(S) == CHOOSE i \in S : \A j \in S : i <= j

TakeSlot == connected_clients' = [connected_clients EXCEPT ![FirstSlot(FreeSlots)] = client_pid]

\* A word other than 0 and 1 as the mode falls through both tests, so that the
\* client is told it is connected.
Admit ==
  /\ srv = "admit"
  /\ \/ FreeSlots # {} /\ TakeSlot /\ flag' = 2
     \/ /\ FreeSlots = {} /\ UNCHANGED connected_clients
        /\ flag' = IF connection_mode \in Modes THEN connection_mode ELSE 2
  /\ srv' = "open"
  /\ UNCHANGED <<client_pid, connection_mode, history, queueVars, server_fifo,
                 empty_slot_count, sigusr2, clientVars, status_fifo, childVars>>

\* send_notification(): open() for writing waits until the client has opened
\* the FIFO for reading, and the other way around.
OpenStatusFifo ==
  /\ srv = "open" /\ Reads(client_pid)
  /\ client' = [client EXCEPT ![client_pid] = IF @ = "open" THEN "status" ELSE @]
  /\ srv' = "write"
  /\ UNCHANGED <<client_pid, connection_mode, flag, history, queueVars, server_fifo,
                 sharedVars, sigusr2, mode, semaphore, status_fifo, childVars>>

\* The write(); without a reader any more, SIGPIPE ends the server.
Continue_NeverQueued == [f \in Statuses |-> IF f = 2 THEN "fork" ELSE "top"]
Continue_NoFork == [f \in Statuses |-> IF f = 1 THEN "enqueue" ELSE "top"]
Continue_ == [f \in Statuses |-> CASE f = 0 -> "top" [] f = 1 -> "enqueue" [] f = 2 -> "fork"]

WriteStatus ==
  /\ srv = "write"
  /\ IF Reads(client_pid)
       THEN /\ status_fifo' = [status_fifo EXCEPT ![client_pid] = Append(@, flag)]
            /\ srv' = Continue_[flag]
       ELSE srv' = "crashed" /\ UNCHANGED status_fifo
  /\ UNCHANGED <<client_pid, connection_mode, flag, history, queueVars, server_fifo,
                 sharedVars, sigusr2, clientVars, childVars>>

Enqueue ==
  /\ srv = "enqueue"
  /\ Queue!enqueue(client_pid)
  /\ refused' = IF Queue!isFull THEN refused \cup {client_pid} ELSE refused
  /\ srv' = "top"
  /\ UNCHANGED <<client_pid, connection_mode, flag, split, server_fifo, sharedVars, sigusr2,
                 clientVars, status_fifo, childVars>>

\* fork(); a failure is exit(EXIT_FAILURE).
Fork ==
  /\ srv = "fork"
  /\ \/ srv' = "top" /\ child' = [child EXCEPT ![client_pid] = "forked"]
     \/ srv' = "crashed" /\ UNCHANGED child
  /\ UNCHANGED <<client_pid, connection_mode, flag, history, queueVars, server_fifo,
                 sharedVars, sigusr2, clientVars, status_fifo, tmp>>

\* signal_handler2(), at any point of the loop: SIGTERM to the clients of the
\* first max_clients - empty_slot_count slots, and exit(0).
HandleSigusr2 ==
  /\ ServerRuns /\ sigusr2
  /\ LET told == {connected_clients[i] : i \in Slots \cap 0 .. MaxClients - empty_slot_count - 1}
     IN client' = [c \in Clients |-> IF c \in told THEN "gone" ELSE client[c]]
  /\ srv' = "stopped" /\ sigusr2' = FALSE
  /\ UNCHANGED <<client_pid, connection_mode, flag, history, queueVars, server_fifo,
                 sharedVars, mode, semaphore, status_fifo, childVars>>

ServerProcess ==
  \/ Dequeue \/ ReadPid \/ ReadMode \/ Admit \/ OpenStatusFifo \/ WriteStatus
  \/ Enqueue \/ Fork \/ HandleSigusr2

-----------------------------------------------------------------------------
(* The child of the server *)

\* empty_slot_count = empty_slot_count - 1, without a lock.
OneLess_Sign(n) == n + 1
OneLess(n) == n - 1

ReadCount(c) ==
  /\ child[c] = "forked"
  /\ tmp' = [tmp EXCEPT ![c] = empty_slot_count]
  /\ child' = [child EXCEPT ![c] = "counted"]
  /\ UNCHANGED <<serverVars, queueVars, server_fifo, sharedVars, sigusr2, clientVars,
                 status_fifo>>

WriteCount(c) ==
  /\ child[c] = "counted"
  /\ empty_slot_count' = OneLess(tmp[c])
  /\ tmp' = [tmp EXCEPT ![c] = 0]
  /\ child' = [child EXCEPT ![c] = "open"]
  /\ UNCHANGED <<serverVars, queueVars, server_fifo, connected_clients, sigusr2,
                 clientVars, status_fifo>>

\* handle_client() opens both FIFOs, together with the client.
OpenSession(c) ==
  /\ child[c] = "open" /\ Step(c, "connect", "session")
  /\ child' = [child EXCEPT ![c] = "serve"]
  /\ UNCHANGED <<serverVars, queueVars, server_fifo, sharedVars, sigusr2, mode,
                 semaphore, status_fifo, tmp>>

\* quit(): the slot is free again, and exit(0) in the child.
FreeSlot_Forgotten(c) == UNCHANGED connected_clients
FreeSlot(c) ==
  LET held == {i \in Slots : connected_clients[i] = c}
  IN connected_clients' = [i \in Slots |->
       IF held # {} /\ i = FirstSlot(held) THEN 0 ELSE connected_clients[i]]

HandleQuit(c) ==
  /\ child[c] = "serve" /\ client[c] = "quit"
  /\ FreeSlot(c)
  /\ child' = [child EXCEPT ![c] = "exited"]
  /\ UNCHANGED <<serverVars, queueVars, server_fifo, empty_slot_count, sigusr2,
                 clientVars, status_fifo, tmp>>

HandleKillServer(c) ==
  /\ child[c] = "serve" /\ client[c] = "killServer"
  /\ sigusr2' = (sigusr2 \/ ServerRuns)
  /\ child' = [child EXCEPT ![c] = "exited"]
  /\ UNCHANGED <<serverVars, queueVars, server_fifo, sharedVars, clientVars,
                 status_fifo, tmp>>

ChildProcess(c) ==
  \/ ReadCount(c) \/ WriteCount(c) \/ OpenSession(c) \/ HandleQuit(c)
  \/ HandleKillServer(c)

User(c) == Quit(c) \/ KillServer(c) \/ Interrupt(c)

Next ==
  \/ ServerProcess
  \/ \E c \in Clients : ClientProcess(c) \/ ChildProcess(c) \/ User(c)

Spec == Init /\ [][Next]_vars

\* The scheduler runs every process that can run; users need not do anything.
FairSpec ==
  /\ Spec
  /\ WF_vars(ServerProcess)
  /\ \A c \in Clients : WF_vars(ClientProcess(c)) /\ WF_vars(ChildProcess(c))

-----------------------------------------------------------------------------
(* Properties *)

ServerStates == {"top", "mode", "admit", "open", "write", "enqueue", "fork",
                 "stopped", "crashed"}
ClientStates == {"start", "pid", "mode", "post", "open", "status", "connect", "session",
                 "quit", "killServer", "gone"}
ChildStates == {"none", "forked", "counted", "open", "serve", "exited"}

\* Every variable has the type its declaration gives it.
TypeOK ==
  /\ srv \in ServerStates
  /\ client_pid \in Words \cup {Junk} /\ connection_mode \in Words \cup {Junk}
  /\ flag \in Statuses
  /\ Queue!QueueTypeOK
  /\ server_fifo \in Seq(Words)
  /\ connected_clients \in [Slots -> Words] /\ empty_slot_count \in Int
  /\ sigusr2 \in BOOLEAN
  /\ client \in [Clients -> ClientStates] /\ mode \in [Clients -> Modes]
  /\ semaphore \in {0, 1}
  /\ status_fifo \in [Clients -> Seq(Statuses)]
  /\ child \in [Clients -> ChildStates] /\ tmp \in [Clients -> Int]
  /\ split \in BOOLEAN /\ refused \subseteq Words

\* The semaphore keeps the two words of a request together in SERVER_FIFO,
\* whoever presses Ctrl+C between them (biboClient.c, lines 129-144): a pid is
\* followed by the mode of that client, a mode by a pid.
FramesWhole ==
  \A i \in 1 .. Len(server_fifo) - 1 :
    LET w == server_fifo[i]  next == server_fifo[i + 1]
    IN IF w \in Clients THEN next = mode[w] ELSE next \in Clients

\* Where a client that made its request is kept: in SERVER_FIFO, in the hands
\* of the server, in the queue, with a child.
InHand(c) == client_pid = c /\ srv \in {"mode", "admit", "open", "write", "enqueue", "fork"}
HasChild(c) == child[c] # "none"
Places(c) ==
  {<<"fifo", i>> : i \in {j \in DOMAIN server_fifo : server_fifo[j] = c}}
  \cup {<<"queue", i>> : i \in {j \in DOMAIN Queue!Contents : Queue!Contents[j] = c}}
  \cup {<<"hand", 1>> : i \in IF InHand(c) THEN {1} ELSE {}}
  \cup {<<"child", 1>> : i \in IF HasChild(c) THEN {1} ELSE {}}

\* No client is queued twice, forked for twice, or queued while it is served,
\* even when the server loses the frame of the requests (lines 557-611).
OnePlace == \A c \in Clients : Cardinality(Places(c)) <= 1

\* While the server runs, a client that waits for an answer is kept somewhere, or
\* its answer is on its way, unless enqueue() refused it or the server has once
\* read a pid whose mode was not there yet and took the words of the requests for
\* each other from then on (lines 42-79, 557-611).
NobodyForgotten ==
  \A c \in Clients : ServerRuns /\ client[c] \in {"open", "status"}
    => Places(c) # {} \/ status_fifo[c] # <<>> \/ c \in refused \/ split

\* A slot is held by one client that is being connected or has a child: the
\* server's add_client() and the child's quit() share the array without a
\* lock, and no slot is lost or given to two (lines 137-143, 373-381).
SlotsTruthful ==
  ServerRuns /\ ~sigusr2 =>
    \A i \in Slots : connected_clients[i] \in Clients =>
      /\ InHand(connected_clients[i])
         \/ child[connected_clients[i]] \notin {"none", "exited"}
      /\ \A j \in Slots : connected_clients[j] = connected_clients[i] => i = j

\* However the decrements of the children interleave, empty_slot_count is never
\* below the slots that the children forked so far can have taken (line 606).
CountNotUnderstated ==
  /\ empty_slot_count >= MaxClients - Cardinality({c \in Clients : HasChild(c)})
  /\ empty_slot_count <= MaxClients

\* A client that opens its status FIFO is told a status: server and client, each
\* waiting in open() for the other, always meet, unless the server read a pid
\* before its mode, after which it may wait for ever for a client that is none
\* (lines 411-437, 564-578).
RequestAnswered ==
  \A c \in Clients : client[c] = "open" ~> client[c] # "open" \/ ~ServerRuns \/ split

\* A tryConnect client that was told 2 gets a child and a session.
ConnectedIsServed ==
  \A c \in Clients : client[c] = "connect" /\ mode[c] = 1
                       ~> client[c] # "connect" \/ ~ServerRuns

-----------------------------------------------------------------------------
(* What the comments say and the code does not do *)

\* Line 557: "if there is a client at queue and there is an empty slot".  With
\* no client connected, a queued one is not left waiting.
QueuedIsServed ==
  LET Waits(c) == /\ ServerRuns /\ \E i \in DOMAIN Queue!Contents : Queue!Contents[i] = c
                  /\ connected_clients = [i \in Slots |-> 0] /\ ~split
  IN \A c \in Clients : Waits(c) ~> ~Waits(c)
=============================================================================
