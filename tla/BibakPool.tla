----------------------------- MODULE BibakPool -----------------------------
(***************************************************************************)
(* Final_HW6: BibakBOXServer.c, its pool of slots and the threads in them, *)
(* and BibakBOXClient.c from connect() to the end of its first download.   *)
(* What a session does then (BibakSync) is here a change of the server's   *)
(* directory.                                                              *)
(*                                                                         *)
(* The files offered are those the server found when it started.  A file   *)
(* is told by its size, in units that one send() takes.                    *)
(***************************************************************************)
EXTENDS Integers, Sequences, FiniteSets, SequencesExt

CONSTANTS
  Clients,
  threadSize,  \* the number of slots
  Files,       \* the number of files in contents
  Found,       \* Found[f]: the size of file f when the server started
  MaxSize,     \* bound of the model: units in a file
  MaxChanges   \* bound of the model: messages of the sessions

ASSUME PoolAssumption ==
  /\ threadSize \in Nat \ {0} /\ Files \in Nat
  /\ MaxSize \in Nat \ {0} /\ MaxChanges \in Nat

Free == "free"
Absent == -1
Slots == 1 .. threadSize
Indices == 1 .. Files

ASSUME ClientsAssumption == Free \notin Clients
ASSUME FoundAssumption == Found \in [Indices -> 0 .. MaxSize]

VARIABLES
  server,       \* "up" or "exited"
  backlog,      \* connections that are not accepted yet
  client_pool,  \* client_pool[i].client_sock, by the client
  thread,       \* thread[c]: where the thread of client c is
  next,         \* next[c]: the file it sends
  disk,         \* disk[f]: the size of file f at the server, or Absent
  changes,      \* how many messages the sessions have sent
  client,       \* client[c]: where the client is
  stream,       \* stream[c]: what is on the way to it
  current,      \* current[c]: the file it receives
  fileSize,     \* fileSize[c]: how much of that is yet to come
  copy,         \* copy[c][f]: what it has received
  told,         \* told[c][f]: the size of file f that was sent to it, if it was there
  slow,         \* slow[c]: the next file was sent while data was unread
  garbled,      \* garbled[c]: it did not read the contents as they were sent
  torn,         \* torn[c]: a file was changed between its size and its data, for it
  removed       \* a file of contents was ever removed

serverVars == <<server, backlog, client_pool, thread, next>>
clientVars == <<client, stream, current, fileSize, copy>>
history == <<told, slow, garbled, torn, removed>>
vars == <<serverVars, disk, changes, clientVars, history>>

Init ==
  /\ server = "up" /\ backlog = <<>>
  /\ client_pool = [i \in Slots |-> Free]
  /\ thread = [c \in Clients |-> "none"]
  /\ next = [c \in Clients |-> 1]
  /\ disk = Found
  /\ changes = 0
  /\ client = [c \in Clients |-> "out"]
  /\ stream = [c \in Clients |-> <<>>]
  /\ current = [c \in Clients |-> 1]
  /\ fileSize = [c \in Clients |-> 0]
  /\ copy = [c \in Clients |-> [f \in Indices |-> 0]]
  /\ told = [c \in Clients |-> [f \in Indices |-> 0]]
  /\ slow = [c \in Clients |-> FALSE]
  /\ garbled = [c \in Clients |-> FALSE]
  /\ torn = [c \in Clients |-> FALSE]
  /\ removed = FALSE

Contents == [kind |-> "contents"]
Data == [kind |-> "data"]
SizeIs(n) == [kind |-> "size", size |-> n]

-----------------------------------------------------------------------------
(* main() of the server *)

\* The first free slot; no slot is ever freed.
FreeSlots == {i \in Slots : client_pool[i] = Free}
Slot == CHOOSE i \in FreeSlots : \A j \in FreeSlots : i <= j

Busy_OneEarly == Cardinality(FreeSlots) <= 1
Busy == FreeSlots = {}

Accept ==
  /\ server = "up" /\ backlog # <<>>
  /\ LET c == Head(backlog)
     IN  \/ /\ ~Busy
            /\ client_pool' = [client_pool EXCEPT ![Slot] = c]
            /\ thread' = [thread EXCEPT ![c] = "contents"]
            /\ UNCHANGED client
         \/ /\ Busy
            /\ client' = [client EXCEPT ![c] = IF @ = "gone" THEN @ ELSE "refused"]
            /\ UNCHANGED <<client_pool, thread>>
  /\ backlog' = Tail(backlog)
  /\ UNCHANGED <<server, next, disk, changes, stream, current, fileSize, copy, history>>

\* The length of the address is not set before the first accept(), which fails
\* when what it holds is negative.
AcceptFails ==
  /\ server = "up" /\ backlog # <<>> /\ FreeSlots = Slots
  /\ server' = "exited"
  /\ UNCHANGED <<backlog, client_pool, thread, next, disk, changes, clientVars, history>>

-----------------------------------------------------------------------------
(* thread_function() of the server *)

\* A send() to a client that is gone ends the process with SIGPIPE, or is
\* accepted for the last time.
Send(c, units) ==
  \/ client[c] # "gone" /\ stream' = [stream EXCEPT ![c] = @ \o units] /\ UNCHANGED server
  \/ client[c] = "gone" /\ server' \in {"up", "exited"} /\ UNCHANGED stream

At(c, here, there) ==
  server = "up" /\ thread[c] = here /\ thread' = [thread EXCEPT ![c] = there]

\* The path, and the contents as they were when the server started.
AfterSend(c) == IF next[c] > Files THEN "loop" ELSE "size"

SendContents(c) ==
  /\ At(c, "contents", AfterSend(c))
  /\ Send(c, <<Contents>>)
  /\ UNCHANGED <<backlog, client_pool, next, disk, changes, client, current, fileSize, copy, history>>

\* sendFile(): the size, -1 for a file that is gone.
SendSize(c) ==
  /\ At(c, "size", "data")
  /\ Send(c, <<SizeIs(disk[next[c]])>>)
  /\ told' = [told EXCEPT ![c][next[c]] = IF client[c] = "gone" THEN @ ELSE disk[next[c]]]
  /\ slow' = [slow EXCEPT ![c] = @ \/ Data \in ToSet(stream[c])]
  /\ UNCHANGED <<backlog, client_pool, next, disk, changes, client, current, fileSize, copy,
                 garbled, torn, removed>>

\* Then the data, if there is a file; otherwise exit().
OpensFile_NotEmpty(c) == disk[next[c]] > 0
OpensFile(c) == disk[next[c]] # Absent

SendData(c) ==
  LET more == next[c] < Files
  IN  /\ At(c, "data", IF more THEN "size" ELSE "loop")
      /\ OpensFile(c)
      /\ Send(c, [k \in 1 .. disk[next[c]] |-> Data])
      /\ next' = [next EXCEPT ![c] = @ + 1]
      /\ UNCHANGED <<backlog, client_pool, disk, changes, client, current, fileSize, copy, history>>

ExitNoFile(c) ==
  /\ server = "up" /\ thread[c] = "data" /\ ~OpensFile(c)
  /\ server' = "exited"
  /\ UNCHANGED <<backlog, client_pool, thread, next, disk, changes, clientVars, history>>

\* A message of the session, whether the client has the files or takes something
\* else for them.
Hears(c) ==
  /\ server = "up" /\ thread[c] = "loop" /\ client[c] \in {"session", "lost"}
  /\ changes < MaxChanges /\ changes' = changes + 1

\* A file is created again, changed or removed.
Handle(c) ==
  /\ Hears(c)
  /\ \E f \in Indices, size \in 0 .. MaxSize \cup {Absent} :
       /\ disk' = [disk EXCEPT ![f] = size]
       /\ removed' = (removed \/ size = Absent)
       /\ torn' = [d \in Clients |->
                     torn[d] \/ (client[d] # "gone" /\ thread[d] = "data" /\ next[d] = f)]
  /\ UNCHANGED <<serverVars, clientVars, told, slow, garbled>>

\* create_folder_structure() or fopen() fails, or what was taken for a length was
\* none: the process exits.
HandlerFails(c) ==
  /\ Hears(c)
  /\ server' = "exited" /\ thread' = [thread EXCEPT ![c] = "failed"]
  /\ UNCHANGED <<backlog, client_pool, next, disk, clientVars, history>>

\* recv() of a connection that is closed returns 0.  messageLength is what it
\* was; the text of that length is not there, and the process exits.  Never set
\* before a first message it may be 0, and the thread goes round for ever, as it
\* does where an update waits for data.
EndOfStream(c) ==
  /\ server = "up" /\ thread[c] = "loop" /\ client[c] = "gone"
  /\ \/ server' = "exited" /\ UNCHANGED thread
     \/ thread' = [thread EXCEPT ![c] = "spins"] /\ UNCHANGED server
  /\ UNCHANGED <<backlog, client_pool, next, disk, changes, clientVars, history>>

ServerThread(c) ==
  SendContents(c) \/ SendSize(c) \/ SendData(c) \/ ExitNoFile(c) \/ EndOfStream(c)

-----------------------------------------------------------------------------
(* The clients *)

ClientOnly == UNCHANGED <<serverVars, disk, changes, told, slow, torn, removed>>

\* connect() succeeds before accept().
Connect(c) ==
  /\ server = "up" /\ client[c] = "out"
  /\ client' = [client EXCEPT ![c] = "connected"]
  /\ backlog' = Append(backlog, c)
  /\ UNCHANGED <<server, client_pool, thread, next, disk, changes, stream, current, fileSize, copy, history>>

Goes(c, there) == client' = [client EXCEPT ![c] = there]
Takes(c, n) == stream' = [stream EXCEPT ![c] = SubSeq(@, n + 1, Len(@))]

\* createSameDirectoryStructure() makes an empty file of each name.
AfterFile(f) == IF f > Files THEN "session" ELSE "size"

\* The path gets no '\0', and it and every entry of the list are one read(), which
\* may return less than was sent: then the names are others, and what is left of
\* the list is taken for what follows it.
ReceiveContents(c) ==
  /\ client[c] = "connected" /\ stream[c] # <<>>
  /\ Takes(c, 1)
  /\ \/ Goes(c, AfterFile(1)) /\ UNCHANGED garbled
     \/ Goes(c, "lost") /\ garbled' = [garbled EXCEPT ![c] = TRUE]
  /\ UNCHANGED <<current, fileSize, copy>> /\ ClientOnly

\* saveFile(): the size, whatever it is that comes.
ReceiveSize(c) ==
  /\ client[c] = "size" /\ stream[c] # <<>>
  /\ Takes(c, 1)
  /\ \/ /\ Head(stream[c]).kind = "size"
        /\ fileSize' = [fileSize EXCEPT ![c] = Head(stream[c]).size]
        /\ Goes(c, "data")
     \/ /\ Head(stream[c]).kind # "size"
        /\ Goes(c, "lost")
        /\ UNCHANGED fileSize
  /\ UNCHANGED <<current, copy, garbled>> /\ ClientOnly

\* recv() of BUFFER_SIZE takes what is there.
MoreToCome_OneLess(c) == fileSize[c] > 1
MoreToCome_OneMore(c) == fileSize[c] >= 0
MoreToCome(c) == fileSize[c] > 0

ReceiveData(c) ==
  /\ client[c] = "data" /\ MoreToCome(c)
  /\ \E n \in 1 .. Len(stream[c]) :
       /\ Takes(c, n)
       /\ fileSize' = [fileSize EXCEPT ![c] = @ - n]
       /\ copy' = [copy EXCEPT ![c][current[c]] = @ + n]
       /\ Goes(c, IF \A k \in 1 .. n : stream[c][k] = Data THEN "data" ELSE "lost")
  /\ UNCHANGED <<current, garbled>> /\ ClientOnly

FileDone(c) ==
  /\ client[c] = "data" /\ ~MoreToCome(c)
  /\ current' = [current EXCEPT ![c] = @ + 1]
  /\ Goes(c, AfterFile(current[c] + 1))
  /\ UNCHANGED <<stream, fileSize, copy, garbled>> /\ ClientOnly

\* The user ends the client, and what it had received does not matter any more.
Leave(c) ==
  /\ client[c] \notin {"out", "gone", "refused"}
  /\ Goes(c, "gone")
  /\ stream' = [stream EXCEPT ![c] = <<>>]
  /\ current' = [current EXCEPT ![c] = 1]
  /\ fileSize' = [fileSize EXCEPT ![c] = 0]
  /\ copy' = [copy EXCEPT ![c] = [f \in Indices |-> 0]]
  /\ told' = [told EXCEPT ![c] = [f \in Indices |-> 0]]
  /\ slow' = [slow EXCEPT ![c] = FALSE]
  /\ garbled' = [garbled EXCEPT ![c] = FALSE]
  /\ torn' = [torn EXCEPT ![c] = FALSE]
  /\ UNCHANGED <<serverVars, disk, changes, removed>>

Receive(c) == ReceiveContents(c) \/ ReceiveSize(c) \/ ReceiveData(c) \/ FileDone(c)

-----------------------------------------------------------------------------

\* Nothing follows the end of the server: each client ends with its next send().
Next ==
  /\ server = "up"
  /\ \/ Accept \/ AcceptFails
     \/ \E c \in Clients :
          ServerThread(c) \/ Handle(c) \/ HandlerFails(c) \/ Connect(c) \/ Receive(c) \/ Leave(c)

\* The server's threads and the clients run; nobody has to come, edit or leave.
Spec ==
  /\ Init /\ [][Next]_vars
  /\ WF_vars(Accept)
  /\ \A c \in Clients : WF_vars(ServerThread(c)) /\ WF_vars(server = "up" /\ Receive(c))

-----------------------------------------------------------------------------
(* Properties *)

\* Nobody is turned away while there is a slot, nobody has two, and a slot is
\* never given to anybody else: threadSize clients are served in all, however
\* many of them have left (lines 526-559 of the server).
Turned == {c \in Clients : client[c] = "refused"}
SlotsForEver ==
  /\ Turned # {} => FreeSlots = {}
  /\ \A c \in Clients : thread[c] # "none" <=> \E i \in Slots : client_pool[i] = c
  /\ Cardinality({c \in Clients : thread[c] # "none"}) = threadSize - Cardinality(FreeSlots)

\* The server ends only at its first accept(), or because a client has left, or
\* with a message that a handler gave up, or because a file that it found when it
\* started was removed by a session and is sent to a newcomer: never by a download
\* alone (lines 78-86, 188-192, 262-265, 333-336, 404-437, 529-533 of the server).
EndsOnlyBy ==
  server = "exited" =>
    \/ removed \/ FreeSlots = Slots
    \/ \E c \in Clients : client[c] = "gone" \/ thread[c] = "failed"

\* A client that has read the contents as they were sent and reads as fast as the
\* server sends never takes one part of the stream for another, and has each file
\* as long as it was told in the end, whatever the sessions change, unless a file
\* was changed between its size and its data (lines 175-209 of the server, 506-543
\* of the client).
KeptUp(c) == ~slow[c] /\ ~garbled[c] /\ ~torn[c]
DownloadTrue ==
  \A c \in Clients :
    KeptUp(c) => /\ client[c] # "lost"
                 /\ client[c] = "session" =>
                      \A f \in Indices : copy[c][f] = IF told[c][f] = Absent THEN 0 ELSE told[c][f]

\* Whoever has a slot coming gets through the download, unless somebody brings the
\* server down first, the client leaves, is too slow or did not read the contents
\* as they were sent, or a file was changed between its size and its data, which
\* may then be shorter than the client was told (lines 175-209, 526-559).
SlotComing(c) == \E k \in 1 .. Len(backlog) : backlog[k] = c /\ k <= Cardinality(FreeSlots)
Through(c) ==
  \/ client[c] \in {"session", "gone"}
  \/ client[c] = "lost" /\ ~KeptUp(c)
  \/ torn[c] \/ server = "exited"
ComesThrough == \A c \in Clients : SlotComing(c) ~> Through(c)
=============================================================================
