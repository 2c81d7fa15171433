----------------------------- MODULE BibakSync -----------------------------
(***************************************************************************)
(* Final_HW6: one session of BibakBOXClient.c, which looks at its          *)
(* directory once a second and sends what has changed, with its thread of  *)
(* BibakBOXServer.c, which applies that to the server's directory.         *)
(*                                                                         *)
(* A file is told by its size, in units that one send() takes.  The        *)
(* connection is a stream of units: the length of a message, the message   *)
(* with the fields that follow it, and the data of an update.  The fields  *)
(* are read one by one with their length and are one unit here, a number   *)
(* of four or eight bytes being taken to arrive whole; data is read with a *)
(* recv() of BUFFER_SIZE, which takes what is there.  The directories are  *)
(* flat.                                                                   *)
(***************************************************************************)
EXTENDS Integers, Sequences, FiniteSets, SequencesExt

CONSTANTS
  Names,          \* the files a user may have
  Extensionless,  \* those without a "." in their name
  Longer,         \* Longer[f]: what f may become at the server, whose copy of a
                  \* name need not end where the name does
  Junk,           \* a name that is no user's: f with anything else behind it
  NoName,         \* what an array element never written holds
  MaxSize,        \* bound of the model: units in a file
  MaxEdits        \* bound of the model: what the user does

ASSUME SyncAssumption ==
  /\ IsFiniteSet(Names)
  /\ Extensionless \subseteq Names /\ Longer \in [Names -> SUBSET (Names \cup {Junk})]
  /\ {Junk, NoName} \cap Names = {} /\ Junk # NoName
  /\ MaxSize \in Nat \ {0} /\ MaxEdits \in Nat

Absent == -1
Directory == -2
Sizes == 0 .. MaxSize
Indices == 1 .. Cardinality(Names)  \* of fileInfos[], MAX_FILES being more

VARIABLES
  dir,         \* dir[f]: the size of f in the client's directory, or Absent
  client,      \* where the client is
  target,      \* the file it sends
  index,       \* of the loop of check_update()
  count,       \* the number of files when the session started
  fileInfos,   \* the snapshot: names, and whether the file is newer
  glob_count,  \* how many elements of it are in use
  wire,        \* the connection
  thread,      \* where the server's thread is
  file,        \* the file it writes
  file_size,   \* how much of it is yet to come
  sdir,        \* the server's directory
  edits,       \* how often the user did something
  edited,      \* the user did something since the last look at the directory
  calm,        \* the user waited each time until the last edit was through
  deleted,     \* what the user ever deleted
  created,     \* the user ever created a file
  raced        \* a message followed an update, or the file changed meanwhile

clientVars == <<client, target, index, fileInfos, glob_count>>
threadVars == <<thread, file, file_size, sdir>>
userVars == <<edits, edited, calm, deleted, created>>
vars == <<dir, clientVars, count, wire, threadVars, userVars, raced>>

Present == {f \in Names : dir[f] # Absent}
Entry(f) == [name |-> f, newer |-> FALSE]

Init ==
  /\ dir \in [Names -> {Absent, 1}]
  /\ sdir = [f \in Names \cup {Junk} |-> IF f = Junk THEN Absent ELSE dir[f]]
  /\ count = Cardinality(Present) /\ glob_count = count
  /\ \E s \in SetToSeqs(Present) :
       fileInfos = [k \in Indices |-> IF k <= count THEN Entry(s[k]) ELSE Entry(NoName)]
  /\ client = "sleep" /\ target = NoName /\ index = 1
  /\ wire = <<>>
  /\ thread = "loop" /\ file = NoName /\ file_size = 0
  /\ edits = 0 /\ edited = FALSE /\ calm = TRUE /\ deleted = {} /\ created = FALSE
  /\ raced = FALSE

-----------------------------------------------------------------------------
(* The user *)

\* The times of files are whole seconds: a change in the second in which an
\* element was written does not make the file newer.
Touch(f) ==
  \E seen \in SUBSET {k \in Indices : fileInfos[k].name = f} :
    /\ fileInfos' = [k \in Indices |-> [fileInfos[k] EXCEPT !.newer = @ \/ k \in seen]]
    /\ calm' = /\ calm /\ client = "sleep" /\ ~edited /\ wire = <<>> /\ thread = "loop"
               /\ \A k \in Indices : fileInfos[k].name = f => k \in seen

Edit(f, size) ==
  /\ edits < MaxEdits
  /\ edits' = edits + 1 /\ edited' = TRUE
  /\ dir[f] # Absent \/ size # Absent
  /\ dir' = [dir EXCEPT ![f] = size]
  /\ Touch(f)
  /\ deleted' = IF size = Absent THEN deleted \cup {f} ELSE deleted
  /\ created' = (created \/ dir[f] = Absent)
  /\ UNCHANGED <<client, target, index, glob_count, count, wire, threadVars, raced>>

-----------------------------------------------------------------------------
(* The client *)

Length == [kind |-> "length"]
Data == [kind |-> "data"]
Create(f) == [kind |-> "create", name |-> f]
Delete(f) == [kind |-> "delete", name |-> f]
Update(f, size) == [kind |-> "update", name |-> f, size |-> size]

\* An update is on its way, or the server still wants data for it.
Updates == {k \in DOMAIN wire : wire[k].kind = "update"}
UpdateUnderWay == Updates # {} \/ (thread = "data" /\ file_size > 0)

Send(units) ==
  /\ wire' = wire \o units
  /\ raced' = (raced \/ UpdateUnderWay)

Kept == {fileInfos[k].name : k \in 1 .. glob_count}

\* saveFileModificationTimes() into the array just freed and allocated again:
\* it is the same memory, its first bytes overwritten.  The elements are in the
\* order of readdir().
Refresh ==
  \E s \in SetToSeqs(Present) :
    /\ glob_count' = Len(s)
    /\ fileInfos' = [k \in Indices |-> IF k <= Len(s) THEN Entry(s[k])
                                       ELSE IF k = 1 THEN Entry(NoName) ELSE fileInfos[k]]

\* check_create(): with more files than before the first new one is sent, its
\* length first, then, after a second, the rest.
HasNew == Cardinality(Present) > glob_count

CheckCreate ==
  /\ client = "sleep"
  /\ edited' = FALSE
  /\ \/ /\ HasNew
        /\ \E f \in Present \ Kept : target' = f
        /\ Send(<<Length>>)
        /\ client' = "create"
     \/ /\ ~HasNew
        /\ client' = "delete"
        /\ UNCHANGED <<target, wire, raced>>
  /\ UNCHANGED <<dir, index, fileInfos, glob_count, count, threadVars, edits, calm, deleted, created>>

SendCreate ==
  /\ client = "create"
  /\ Send(<<Create(target)>>)
  /\ Refresh
  /\ client' = "delete"
  /\ UNCHANGED <<dir, target, index, count, threadVars, userVars>>

\* check_delete(): with fewer files than before the first that is missing.
Missing == {k \in 1 .. glob_count : fileInfos[k].name \notin Present}
FirstMissing_Wrong == 1
FirstMissing == CHOOSE k \in Missing : \A j \in Missing : k <= j

HasFewer_OffByOne == Cardinality(Present) < glob_count - 1
HasFewer == Cardinality(Present) < glob_count

CheckDelete ==
  /\ client = "delete"
  /\ \/ /\ HasFewer
        /\ Send(<<Length, Delete(fileInfos[FirstMissing].name)>>)
        /\ client' = "refresh"
        /\ UNCHANGED index
     \/ /\ ~HasFewer
        /\ client' = "update" /\ index' = 1
        /\ UNCHANGED <<wire, raced>>
  /\ UNCHANGED <<dir, target, fileInfos, glob_count, count, threadVars, userVars>>

AfterDelete ==
  /\ client = "refresh"
  /\ Refresh
  /\ client' = "update" /\ index' = 1
  /\ UNCHANGED <<dir, target, count, wire, threadVars, userVars, raced>>

\* remove_file_from_path(): the elements behind the first of that name move up.
RemoveFromPath(f) ==
  LET at == {k \in 1 .. glob_count : fileInfos[k].name = f}
      first == CHOOSE k \in at : \A j \in at : k <= j
  IN  IF at = {} THEN UNCHANGED <<fileInfos, glob_count>>
      ELSE /\ fileInfos' = [k \in Indices |-> IF k \in first .. glob_count - 1
                                              THEN fileInfos[k + 1] ELSE fileInfos[k]]
           /\ glob_count' = glob_count - 1

\* One turn of check_update(), whose count is that of the start: it may be more
\* than glob_count, and it may be less.  A file that is newer is sent.
CheckEntry ==
  LET f == fileInfos[index].name
  IN  /\ client = "update" /\ index <= count
      /\ \/ /\ f \notin Present
            /\ RemoveFromPath(f)
            /\ index' = index + 1
            /\ UNCHANGED <<client, target, wire, raced>>
         \/ /\ f \in Present /\ fileInfos[index].newer
            /\ fileInfos' = [fileInfos EXCEPT ![index].newer = FALSE]
            /\ target' = f
            /\ client' = "announce"
            /\ UNCHANGED <<index, glob_count, wire, raced>>
         \/ /\ f \in Present /\ ~fileInfos[index].newer
            /\ index' = index + 1
            /\ UNCHANGED <<client, target, fileInfos, glob_count, wire, raced>>
      /\ UNCHANGED <<dir, count, threadVars, userVars>>

NoUpdate ==
  /\ client = "update" /\ index > count
  /\ client' = "sleep"
  /\ UNCHANGED <<dir, target, index, fileInfos, glob_count, count, wire, threadVars, userVars, raced>>

\* updateDetected(): the size, which is -1 when the file is gone by now.
Announce ==
  /\ client = "announce"
  /\ Send(<<Length, Update(target, dir[target])>>)
  /\ client' = "data"
  /\ UNCHANGED <<dir, target, index, fileInfos, glob_count, count, threadVars, userVars>>

\* The end of updateDetected(): what the file holds now, if it is still there.
Units(size) == IF size < 0 THEN 0 ELSE size
Announced ==
  {Units(wire[k].size) : k \in Updates} \cup (IF thread = "data" THEN {Units(file_size)} ELSE {})
Awaited == IF UpdateUnderWay THEN Announced ELSE {0}

SendData ==
  /\ client = "data"
  /\ wire' = wire \o [k \in 1 .. Units(dir[target]) |-> Data]
  /\ raced' = (raced \/ Units(dir[target]) \notin Awaited)
  /\ client' = "sleep"
  /\ UNCHANGED <<dir, target, index, fileInfos, glob_count, count, threadVars, userVars>>

Client ==
  \/ CheckCreate \/ SendCreate \/ CheckDelete \/ AfterDelete
  \/ CheckEntry \/ NoUpdate \/ Announce \/ SendData

-----------------------------------------------------------------------------
(* The server's thread.  Once it has taken one unit for another it is "lost"; *)
(* what it does then is not modelled, and nothing follows.                    *)

Take(n) == wire' = SubSeq(wire, n + 1, Len(wire))

ThreadLeaves == UNCHANGED <<dir, clientVars, count, userVars, raced>>

RecvLength ==
  /\ thread = "loop" /\ wire # <<>>
  /\ Take(1)
  /\ thread' = IF Head(wire) = Length THEN "text" ELSE "lost"
  /\ UNCHANGED <<file, file_size, sdir>> /\ ThreadLeaves

\* The names of handle_create() and handle_delete() have no '\0' behind them: what
\* the memory held before, another name perhaps, may lengthen them.
Received(f) == {f} \cup Longer[f]

\* handle_create(): a directory for a name without extension, otherwise an empty
\* file, whatever was there.
HandleCreate(f) ==
  LET wanted == IF f \in Extensionless THEN Directory ELSE 0
      clash == f # Junk /\ sdir[f] # Absent
                 /\ (sdir[f] = Directory) # (wanted = Directory)
  IN  /\ thread' = IF clash THEN "exited" ELSE "loop"
      /\ sdir' = IF clash THEN sdir ELSE [sdir EXCEPT ![f] = wanted]

HandleDelete(f) ==
  /\ thread' = "loop"
  /\ sdir' = [sdir EXCEPT ![f] = Absent]

\* handle_update() up to the loop that receives the data: the file is emptied.
HandleUpdate(f, size) ==
  IF sdir[f] = Directory
    THEN thread' = "exited" /\ UNCHANGED <<file, file_size, sdir>>
    ELSE /\ thread' = "data"
         /\ file' = f /\ file_size' = size
         /\ sdir' = [sdir EXCEPT ![f] = 0]

RecvMessage ==
  LET message == Head(wire)
  IN  /\ thread = "text" /\ wire # <<>>
      /\ Take(1)
      /\ \/ /\ message.kind = "create"
            /\ \E f \in Received(message.name) : HandleCreate(f)
            /\ UNCHANGED <<file, file_size>>
         \/ /\ message.kind = "delete"
            /\ \E f \in Received(message.name) : HandleDelete(f)
            /\ UNCHANGED <<file, file_size>>
         \/ /\ message.kind = "update"
            /\ HandleUpdate(message.name, message.size)
         \/ /\ message.kind \in {"length", "data"}
            /\ thread' = "lost"
            /\ UNCHANGED <<file, file_size, sdir>>
      /\ ThreadLeaves

\* The loop that receives the data takes what there is.
MoreToCome_OneMore == file_size >= 0
MoreToCome == file_size > 0

RecvData ==
  /\ thread = "data" /\ MoreToCome
  /\ \E n \in 1 .. Len(wire) :
       /\ Take(n)
       /\ file_size' = file_size - n
       /\ sdir' = [sdir EXCEPT ![file] = @ + n]
       /\ thread' = IF \A k \in 1 .. n : wire[k] = Data THEN "data" ELSE "lost"
  /\ UNCHANGED file /\ ThreadLeaves

DataDone ==
  /\ thread = "data" /\ ~MoreToCome
  /\ thread' = "loop"
  /\ UNCHANGED <<file, file_size, sdir, wire>> /\ ThreadLeaves

Thread == RecvLength \/ RecvMessage \/ RecvData \/ DataDone

-----------------------------------------------------------------------------

InOrder == thread \notin {"lost", "exited"}

Next ==
  /\ InOrder
  /\ \/ \E f \in Names, size \in Sizes \cup {Absent} : Edit(f, size)
     \/ Client \/ Thread

\* The client's loop and the server's thread run; the user does what he likes.
Spec == Init /\ [][Next]_vars /\ WF_vars(InOrder /\ Client) /\ WF_vars(InOrder /\ Thread)

-----------------------------------------------------------------------------
(* Properties *)

Agree(f) == dir[f] = Absent <=> sdir[f] = Absent

\* The names that no other is received as.
OwnNames == {f \in Names : \A g \in Names : f \in Received(g) => g = f}

\* If the user always waits until an edit is through, the two directories hold
\* the same names in the end, those apart that are received as others or others
\* as them, however readdir() orders them; and the same contents, if no file is
\* ever created: unless the stream is lost (BibakBOXClient.c 210-273, 392-430,
\* BibakBOXServer.c 223-377).
Converges ==
  <>[](InOrder /\ calm =>
         /\ \A f \in OwnNames : Longer[f] = {} => Agree(f)
         /\ ~created => \A f \in Present \cap OwnNames : sdir[f] = dir[f])

\* The server deletes only what the user has deleted at some time, whatever the
\* snapshot has come to, or what such a name becomes there, without an end of its
\* own (BibakBOXClient.c 221-238, BibakBOXServer.c 352-366).
NoWrongDelete ==
  [][\A f \in Names :
       sdir[f] # Absent /\ sdir'[f] = Absent => \E g \in deleted : f \in Received(g)]_vars

\* The stream is lost only by an update: when another message followed before
\* the server was done with it, or when the file changed between its size and
\* its data (BibakBOXServer.c 267-278, BibakBOXClient.c 306-347).
LostByRace == thread = "lost" => raced

-----------------------------------------------------------------------------
(* What the comments say and the code does not do *)

\* BibakBOXServer.c, line 267: "Receive file data from the sender".  Here for a
\* user who waits: the snapshot may hold a file twice, which is then sent twice.
OnlyFileData == calm => thread # "lost"
=============================================================================
