-------------------------- MODULE BibakSyncProofs --------------------------
(***************************************************************************)
(* Final_HW6, one session, for whatever files a user has and however often *)
(* he edits them: what the server deletes, and what the stream is lost by. *)
(***************************************************************************)
EXTENDS BibakSync, Lemmas, SequenceTheorems

-----------------------------------------------------------------------------
(* The snapshot and the messages *)

Message ==
  {Length, Data} \cup {Create(f) : f \in Names} \cup {Delete(f) : f \in Names}
    \cup {Update(f, n) : f \in Names, n \in Sizes \cup {Absent}}

Element == [name : Names \cup {NoName}, newer : BOOLEAN]
Many == 0 .. Cardinality(Names)

Types ==
  /\ dir \in [Names -> Sizes \cup {Absent}]
  /\ client \in {"sleep", "create", "delete", "refresh", "update", "announce", "data"}
  /\ client \in {"create", "announce", "data"} => target \in Names
  /\ index \in Nat \ {0} /\ count \in Many /\ glob_count \in Many
  /\ fileInfos \in [Indices -> Element]
  /\ wire \in Seq(Message)
  /\ thread \in {"loop", "text", "data", "lost", "exited"}
  /\ thread = "data" => file \in Names /\ sdir[file] \in Nat /\ file_size \in Int
  /\ sdir \in [Names \cup {Junk} -> Int]
  /\ deleted \in SUBSET Names

\* The snapshot names a file once, and a file that is there or was deleted.
Snapshot ==
  /\ \A k \in 1 .. glob_count : fileInfos[k].name \in Present \cup deleted
  /\ \A j, k \in 1 .. glob_count : fileInfos[j].name = fileInfos[k].name => j = k

\* Only what the user deleted is on its way to be deleted at the server.
DeletesMeant == \A k \in 1 .. Len(wire) : wire[k].kind = "delete" => wire[k].name \in deleted

SyncInv == Types /\ Snapshot /\ DeletesMeant

-----------------------------------------------------------------------------
(* Lemmas *)

LEMMA Counts ==
  /\ Cardinality(Names) \in Nat /\ IsFiniteSet(Present)
  /\ Cardinality(Present) \in Many /\ Cardinality(Present) \in Nat
<1>1. IsFiniteSet(Names) /\ Present \in SUBSET Names
  BY SyncAssumption DEF Present
<1> QED
  BY <1>1, FS_CardinalityType, FS_Subset DEF Many

\* An order of the files that are there names each once.
LEMMA Listing ==
  ASSUME NEW s \in SetToSeqs(Present)
  PROVE  /\ Len(s) = Cardinality(Present) /\ Len(s) \in Many /\ Len(s) \in Nat
         /\ \A k \in 1 .. Len(s) : s[k] \in Present
         /\ \A j, k \in 1 .. Len(s) : s[j] = s[k] => j = k
<1> DEFINE n == Cardinality(Present)
<1>1. s \in [1 .. n -> Present] /\ \A j, k \in 1 .. n : j # k => s[j] # s[k]
  BY DEF SetToSeqs
<1>2. n \in Many /\ n \in Nat
  BY Counts
<1> HIDE DEF n
<1>3. s \in Seq(Present) /\ Len(s) = n
  BY <1>1, <1>2
<1> QED
  BY <1>1, <1>2, <1>3 DEF n

\* With fewer files than the snapshot names, one of those is missing.
LEMMA SomeMissing ==
  ASSUME Types, Snapshot, HasFewer
  PROVE  FirstMissing \in 1 .. glob_count /\ fileInfos[FirstMissing].name \in deleted
<1>1. glob_count \in Nat /\ IsFiniteSet(1 .. glob_count) /\ Cardinality(1 .. glob_count) = glob_count
  <2>1. glob_count \in Nat
    BY Counts DEF Types, Many
  <2> QED
    BY <2>1, FS_Interval
<1>2. Missing # {}
  <2>1. SUFFICES ASSUME \A k \in 1 .. glob_count : fileInfos[k].name \in Present PROVE FALSE
    BY DEF Missing
  <2> DEFINE f == [k \in 1 .. glob_count |-> fileInfos[k].name]
  <2>2. f \in [1 .. glob_count -> Present]
    BY <2>1
  <2>3. \E x, y \in 1 .. glob_count : x # y /\ f[x] = f[y]
    <3> HIDE DEF f
    <3> QED
      BY <1>1, <2>2, Counts, FS_PigeonHole DEF HasFewer
  <2> QED
    BY <2>3 DEF Snapshot
<1>3. Missing \in SUBSET Nat /\ \A k \in Missing : k \in 1 .. glob_count /\ fileInfos[k].name \notin Present
  BY <1>1 DEF Missing
<1>4. \E k \in Missing : \A j \in Missing : k <= j
  BY <1>2, <1>3, Least
<1>5. FirstMissing \in Missing
  BY <1>4 DEF FirstMissing
<1> QED
  BY <1>3, <1>5 DEF Snapshot

\* saveFileModificationTimes() makes a snapshot of what is there.
LEMMA RefreshKeeps ==
  ASSUME Types, Refresh, UNCHANGED <<dir, deleted>>
  PROVE  glob_count' \in Many /\ fileInfos' \in [Indices -> Element] /\ Snapshot'
<1>1. PICK s \in SetToSeqs(Present) :
        /\ glob_count' = Len(s)
        /\ fileInfos' = [k \in Indices |-> IF k <= Len(s) THEN Entry(s[k])
                                           ELSE IF k = 1 THEN Entry(NoName) ELSE fileInfos[k]]
  BY DEF Refresh
<1>2. /\ Len(s) \in Many /\ Len(s) \in Nat
      /\ \A k \in 1 .. Len(s) : s[k] \in Present
      /\ \A j, k \in 1 .. Len(s) : s[j] = s[k] => j = k
  BY Listing
<1>3. \A k \in Indices : fileInfos'[k] \in Element
  BY <1>1, <1>2, Counts DEF Types, Entry, Element, Indices, Present
<1>4. \A k \in 1 .. Len(s) : k \in Indices /\ fileInfos'[k].name = s[k]
  BY <1>1, <1>2, Counts DEF Indices, Many, Entry
<1>5. Present' = Present
  BY DEF Present
<1>6. fileInfos' = [k \in Indices |-> fileInfos'[k]]
  BY <1>1
<1>7. fileInfos' \in [Indices -> Element]
  BY <1>3, <1>6
<1>8. \A k \in 1 .. glob_count' : fileInfos'[k].name \in Present' \cup deleted'
  <2> SUFFICES ASSUME NEW k \in 1 .. glob_count' PROVE fileInfos'[k].name \in Present'
    OBVIOUS
  <2>1. k \in 1 .. Len(s)
    BY <1>1
  <2> QED
    BY <1>2, <1>4, <1>5, <2>1
<1>9. \A j, k \in 1 .. glob_count' : fileInfos'[j].name = fileInfos'[k].name => j = k
  <2> SUFFICES ASSUME NEW j \in 1 .. glob_count', NEW k \in 1 .. glob_count',
                      fileInfos'[j].name = fileInfos'[k].name
               PROVE  j = k
    OBVIOUS
  <2>1. j \in 1 .. Len(s) /\ k \in 1 .. Len(s)
    BY <1>1
  <2>2. s[j] = s[k]
    BY <1>4, <2>1
  <2> QED
    BY <1>2, <2>1, <2>2
<1>10. Snapshot'
  BY <1>8, <1>9 DEF Snapshot
<1> QED
  BY <1>1, <1>2, <1>7, <1>10

LEMMA Appended ==
  ASSUME Types, DeletesMeant, NEW units \in Seq(Message), wire' = wire \o units, deleted' = deleted,
         \A k \in 1 .. Len(units) : units[k].kind = "delete" => units[k].name \in deleted
  PROVE  wire' \in Seq(Message) /\ DeletesMeant'
<1>1. wire \in Seq(Message)
  BY DEF Types
<1>2. /\ wire' \in Seq(Message) /\ Len(wire') = Len(wire) + Len(units)
      /\ \A k \in 1 .. Len(wire) + Len(units) :
           wire'[k] = IF k <= Len(wire) THEN wire[k] ELSE units[k - Len(wire)]
  BY <1>1, ConcatProperties
<1>3. ASSUME NEW k \in 1 .. Len(wire'), wire'[k].kind = "delete" PROVE wire'[k].name \in deleted
  <2>1. CASE k <= Len(wire)
    BY <1>1, <1>2, <1>3, <2>1 DEF DeletesMeant
  <2>2. CASE ~(k <= Len(wire))
    <3>1. k - Len(wire) \in 1 .. Len(units)
      BY <1>1, <1>2, <2>2
    <3> QED
      BY <1>2, <1>3, <2>2, <3>1
  <2> QED
    BY <2>1, <2>2
<1> QED
  BY <1>2, <1>3 DEF DeletesMeant

LEMMA Taken ==
  ASSUME Types, DeletesMeant, NEW n \in 1 .. Len(wire), Take(n), deleted' = deleted
  PROVE  /\ wire' \in Seq(Message) /\ Len(wire') = Len(wire) - n
         /\ \A k \in 1 .. Len(wire') : k + n \in 1 .. Len(wire) /\ wire'[k] = wire[k + n]
         /\ DeletesMeant'
<1>1. wire \in Seq(Message) /\ wire' = SubSeq(wire, n + 1, Len(wire))
  BY DEF Types, Take
<1>2. /\ wire' \in Seq(Message) /\ Len(wire') = Len(wire) - n
      /\ \A k \in 1 .. Len(wire') : k + n \in 1 .. Len(wire) /\ wire'[k] = wire[k + n]
  BY <1>1
<1> QED
  BY <1>2 DEF DeletesMeant

-----------------------------------------------------------------------------
(* The steps of the client and of its user *)

\* What the client's and the user's variables have to do with the snapshot.
ClientTypes ==
  /\ client \in {"sleep", "create", "delete", "refresh", "update", "announce", "data"}
  /\ client \in {"create", "announce", "data"} => target \in Names
  /\ index \in Nat \ {0} /\ count \in Many /\ glob_count \in Many
  /\ fileInfos \in [Indices -> Element]

\* A step of the client: what it sends, and the snapshot it leaves.
LEMMA ClientStep ==
  ASSUME SyncInv, UNCHANGED <<dir, count, threadVars, deleted>>, ClientTypes', Snapshot',
         wire' \in Seq(Message) /\ DeletesMeant'
  PROVE  SyncInv'
BY DEF SyncInv, Types, ClientTypes, threadVars

LEMMA SameSnapshot ==
  ASSUME Snapshot, UNCHANGED <<fileInfos, glob_count, dir, deleted>>
  PROVE  Snapshot'
BY DEF Snapshot, Present

LEMMA NoneSent ==
  ASSUME SyncInv, UNCHANGED <<wire, deleted>>
  PROVE  wire' \in Seq(Message) /\ DeletesMeant'
BY DEF SyncInv, Types, DeletesMeant

LEMMA SyncInvInit == Init => SyncInv
<1> SUFFICES ASSUME Init PROVE SyncInv
  OBVIOUS
<1>1. PICK s \in SetToSeqs(Present) : fileInfos = [k \in Indices |-> IF k <= count THEN Entry(s[k]) ELSE Entry(NoName)]
  BY DEF Init
<1>2. /\ Len(s) = count /\ count \in Many /\ glob_count = count /\ count \in Nat
      /\ \A k \in 1 .. count : s[k] \in Present
      /\ \A j, k \in 1 .. count : s[j] = s[k] => j = k
  BY Listing DEF Init
<1>3. \A k \in Indices : fileInfos[k] \in Element
  BY <1>1, <1>2, Counts DEF Entry, Element, Indices, Present
<1>4. \A k \in 1 .. count : k \in Indices /\ fileInfos[k].name = s[k]
  BY <1>1, <1>2, Counts DEF Indices, Many, Entry
<1>5. Snapshot
  BY <1>2, <1>4 DEF Snapshot
<1>6. dir \in [Names -> Sizes \cup {Absent}] /\ sdir \in [Names \cup {Junk} -> Int]
  BY SyncAssumption DEF Init, Sizes, Absent
<1>7. fileInfos \in [Indices -> Element]
  BY <1>1, <1>3
<1>8. Types
  BY <1>2, <1>6, <1>7 DEF Init, Types
<1>9. DeletesMeant
  BY DEF Init, DeletesMeant
<1> QED
  BY <1>5, <1>8, <1>9 DEF SyncInv

LEMMA TouchKeeps ==
  ASSUME fileInfos \in [Indices -> Element], NEW f, Touch(f)
  PROVE  /\ fileInfos' \in [Indices -> Element]
         /\ \A k \in Indices : fileInfos'[k].name = fileInfos[k].name
<1>1. PICK seen \in SUBSET Indices :
        fileInfos' = [k \in Indices |-> [fileInfos[k] EXCEPT !.newer = @ \/ k \in seen]]
  BY DEF Touch
<1>2. ASSUME NEW k \in Indices
      PROVE  fileInfos'[k] \in Element /\ fileInfos'[k].name = fileInfos[k].name
  <2>1. fileInfos[k] \in Element
    OBVIOUS
  <2>2. PICK b \in BOOLEAN : b = (fileInfos[k].newer \/ k \in seen)
    OBVIOUS
  <2>3. fileInfos'[k] = [fileInfos[k] EXCEPT !.newer = b]
    BY <1>1, <2>2
  <2> QED
    BY <2>1, <2>3 DEF Element
<1> QED
  BY <1>1, <1>2

LEMMA EditKeeps ==
  ASSUME SyncInv, NEW f \in Names, NEW size \in Sizes \cup {Absent}, Edit(f, size)
  PROVE  SyncInv'
<1>1. /\ dir' = [dir EXCEPT ![f] = size] /\ deleted' = IF size = Absent THEN deleted \cup {f} ELSE deleted
      /\ UNCHANGED <<client, target, index, glob_count, count, wire, threadVars>>
  BY DEF Edit
<1>2. /\ fileInfos' \in [Indices -> Element]
      /\ \A k \in Indices : fileInfos'[k].name = fileInfos[k].name
  BY TouchKeeps DEF Edit, SyncInv, Types
<1>3. \A k \in 1 .. glob_count : k \in Indices
  BY Counts DEF SyncInv, Types, Many, Indices
<1>4. Present \subseteq Present' \cup deleted' /\ deleted \subseteq deleted'
  BY <1>1 DEF Present, SyncInv, Types
<1>5. Snapshot'
  <2>1. \A k \in 1 .. glob_count' : fileInfos'[k].name \in Present' \cup deleted'
    BY <1>1, <1>2, <1>3, <1>4 DEF SyncInv, Snapshot
  <2>2. \A j, k \in 1 .. glob_count' : fileInfos'[j].name = fileInfos'[k].name => j = k
    BY <1>1, <1>2, <1>3 DEF SyncInv, Snapshot
  <2> QED
    BY <2>1, <2>2 DEF Snapshot
<1>6. DeletesMeant'
  BY <1>1, <1>4 DEF SyncInv, DeletesMeant
<1>7. dir' \in [Names -> Sizes \cup {Absent}] /\ deleted' \in SUBSET Names
  BY <1>1 DEF SyncInv, Types
<1>8. Types'
  BY <1>1, <1>2, <1>7 DEF SyncInv, Types, threadVars
<1> QED
  BY <1>5, <1>6, <1>8 DEF SyncInv

LEMMA CreateKeeps ==
  ASSUME SyncInv, CheckCreate \/ SendCreate
  PROVE  SyncInv'
<1>1. CASE CheckCreate
  <2>1. UNCHANGED <<dir, index, fileInfos, glob_count, count, threadVars, deleted>>
    BY <1>1 DEF CheckCreate
  <2>2. ClientTypes' /\ Snapshot'
    <3>1. Present \subseteq Names
      BY DEF Present
    <3> QED
      BY <1>1, <2>1, <3>1, SameSnapshot DEF CheckCreate, ClientTypes, SyncInv, Types
  <2>3. wire' \in Seq(Message) /\ DeletesMeant'
    <3> DEFINE units == <<Length>>
    <3>1. units \in Seq(Message) /\ Len(units) = 1 /\ units[1].kind # "delete"
      BY DEF Message, Length
    <3>2. CASE wire' = wire \o units
      <4> HIDE DEF units
      <4>1. \A k \in 1 .. 1 : k = 1
        OBVIOUS
      <4> QED
        BY <2>1, <3>1, <3>2, <4>1, Appended DEF SyncInv
    <3>3. CASE UNCHANGED wire
      BY <2>1, <3>3, NoneSent
    <3> QED
      BY <1>1, <3>2, <3>3 DEF CheckCreate, Send
  <2> QED
    BY <2>1, <2>2, <2>3, ClientStep
<1>2. CASE SendCreate
  <2>1. UNCHANGED <<dir, target, index, count, threadVars, deleted>> /\ client = "create" /\ client' = "delete"
    BY <1>2 DEF SendCreate, userVars
  <2>2. ClientTypes' /\ Snapshot'
    <3>1. glob_count' \in Many /\ fileInfos' \in [Indices -> Element] /\ Snapshot'
      BY <1>2, <2>1, RefreshKeeps DEF SendCreate, SyncInv
    <3> QED
      BY <2>1, <3>1 DEF ClientTypes, SyncInv, Types
  <2>3. wire' \in Seq(Message) /\ DeletesMeant'
    <3> DEFINE units == <<Create(target)>>
    <3>1. units \in Seq(Message)
      BY <2>1 DEF Message, SyncInv, Types
    <3>2. Len(units) = 1 /\ units[1].kind # "delete"
      BY DEF Create
    <3>3. wire' = wire \o units
      BY <1>2 DEF SendCreate, Send
    <3>4. \A k \in 1 .. 1 : k = 1
      OBVIOUS
    <3> HIDE DEF units
    <3> QED
      BY <2>1, <3>1, <3>2, <3>3, <3>4, Appended DEF SyncInv
  <2> QED
    BY <2>1, <2>2, <2>3, ClientStep
<1> QED
  BY <1>1, <1>2

LEMMA DeleteKeeps ==
  ASSUME SyncInv, CheckDelete \/ AfterDelete
  PROVE  SyncInv'
<1>1. CASE CheckDelete
  <2>1. UNCHANGED <<dir, target, fileInfos, glob_count, count, threadVars, deleted>>
    BY <1>1 DEF CheckDelete, userVars
  <2>2. ClientTypes' /\ Snapshot'
    BY <1>1, <2>1, SameSnapshot DEF CheckDelete, ClientTypes, SyncInv, Types
  <2>3. wire' \in Seq(Message) /\ DeletesMeant'
    <3>1. CASE HasFewer /\ wire' = wire \o <<Length, Delete(fileInfos[FirstMissing].name)>>
      <4> DEFINE g == fileInfos[FirstMissing].name
      <4>1. g \in deleted /\ g \in Names
        BY <3>1, SomeMissing DEF SyncInv, Types
      <4> HIDE DEF g
      <4>2. /\ <<Length, Delete(g)>> \in Seq(Message) /\ Len(<<Length, Delete(g)>>) = 2
            /\ <<Length, Delete(g)>>[1].kind = "length" /\ <<Length, Delete(g)>>[2].name = g
        BY <4>1 DEF Message, Length, Delete
      <4>3. \A k \in 1 .. 2 : k = 1 \/ k = 2
        OBVIOUS
      <4>4. wire' = wire \o <<Length, Delete(g)>>
        BY <3>1 DEF g
      <4> QED
        BY <2>1, <4>1, <4>2, <4>3, <4>4, Appended DEF SyncInv
    <3>2. CASE UNCHANGED wire
      BY <2>1, <3>2, NoneSent
    <3> QED
      BY <1>1, <3>1, <3>2 DEF CheckDelete, Send
  <2> QED
    BY <2>1, <2>2, <2>3, ClientStep
<1>2. CASE AfterDelete
  <2>1. UNCHANGED <<dir, target, count, wire, threadVars, deleted>> /\ client' = "update" /\ index' = 1
    BY <1>2 DEF AfterDelete, userVars
  <2>2. glob_count' \in Many /\ fileInfos' \in [Indices -> Element] /\ Snapshot'
    BY <1>2, <2>1, RefreshKeeps DEF AfterDelete, SyncInv
  <2>3. ClientTypes'
    BY <2>1, <2>2 DEF ClientTypes, SyncInv, Types
  <2> QED
    BY <2>1, <2>2, <2>3, NoneSent, ClientStep
<1> QED
  BY <1>1, <1>2

LEMMA RemovalKeeps ==
  ASSUME SyncInv, NEW f, RemoveFromPath(f), UNCHANGED <<dir, deleted>>
  PROVE  glob_count' \in Many /\ fileInfos' \in [Indices -> Element] /\ Snapshot'
<1> DEFINE at == {k \in 1 .. glob_count : fileInfos[k].name = f}
           first == CHOOSE k \in at : \A j \in at : k <= j
<1>0. /\ glob_count \in Many /\ glob_count \in Nat /\ fileInfos \in [Indices -> Element]
      /\ 1 .. glob_count \subseteq Indices
  BY Counts DEF SyncInv, Types, Many, Indices
<1>1. CASE at = {}
  <2>1. UNCHANGED <<fileInfos, glob_count>>
    BY <1>1 DEF RemoveFromPath
  <2> QED
    BY <1>0, <2>1, SameSnapshot DEF SyncInv
<1>2. CASE at # {}
  <2>1. first \in 1 .. glob_count
    <3>1. at \in SUBSET Nat
      BY <1>0
    <3>2. \E k \in at : \A j \in at : k <= j
      BY <1>2, <3>1, Least
    <3> QED
      BY <3>2
  <2>2. /\ fileInfos' = [k \in Indices |-> IF k \in first .. glob_count - 1 THEN fileInfos[k + 1] ELSE fileInfos[k]]
        /\ glob_count' = glob_count - 1
    BY <1>2 DEF RemoveFromPath
  <2> HIDE DEF at, first
  <2>3. glob_count' \in Many /\ glob_count' \in Nat
    BY <1>0, <2>1, <2>2, Counts DEF Many
  <2>4. \A k \in Indices : fileInfos'[k] \in Element
    <3>1. \A k \in first .. glob_count - 1 : k + 1 \in Indices
      BY <1>0, <2>1
    <3> QED
      BY <1>0, <2>2, <3>1
  <2>5. Present' = Present
    BY DEF Present
  <2>6. \A k \in 1 .. glob_count' :
          /\ k \in Indices
          /\ k < first => k \in 1 .. glob_count /\ fileInfos'[k].name = fileInfos[k].name
          /\ ~(k < first) => k + 1 \in 1 .. glob_count /\ fileInfos'[k].name = fileInfos[k + 1].name
    BY <1>0, <2>1, <2>2
  <2>7. \A k \in 1 .. glob_count' : fileInfos'[k].name \in Present' \cup deleted'
    BY <2>5, <2>6 DEF SyncInv, Snapshot
  <2>8. ASSUME NEW j \in 1 .. glob_count', NEW k \in 1 .. glob_count', fileInfos'[j].name = fileInfos'[k].name
        PROVE  j = k
    <3>1. CASE j < first /\ k < first
      BY <2>6, <2>8, <3>1 DEF SyncInv, Snapshot
    <3>2. CASE ~(j < first) /\ ~(k < first)
      <4>1. j + 1 = k + 1
        BY <2>6, <2>8, <3>2 DEF SyncInv, Snapshot
      <4> QED
        BY <4>1, <2>3
    <3>3. CASE j < first /\ ~(k < first)
      <4>1. j = k + 1
        BY <2>6, <2>8, <3>3 DEF SyncInv, Snapshot
      <4> QED
        BY <4>1, <3>3, <2>1, <2>3
    <3>4. CASE ~(j < first) /\ k < first
      <4>1. j + 1 = k
        BY <2>6, <2>8, <3>4 DEF SyncInv, Snapshot
      <4> QED
        BY <4>1, <3>4, <2>1, <2>3
    <3> QED
      BY <3>1, <3>2, <3>3, <3>4
  <2>9. Snapshot'
    BY <2>7, <2>8 DEF Snapshot
  <2>10. fileInfos' \in [Indices -> Element]
    BY <2>2, <2>4
  <2> QED
    BY <2>3, <2>9, <2>10
<1> QED
  BY <1>1, <1>2

LEMMA UpdateKeeps ==
  ASSUME SyncInv, CheckEntry \/ NoUpdate \/ Announce \/ SendData
  PROVE  SyncInv'
<1>1. CASE NoUpdate
  <2>1. UNCHANGED <<dir, target, index, fileInfos, glob_count, count, wire, threadVars, deleted>> /\ client' = "sleep"
    BY <1>1 DEF NoUpdate, userVars
  <2>2. ClientTypes' /\ Snapshot'
    BY <2>1, SameSnapshot DEF ClientTypes, SyncInv, Types
  <2> QED
    BY <2>1, <2>2, NoneSent, ClientStep
<1>2. CASE SendData
  <2>1. /\ UNCHANGED <<dir, target, index, fileInfos, glob_count, count, threadVars, deleted>>
        /\ client = "data" /\ client' = "sleep" /\ wire' = wire \o [k \in 1 .. Units(dir[target]) |-> Data]
    BY <1>2 DEF SendData, userVars
  <2>2. ClientTypes' /\ Snapshot'
    BY <2>1, SameSnapshot DEF ClientTypes, SyncInv, Types
  <2>3. wire' \in Seq(Message) /\ DeletesMeant'
    <3> DEFINE n == Units(dir[target])
               units == [k \in 1 .. n |-> Data]
    <3>1. n \in Nat
      <4>1. dir[target] \in Sizes \cup {Absent}
        BY <2>1 DEF SyncInv, Types
      <4> QED
        BY <4>1, SyncAssumption DEF Sizes, Absent, Units
    <3>2. wire' = wire \o units
      BY <2>1, <3>1
    <3> HIDE DEF n
    <3>3. units \in Seq(Message) /\ Len(units) = n /\ \A k \in 1 .. n : units[k].kind = "data"
      BY <3>1 DEF Message, Data
    <3> HIDE DEF units
    <3> QED
      BY <2>1, <3>1, <3>2, <3>3, Appended DEF SyncInv
  <2> QED
    BY <2>1, <2>2, <2>3, ClientStep
<1>3. CASE CheckEntry
  <2> DEFINE f == fileInfos[index].name
  <2>1. UNCHANGED <<dir, count, threadVars, deleted>> /\ client = "update" /\ index \in Indices
    BY <1>3, Counts DEF CheckEntry, userVars, SyncInv, Types, Many, Indices
  <2>2. CASE RemoveFromPath(f) /\ index' = index + 1 /\ UNCHANGED <<client, target, wire>>
    <3>1. glob_count' \in Many /\ fileInfos' \in [Indices -> Element] /\ Snapshot'
      BY <2>1, <2>2, RemovalKeeps
    <3>2. ClientTypes'
      BY <2>1, <2>2, <3>1 DEF ClientTypes, SyncInv, Types
    <3> QED
      BY <2>1, <2>2, <3>1, <3>2, NoneSent, ClientStep
  <2>3. CASE /\ f \in Present /\ fileInfos' = [fileInfos EXCEPT ![index].newer = FALSE] /\ target' = f
             /\ client' = "announce" /\ UNCHANGED <<index, glob_count, wire>>
    <3>1. f \in Names
      BY <2>3 DEF Present
    <3>2. /\ fileInfos' \in [Indices -> Element]
          /\ \A k \in Indices : fileInfos'[k].name = fileInfos[k].name
      BY <2>1, <2>3 DEF SyncInv, Types, Element
    <3>3. 1 .. glob_count \subseteq Indices
      BY Counts DEF SyncInv, Types, Many, Indices
    <3>4. Snapshot'
      <4>1. Present' = Present
        BY <2>1 DEF Present
      <4>2. \A k \in 1 .. glob_count' : fileInfos'[k].name = fileInfos[k].name
        BY <2>3, <3>2, <3>3
      <4> HIDE DEF f
      <4> QED
        BY <2>1, <2>3, <4>1, <4>2 DEF SyncInv, Snapshot
    <3> HIDE DEF f
    <3>5. ClientTypes'
      BY <2>1, <2>3, <3>1, <3>2 DEF ClientTypes, SyncInv, Types
    <3> QED
      BY <2>1, <2>3, <3>4, <3>5, NoneSent, ClientStep
  <2>4. CASE index' = index + 1 /\ UNCHANGED <<client, target, fileInfos, glob_count, wire>>
    <3>1. ClientTypes' /\ Snapshot'
      BY <2>1, <2>4, SameSnapshot DEF ClientTypes, SyncInv, Types
    <3> QED
      BY <2>1, <2>4, <3>1, NoneSent, ClientStep
  <2> QED
    BY <1>3, <2>2, <2>3, <2>4 DEF CheckEntry
<1>4. CASE Announce
  <2>1. /\ UNCHANGED <<dir, target, index, fileInfos, glob_count, count, threadVars, deleted>>
        /\ client = "announce" /\ client' = "data" /\ wire' = wire \o <<Length, Update(target, dir[target])>>
    BY <1>4 DEF Announce, Send, userVars
  <2>2. ClientTypes' /\ Snapshot'
    BY <2>1, SameSnapshot DEF ClientTypes, SyncInv, Types
  <2>3. wire' \in Seq(Message) /\ DeletesMeant'
    <3> DEFINE units == <<Length, Update(target, dir[target])>>
    <3>1. target \in Names /\ dir[target] \in Sizes \cup {Absent}
      BY <2>1 DEF SyncInv, Types
    <3>2. units \in Seq(Message) /\ Len(units) = 2 /\ units[1].kind = "length" /\ units[2].kind = "update"
      BY <3>1 DEF Message, Length, Update
    <3>3. \A k \in 1 .. 2 : k = 1 \/ k = 2
      OBVIOUS
    <3> HIDE DEF units
    <3>4. wire' = wire \o units
      BY <2>1 DEF units
    <3> QED
      BY <2>1, <3>2, <3>3, <3>4, Appended DEF SyncInv
  <2> QED
    BY <2>1, <2>2, <2>3, ClientStep
<1> QED
  BY <1>1, <1>2, <1>3, <1>4

-----------------------------------------------------------------------------
(* The steps of the server's thread *)

\* A step of the server's thread that takes n units: what it leaves of its own.
LEMMA ThreadStep ==
  ASSUME SyncInv, NEW n \in 1 .. Len(wire), Take(n), ThreadLeaves,
         thread' \in {"loop", "text", "data", "lost", "exited"},
         thread' = "data" => file' \in Names /\ sdir'[file'] \in Nat /\ file_size' \in Int,
         sdir' \in [Names \cup {Junk} -> Int]
  PROVE  SyncInv'
<1>1. UNCHANGED <<dir, client, target, index, fileInfos, glob_count, count, deleted>>
  BY DEF ThreadLeaves, clientVars, userVars
<1>2. wire' \in Seq(Message) /\ DeletesMeant'
  BY <1>1, Taken DEF SyncInv
<1>3. Snapshot'
  BY <1>1, SameSnapshot DEF SyncInv
<1>4. Types'
  BY <1>1, <1>2 DEF SyncInv, Types
<1> QED
  BY <1>2, <1>3, <1>4 DEF SyncInv

LEMMA HeadIsMessage ==
  ASSUME SyncInv, wire # <<>>
  PROVE  1 \in 1 .. Len(wire) /\ Head(wire) = wire[1] /\ Head(wire) \in Message
BY DEF SyncInv, Types

\* What the names of a message are.
LEMMA MessageNames ==
  ASSUME NEW message \in Message
  PROVE  /\ message.kind \in {"length", "data", "create", "delete", "update"}
         /\ message.kind \in {"create", "delete", "update"} => message.name \in Names
         /\ message.kind = "update" => message.size \in Sizes \cup {Absent}
BY DEF Message, Length, Data, Create, Delete, Update

LEMMA ReceivedNames ==
  ASSUME NEW f \in Names, NEW g \in Received(f)
  PROVE  g \in Names \cup {Junk}
BY SyncAssumption DEF Received

\* The message that is handled, and what it does to the server's directory.
LEMMA RecvMessageKeeps ==
  ASSUME SyncInv, RecvMessage
  PROVE  /\ SyncInv'
         /\ \A f \in Names : sdir[f] # Absent /\ sdir'[f] = Absent => \E g \in deleted : f \in Received(g)
<1>1. /\ wire # <<>> /\ Take(1) /\ ThreadLeaves /\ thread = "text"
      /\ 1 \in 1 .. Len(wire) /\ Head(wire) = wire[1] /\ Head(wire) \in Message
  BY HeadIsMessage DEF RecvMessage
<1>2. PICK message \in Message : message = Head(wire)
  BY <1>1
<1>3. sdir \in [Names \cup {Junk} -> Int]
  BY DEF SyncInv, Types
<1>4. CASE message.kind = "create" /\ \E f \in Received(message.name) : HandleCreate(f)
  <2>1. PICK f \in Received(message.name) : HandleCreate(f)
    BY <1>4
  <2>2. message.name \in Names
    BY <1>4, MessageNames
  <2>3. f \in Names \cup {Junk}
    BY <2>2, ReceivedNames
  <2>4. /\ thread' \in {"loop", "exited"}
        /\ \/ sdir' = sdir
           \/ sdir' = [sdir EXCEPT ![f] = 0]
           \/ sdir' = [sdir EXCEPT ![f] = Directory]
    BY <2>1 DEF HandleCreate
  <2>5. sdir' \in [Names \cup {Junk} -> Int] /\ \A g \in Names : sdir[g] # Absent => sdir'[g] # Absent
    BY <1>3, <2>3, <2>4 DEF Directory, Absent
  <2> QED
    BY <1>1, <2>4, <2>5, ThreadStep
<1>5. CASE message.kind = "delete" /\ \E f \in Received(message.name) : HandleDelete(f)
  <2>1. PICK f \in Received(message.name) : HandleDelete(f)
    BY <1>5
  <2>2. message.name \in Names /\ message.name \in deleted
    BY <1>1, <1>2, <1>5, MessageNames DEF SyncInv, DeletesMeant
  <2>3. f \in Names \cup {Junk}
    BY <2>2, ReceivedNames
  <2>4. thread' = "loop" /\ sdir' = [sdir EXCEPT ![f] = Absent]
    BY <2>1 DEF HandleDelete
  <2>5. sdir' \in [Names \cup {Junk} -> Int]
    <3>1. f \in Names \cup {Junk} /\ Absent \in Int
      BY <2>2, <2>3 DEF Absent
    <3> QED
      BY <1>3, <2>4, <3>1
  <2>6. \A g \in Names : sdir[g] # Absent /\ sdir'[g] = Absent => g = f
    BY <1>3, <2>3, <2>4
  <2> QED
    BY <1>1, <2>1, <2>2, <2>4, <2>5, <2>6, ThreadStep
<1>6. CASE message.kind = "update" /\ HandleUpdate(message.name, message.size)
  <2>1. message.name \in Names /\ message.size \in Int
    BY <1>6, MessageNames, SyncAssumption DEF Sizes, Absent
  <2>2. CASE thread' = "exited" /\ UNCHANGED <<file, file_size, sdir>>
    BY <1>1, <1>3, <2>2, ThreadStep
  <2>3. CASE /\ thread' = "data" /\ file' = message.name /\ file_size' = message.size
             /\ sdir' = [sdir EXCEPT ![message.name] = 0]
    <3>1. sdir' \in [Names \cup {Junk} -> Int] /\ sdir'[file'] \in Nat
      BY <1>3, <2>1, <2>3
    <3>2. \A g \in Names : sdir[g] # Absent => sdir'[g] # Absent
      BY <1>3, <2>1, <2>3 DEF Absent
    <3> QED
      BY <1>1, <2>1, <2>3, <3>1, <3>2, ThreadStep
  <2> QED
    BY <1>6, <2>2, <2>3 DEF HandleUpdate
<1>7. CASE thread' = "lost" /\ UNCHANGED <<file, file_size, sdir>>
  BY <1>1, <1>3, <1>7, ThreadStep
<1> QED
  BY <1>2, <1>4, <1>5, <1>6, <1>7 DEF RecvMessage

LEMMA ThreadKeeps ==
  ASSUME SyncInv, Thread
  PROVE  /\ SyncInv'
         /\ \A f \in Names : sdir[f] # Absent /\ sdir'[f] = Absent => \E g \in deleted : f \in Received(g)
<1>1. sdir \in [Names \cup {Junk} -> Int]
  BY DEF SyncInv, Types
<1>2. CASE RecvLength
  <2>1. Take(1) /\ ThreadLeaves /\ thread' \in {"text", "lost"} /\ sdir' = sdir /\ 1 \in 1 .. Len(wire)
    BY <1>2, HeadIsMessage DEF RecvLength
  <2> QED
    BY <1>1, <2>1, ThreadStep
<1>3. CASE RecvMessage
  BY <1>3, RecvMessageKeeps
<1>4. CASE RecvData
  <2>1. PICK n \in 1 .. Len(wire) :
          /\ Take(n) /\ file_size' = file_size - n /\ sdir' = [sdir EXCEPT ![file] = @ + n]
          /\ thread' \in {"data", "lost"}
    BY <1>4 DEF RecvData
  <2>2. /\ ThreadLeaves /\ thread = "data" /\ file' = file /\ Len(wire) \in Nat
        /\ file \in Names /\ sdir[file] \in Nat /\ file_size \in Int
    BY <1>4 DEF RecvData, SyncInv, Types
  <2>3. sdir' \in [Names \cup {Junk} -> Int] /\ sdir'[file'] \in Nat /\ file_size' \in Int
    BY <1>1, <2>1, <2>2
  <2>4. \A f \in Names : sdir[f] # Absent => sdir'[f] # Absent
    BY <1>1, <2>1, <2>2 DEF Absent
  <2>5. SyncInv'
    BY <2>1, <2>2, <2>3, ThreadStep
  <2> QED
    BY <2>4, <2>5
<1>5. CASE DataDone
  <2>1. /\ UNCHANGED <<dir, client, target, index, fileInfos, glob_count, count, deleted, file, file_size, sdir, wire>>
        /\ thread' = "loop"
    BY <1>5 DEF DataDone, ThreadLeaves, clientVars, userVars
  <2>2. Types' /\ Snapshot' /\ DeletesMeant'
    BY <2>1, SameSnapshot, NoneSent DEF SyncInv, Types
  <2> QED
    BY <2>1, <2>2 DEF SyncInv
<1> QED
  BY <1>2, <1>3, <1>4, <1>5 DEF Thread

LEMMA SyncInvNext ==
  SyncInv /\ [Next]_vars
    => /\ SyncInv'
       /\ \A f \in Names : sdir[f] # Absent /\ sdir'[f] = Absent => \E g \in deleted : f \in Received(g)
<1> SUFFICES ASSUME SyncInv, [Next]_vars
             PROVE  /\ SyncInv'
                    /\ \A f \in Names : sdir[f] # Absent /\ sdir'[f] = Absent => \E g \in deleted : f \in Received(g)
  OBVIOUS
<1>1. ASSUME NEW f \in Names, NEW size \in Sizes \cup {Absent}, Edit(f, size) PROVE SyncInv' /\ sdir' = sdir
  BY <1>1, EditKeeps DEF Edit, threadVars
<1>2. CASE Client
  <2>1. sdir' = sdir
    BY <1>2 DEF Client, CheckCreate, SendCreate, CheckDelete, AfterDelete, CheckEntry, NoUpdate, Announce, SendData, threadVars
  <2> QED
    BY <1>2, <2>1, CreateKeeps, DeleteKeeps, UpdateKeeps DEF Client
<1>3. CASE Thread
  BY <1>3, ThreadKeeps
<1>4. CASE UNCHANGED vars
  <2>1. /\ UNCHANGED <<dir, client, target, index, fileInfos, glob_count, count, deleted, file, file_size, sdir, wire>>
        /\ thread' = thread
    BY <1>4 DEF vars, clientVars, threadVars, userVars
  <2>2. Types' /\ Snapshot' /\ DeletesMeant'
    BY <2>1, SameSnapshot, NoneSent DEF SyncInv, Types
  <2> QED
    BY <2>1, <2>2 DEF SyncInv
<1> QED
  BY <1>1, <1>2, <1>3, <1>4 DEF Next

\* Whatever files a user has, whatever their names become at the server and however
\* often he edits them, the server deletes only what he has deleted at some time, or
\* what the name of that has become (BibakBOXClient.c 221-238, BibakBOXServer.c
\* 352-366).
THEOREM DeletesWhatWasDeleted == Spec => NoWrongDelete
<1>1. SyncInv /\ [Next]_vars => [\A f \in Names : sdir[f] # Absent /\ sdir'[f] = Absent => \E g \in deleted : f \in Received(g)]_vars
  BY SyncInvNext
<1> QED
  BY <1>1, SyncInvInit, SyncInvNext, PTL DEF Spec, NoWrongDelete

-----------------------------------------------------------------------------
(* The stream, as long as nothing has raced *)

\* The first m units of u are lengths and the messages they are of, in turn, the
\* first a message if text; only the last of them may be an update.
Alternates(u, m, text) ==
  /\ \A k \in 1 .. m : u[k].kind # "data"
  /\ \A k \in 1 .. m - 1 : u[k].kind # "update" /\ (u[k + 1].kind = "length" <=> u[k].kind # "length")
  /\ m >= 1 => (u[1].kind = "length" <=> ~text)

AtText == thread = "text"

\* The server wants data: all of it is there, or none.
Filling ==
  /\ thread = "data" /\ file_size > 0 /\ client # "create"
  /\ \A k \in 1 .. Len(wire) : wire[k].kind = "data"
  /\ Len(wire) = 0 \/ Len(wire) = file_size
  /\ client = "data" => wire = <<>>

\* No update is under way: the last unit is a length when its message is yet to
\* be sent.
Open == IF wire = <<>> THEN AtText ELSE wire[Len(wire)].kind = "length"

Quiet ==
  /\ thread = "data" => file_size <= 0
  /\ Alternates(wire, Len(wire), AtText)
  /\ \A k \in 1 .. Len(wire) : wire[k].kind # "update"
  /\ client = "create" <=> Open
  /\ client = "data" => wire = <<>>

\* An update is the last message, with all of its data behind it or none.
Followed(m) ==
  /\ thread = "data" => file_size <= 0
  /\ Alternates(wire, m, AtText) /\ wire[m].kind = "update"
  /\ \A k \in m + 1 .. Len(wire) : wire[k].kind = "data"
  /\ Len(wire) - m = 0 \/ Len(wire) - m = Units(wire[m].size)
  /\ client # "create" /\ (client = "data" => Len(wire) = m)

Shape == Filling \/ Quiet \/ \E m \in 1 .. Len(wire) : Followed(m)

RaceInv ==
  /\ raced \in BOOLEAN
  /\ thread = "lost" => raced
  /\ ~raced /\ InOrder => Shape

LEMMA MessageAppended ==
  ASSUME NEW u \in Seq(Message), NEW text \in BOOLEAN, NEW x \in Message,
         Alternates(u, Len(u), text), \A k \in 1 .. Len(u) : u[k].kind # "update", x.kind # "data",
         x.kind = "length" <=> IF u = <<>> THEN ~text ELSE u[Len(u)].kind # "length"
  PROVE  /\ Append(u, x) \in Seq(Message) /\ Len(Append(u, x)) = Len(u) + 1
         /\ Append(u, x)[Len(u) + 1] = x
         /\ \A k \in 1 .. Len(u) : Append(u, x)[k] = u[k]
         /\ Alternates(Append(u, x), Len(u) + 1, text)
<1> DEFINE v == Append(u, x)
           n == Len(u)
<1>1. /\ v \in Seq(Message) /\ Len(v) = n + 1 /\ v[n + 1] = x /\ n \in Nat
      /\ \A k \in 1 .. n : v[k] = u[k]
  OBVIOUS
<1>2. n = 0 <=> u = <<>>
  OBVIOUS
<1> HIDE DEF v
<1>3. \A k \in 1 .. n + 1 : v[k].kind # "data"
  <2> TAKE k \in 1 .. n + 1
  <2>1. CASE k = n + 1
    BY <1>1, <2>1
  <2>2. CASE k # n + 1
    <3>1. k \in 1 .. n
      BY <2>2
    <3> QED
      BY <1>1, <3>1 DEF Alternates
  <2> QED
    BY <2>1, <2>2
<1>4. \A k \in 1 .. n : v[k].kind # "update" /\ (v[k + 1].kind = "length" <=> v[k].kind # "length")
  <2> TAKE k \in 1 .. n
  <2>1. v[k] = u[k] /\ u[k].kind # "update"
    BY <1>1
  <2>2. CASE k = n
    <3>1. v[k + 1] = x /\ u # <<>>
      BY <1>1, <1>2, <2>2
    <3> QED
      BY <2>1, <2>2, <3>1
  <2>3. CASE k # n
    <3>1. k \in 1 .. n - 1 /\ k + 1 \in 1 .. n
      BY <2>3
    <3>2. v[k + 1] = u[k + 1]
      BY <1>1, <3>1
    <3> QED
      BY <2>1, <3>1, <3>2 DEF Alternates
  <2> QED
    BY <2>2, <2>3
<1>5. v[1].kind = "length" <=> ~text
  <2>1. CASE n = 0
    BY <1>1, <1>2, <2>1
  <2>2. CASE n # 0
    BY <1>1, <2>2 DEF Alternates
  <2> QED
    BY <2>1, <2>2
<1>6. Alternates(v, n + 1, text)
  BY <1>1, <1>3, <1>4, <1>5 DEF Alternates
<1> QED
  BY <1>1, <1>6 DEF v

LEMMA MessageTaken ==
  ASSUME NEW u \in Seq(Message), NEW v \in Seq(Message), NEW m \in 1 .. Len(u), NEW text \in BOOLEAN,
         Alternates(u, m, text), Len(v) = Len(u) - 1, \A k \in 1 .. Len(v) : v[k] = u[k + 1]
  PROVE  Alternates(v, m - 1, u[1].kind = "length")
<1>1. \A k \in 1 .. m - 1 : k \in 1 .. Len(v) /\ k + 1 \in 1 .. m /\ v[k] = u[k + 1]
  OBVIOUS
<1>2. \A k \in 1 .. m - 1 : v[k].kind # "data"
  BY <1>1 DEF Alternates
<1>3. \A k \in 1 .. (m - 1) - 1 : v[k].kind # "update" /\ (v[k + 1].kind = "length" <=> v[k].kind # "length")
  <2> TAKE k \in 1 .. (m - 1) - 1
  <2>1. k + 1 \in 1 .. m - 1 /\ k \in 1 .. m - 1
    OBVIOUS
  <2>2. v[k] = u[k + 1] /\ v[k + 1] = u[(k + 1) + 1]
    BY <1>1, <2>1
  <2> QED
    BY <2>1, <2>2 DEF Alternates
<1>4. m - 1 >= 1 => (v[1].kind = "length" <=> u[1].kind # "length")
  <2> SUFFICES ASSUME m - 1 >= 1 PROVE v[1].kind = "length" <=> u[1].kind # "length"
    OBVIOUS
  <2>1. v[1] = u[1 + 1] /\ 1 \in 1 .. m - 1
    BY <1>1
  <2> QED
    BY <2>1 DEF Alternates
<1> QED
  BY <1>2, <1>3, <1>4 DEF Alternates

\* Where no update is under way, the stream is quiet.
LEMMA QuietUnlessUpdate ==
  ASSUME SyncInv, Shape, ~UpdateUnderWay
  PROVE  Quiet
<1>1. wire \in Seq(Message) /\ DOMAIN wire = 1 .. Len(wire)
  BY DEF SyncInv, Types
<1>2. ~Filling /\ \A m \in 1 .. Len(wire) : ~Followed(m)
  BY <1>1 DEF UpdateUnderWay, Updates, Filling, Followed
<1> QED
  BY <1>2 DEF Shape

\* A length, or a message whose length was sent.
LEMMA OneMore ==
  ASSUME SyncInv, Quiet, UNCHANGED <<thread, file_size>>, NEW x \in Message, wire' = wire \o <<x>>,
         x.kind \notin {"data", "update"}, x.kind = "length" <=> client # "create",
         client # "data", client' # "data", client' = "create" <=> x.kind = "length"
  PROVE  Quiet'
<1>1. wire \in Seq(Message) /\ wire' = Append(wire, x) /\ AtText' = AtText /\ AtText \in BOOLEAN
  BY DEF SyncInv, Types, AtText
<1>2. x.kind = "length" <=> IF wire = <<>> THEN ~AtText ELSE wire[Len(wire)].kind # "length"
  BY DEF Quiet, Open
<1>3. Alternates(wire, Len(wire), AtText) /\ \A k \in 1 .. Len(wire) : wire[k].kind # "update"
  BY DEF Quiet
<1>4. /\ Append(wire, x) \in Seq(Message) /\ Len(Append(wire, x)) = Len(wire) + 1
      /\ Append(wire, x)[Len(wire) + 1] = x
      /\ \A k \in 1 .. Len(wire) : Append(wire, x)[k] = wire[k]
      /\ Alternates(Append(wire, x), Len(wire) + 1, AtText)
  BY <1>1, <1>2, <1>3, MessageAppended
<1>5. Len(wire) \in Nat /\ Len(wire') = Len(wire) + 1 /\ wire' # <<>> /\ wire'[Len(wire')] = x
  BY <1>1, <1>4
<1>6. Alternates(wire', Len(wire'), AtText')
  BY <1>1, <1>4, <1>5
<1>7. \A k \in 1 .. Len(wire') : wire'[k].kind # "update"
  <2> TAKE k \in 1 .. Len(wire')
  <2>1. CASE k = Len(wire) + 1
    BY <1>5, <2>1
  <2>2. CASE k # Len(wire) + 1
    <3>1. k \in 1 .. Len(wire)
      BY <1>5, <2>2
    <3> QED
      BY <1>1, <1>3, <1>4, <3>1
  <2> QED
    BY <2>1, <2>2
<1>8. Open' <=> x.kind = "length"
  BY <1>5 DEF Open
<1>9. thread' = "data" => file_size' <= 0
  BY DEF Quiet
<1> QED
  BY <1>6, <1>7, <1>8, <1>9 DEF Quiet

\* A length and its message.
LEMMA TwoMore ==
  ASSUME SyncInv, Quiet, UNCHANGED <<thread, file_size>>, NEW x \in Message, wire' = wire \o <<Length, x>>,
         x.kind \notin {"data", "length"}, client \notin {"create", "data"}
  PROVE  /\ Len(wire') = Len(wire) + 2 /\ wire' \in Seq(Message) /\ wire'[Len(wire) + 2] = x
         /\ Alternates(wire', Len(wire) + 2, AtText')
         /\ \A k \in 1 .. Len(wire) + 1 : wire'[k].kind # "update"
         /\ thread' = "data" => file_size' <= 0
<1> DEFINE u == Append(wire, Length)
<1>1. /\ wire \in Seq(Message) /\ AtText' = AtText /\ AtText \in BOOLEAN
      /\ Length \in Message /\ Length.kind = "length"
  BY DEF SyncInv, Types, AtText, Message, Length
<1>2. Length.kind = "length" <=> IF wire = <<>> THEN ~AtText ELSE wire[Len(wire)].kind # "length"
  BY <1>1 DEF Quiet, Open
<1>3. Alternates(wire, Len(wire), AtText) /\ \A k \in 1 .. Len(wire) : wire[k].kind # "update"
  BY DEF Quiet
<1>4. /\ u \in Seq(Message) /\ Len(u) = Len(wire) + 1 /\ u[Len(wire) + 1] = Length
      /\ \A k \in 1 .. Len(wire) : u[k] = wire[k]
      /\ Alternates(u, Len(wire) + 1, AtText)
  BY <1>1, <1>2, <1>3, MessageAppended
<1>5. wire' = Append(u, x)
  BY <1>1
<1> HIDE DEF u
<1>6. Len(wire) \in Nat /\ u # <<>>
  BY <1>1, <1>4
<1>7. \A k \in 1 .. Len(u) : u[k].kind # "update"
  <2> TAKE k \in 1 .. Len(u)
  <2>1. CASE k = Len(wire) + 1
    BY <1>1, <1>4, <2>1
  <2>2. CASE k # Len(wire) + 1
    <3>1. k \in 1 .. Len(wire)
      BY <1>4, <1>6, <2>2
    <3> QED
      BY <1>3, <1>4, <3>1
  <2> QED
    BY <2>1, <2>2
<1>8. x.kind = "length" <=> IF u = <<>> THEN ~AtText ELSE u[Len(u)].kind # "length"
  BY <1>1, <1>4, <1>6
<1>9. /\ Append(u, x) \in Seq(Message) /\ Len(Append(u, x)) = Len(u) + 1
      /\ Append(u, x)[Len(u) + 1] = x
      /\ \A k \in 1 .. Len(u) : Append(u, x)[k] = u[k]
      /\ Alternates(Append(u, x), Len(u) + 1, AtText)
  <2>1. Alternates(u, Len(u), AtText)
    BY <1>4
  <2> QED
    BY <1>1, <1>4, <1>7, <1>8, <2>1, MessageAppended
<1>10. Len(u) + 1 = Len(wire) + 2
  BY <1>4, <1>6
<1>11. \A k \in 1 .. Len(wire) + 1 : wire'[k].kind # "update"
  BY <1>4, <1>5, <1>7, <1>9
<1>12. thread' = "data" => file_size' <= 0
  BY DEF Quiet
<1> QED
  BY <1>1, <1>5, <1>9, <1>10, <1>11, <1>12

-----------------------------------------------------------------------------
(* The steps that keep it so *)

LEMMA RaceInvInit == Init => RaceInv
<1> SUFFICES ASSUME Init PROVE RaceInv
  OBVIOUS
<1>1. wire = <<>> /\ Len(wire) = 0 /\ thread = "loop" /\ client = "sleep" /\ raced = FALSE
  BY DEF Init
<1>2. Quiet
  BY <1>1 DEF Quiet, Alternates, Open, AtText
<1> QED
  BY <1>1, <1>2 DEF RaceInv, Shape

\* A step that sends and takes nothing.
LEMMA SameShape ==
  ASSUME RaceInv, UNCHANGED <<wire, thread, file_size, raced>>,
         client' = client \/ {client, client'} \cap {"create", "data"} = {}
  PROVE  RaceInv'
<1>1. Filling => Filling'
  BY DEF Filling
<1>2. Quiet => Quiet'
  BY DEF Quiet, Alternates, Open, AtText
<1>3. \A m \in 1 .. Len(wire) : Followed(m) => Followed(m)'
  BY DEF Followed, Alternates, AtText
<1>4. Shape => Shape'
  BY <1>1, <1>2, <1>3 DEF Shape
<1> QED
  BY <1>4 DEF RaceInv, InOrder

\* A message that is sent while an update is under way races.
LEMMA SendRaces ==
  ASSUME SyncInv, RaceInv, InOrder, NEW units, Send(units), thread' = thread
  PROVE  /\ raced' \in BOOLEAN
         /\ thread' = "lost" => raced'
         /\ ~raced' => ~raced /\ Quiet
<1>1. PICK b \in BOOLEAN : b <=> UpdateUnderWay
  OBVIOUS
<1>2. raced' = (raced \/ b)
  BY <1>1 DEF Send
<1>3. raced' \in BOOLEAN /\ (~raced' => ~raced /\ ~UpdateUnderWay)
  BY <1>1, <1>2 DEF RaceInv
<1> QED
  BY <1>3, QuietUnlessUpdate DEF RaceInv, InOrder

LEMMA SendKeepsRace ==
  ASSUME SyncInv, RaceInv, InOrder, CheckCreate \/ SendCreate \/ CheckDelete \/ Announce
  PROVE  RaceInv'
<1>0. UNCHANGED <<thread, file_size>>
  BY DEF CheckCreate, SendCreate, CheckDelete, Announce, threadVars
<1>1. CASE CheckCreate
  <2>1. CASE Send(<<Length>>) /\ client = "sleep" /\ client' = "create"
    <3>1. raced' \in BOOLEAN /\ (thread' = "lost" => raced') /\ (~raced' => ~raced /\ Quiet)
      BY <1>0, <2>1, SendRaces
    <3>2. Length \in Message /\ Length.kind = "length"
      BY DEF Message, Length
    <3>3. wire' = wire \o <<Length>>
      BY <2>1 DEF Send
    <3>4. ~raced' => Quiet'
      BY <1>0, <2>1, <3>1, <3>2, <3>3, OneMore
    <3> QED
      BY <3>1, <3>4 DEF RaceInv, Shape
  <2>2. CASE client = "sleep" /\ client' = "delete" /\ UNCHANGED <<wire, raced>>
    BY <1>0, <2>2, SameShape
  <2> QED
    BY <1>1, <2>1, <2>2 DEF CheckCreate
<1>2. CASE SendCreate
  <2>1. Send(<<Create(target)>>) /\ client = "create" /\ client' = "delete"
    BY <1>2 DEF SendCreate
  <2>2. raced' \in BOOLEAN /\ (thread' = "lost" => raced') /\ (~raced' => ~raced /\ Quiet)
    BY <1>0, <2>1, SendRaces
  <2>3. Create(target) \in Message /\ Create(target).kind = "create"
    BY <2>1 DEF Message, Create, SyncInv, Types
  <2>4. wire' = wire \o <<Create(target)>>
    BY <2>1 DEF Send
  <2>5. ~raced' => Quiet'
    BY <1>0, <2>1, <2>2, <2>3, <2>4, OneMore
  <2> QED
    BY <2>2, <2>5 DEF RaceInv, Shape
<1>3. CASE CheckDelete
  <2> DEFINE x == Delete(fileInfos[FirstMissing].name)
  <2>1. CASE HasFewer /\ Send(<<Length, x>>) /\ client = "delete" /\ client' = "refresh"
    <3>1. raced' \in BOOLEAN /\ (thread' = "lost" => raced') /\ (~raced' => ~raced /\ Quiet)
      BY <1>0, <2>1, SendRaces
    <3>2. x \in Message /\ x.kind = "delete"
      BY <2>1, SomeMissing DEF Message, Delete, SyncInv, Types
    <3> HIDE DEF x
    <3>3. wire' = wire \o <<Length, x>>
      BY <2>1 DEF Send
    <3>4. ASSUME ~raced' PROVE Quiet'
      <4>1. /\ Len(wire') = Len(wire) + 2 /\ wire' \in Seq(Message) /\ wire'[Len(wire) + 2] = x
            /\ Alternates(wire', Len(wire) + 2, AtText')
            /\ \A k \in 1 .. Len(wire) + 1 : wire'[k].kind # "update"
            /\ thread' = "data" => file_size' <= 0
        BY <1>0, <2>1, <3>1, <3>2, <3>3, <3>4, TwoMore
      <4>2. Len(wire) \in Nat /\ wire' # <<>>
        BY <4>1 DEF SyncInv, Types
      <4>3. \A k \in 1 .. Len(wire') : k = Len(wire) + 2 \/ k \in 1 .. Len(wire) + 1
        BY <4>1, <4>2
      <4>4. \A k \in 1 .. Len(wire') : wire'[k].kind # "update"
        BY <3>2, <4>1, <4>3
      <4>5. ~Open'
        BY <3>2, <4>1, <4>2 DEF Open
      <4>6. Alternates(wire', Len(wire'), AtText')
        BY <4>1
      <4> QED
        BY <2>1, <4>1, <4>4, <4>5, <4>6 DEF Quiet
    <3> QED
      BY <3>1, <3>4 DEF RaceInv, Shape
  <2>2. CASE client = "delete" /\ client' = "update" /\ UNCHANGED <<wire, raced>>
    BY <1>0, <2>2, SameShape
  <2> QED
    BY <1>3, <2>1, <2>2 DEF CheckDelete
<1>4. CASE Announce
  <2> DEFINE x == Update(target, dir[target])
  <2>1. Send(<<Length, x>>) /\ client = "announce" /\ client' = "data"
    BY <1>4 DEF Announce
  <2>2. raced' \in BOOLEAN /\ (thread' = "lost" => raced') /\ (~raced' => ~raced /\ Quiet)
    BY <1>0, <2>1, SendRaces
  <2>3. x \in Message /\ x.kind = "update"
    <3>1. target \in Names /\ dir[target] \in Sizes \cup {Absent}
      BY <2>1 DEF SyncInv, Types
    <3> QED
      BY <3>1 DEF Message, Update
  <2> HIDE DEF x
  <2>4. wire' = wire \o <<Length, x>>
    BY <2>1 DEF Send
  <2>5. ASSUME ~raced' PROVE Shape'
    <3> DEFINE m == Len(wire) + 2
    <3>1. /\ Len(wire') = m /\ wire' \in Seq(Message) /\ wire'[m] = x
          /\ Alternates(wire', m, AtText')
          /\ \A k \in 1 .. Len(wire) + 1 : wire'[k].kind # "update"
          /\ thread' = "data" => file_size' <= 0
      BY <1>0, <2>1, <2>2, <2>3, <2>4, <2>5, TwoMore
    <3>2. PICK l \in 1 .. Len(wire') : l = m
      BY <3>1 DEF SyncInv, Types
    <3> HIDE DEF m
    <3>3. \A k \in l + 1 .. Len(wire') : wire'[k].kind = "data"
      BY <3>1, <3>2
    <3>4. Followed(l)'
      BY <2>1, <2>3, <3>1, <3>2, <3>3 DEF Followed
    <3> QED
      BY <3>4 DEF Shape
  <2> QED
    BY <2>2, <2>5 DEF RaceInv
<1> QED
  BY <1>1, <1>2, <1>3, <1>4

LEMMA DataKeepsRace ==
  ASSUME SyncInv, RaceInv, InOrder, SendData
  PROVE  RaceInv'
<1>1. /\ client = "data" /\ client' = "sleep" /\ UNCHANGED <<thread, file_size>>
      /\ wire' = wire \o [k \in 1 .. Units(dir[target]) |-> Data]
  BY DEF SendData, threadVars
<1>2. raced' \in BOOLEAN /\ (~raced' => ~raced /\ Units(dir[target]) \in Awaited)
  <2>1. PICK b \in BOOLEAN : b <=> Units(dir[target]) \notin Awaited
    OBVIOUS
  <2>2. raced' = (raced \/ b)
    BY <2>1 DEF SendData
  <2> QED
    BY <2>1, <2>2 DEF RaceInv
<1>3. ASSUME ~raced' PROVE Shape'
  <2>1. ~raced /\ Shape /\ Units(dir[target]) \in Awaited
    BY <1>2, <1>3 DEF RaceInv
  <2>2. wire \in Seq(Message) /\ Len(wire) \in Nat /\ DOMAIN wire = 1 .. Len(wire)
    BY DEF SyncInv, Types
  <2>3. CASE Filling
    <3>1. wire = <<>> /\ Updates = {} /\ file_size \in Nat
      BY <1>1, <2>3 DEF Filling, Updates, SyncInv, Types
    <3>2. Units(dir[target]) = file_size
      BY <2>1, <2>3, <3>1 DEF Awaited, Announced, Units, UpdateUnderWay, Filling
    <3>3. wire' = [k \in 1 .. file_size |-> Data]
      BY <1>1, <3>1, <3>2
    <3>4. Len(wire') = file_size /\ \A k \in 1 .. Len(wire') : wire'[k].kind = "data"
      BY <3>1, <3>3 DEF Data
    <3> QED
      BY <1>1, <2>3, <3>4 DEF Filling, Shape
  <2>4. CASE Quiet
    <3>1. wire = <<>> /\ Updates = {} /\ ~UpdateUnderWay
      BY <1>1, <2>4 DEF Quiet, Updates, UpdateUnderWay, SyncInv, Types
    <3>2. Units(dir[target]) = 0
      BY <2>1, <3>1 DEF Awaited
    <3>3. wire' = wire
      BY <1>1, <3>1, <3>2
    <3> QED
      BY <1>1, <2>4, <3>3 DEF Quiet, Open, AtText, Alternates, Shape
  <2>5. ASSUME NEW m \in 1 .. Len(wire), Followed(m) PROVE Shape'
    <3>1. Len(wire) = m /\ wire[m].kind = "update"
      BY <1>1, <2>5 DEF Followed
    <3>2. \A k \in 1 .. Len(wire) : wire[k].kind = "update" => k = m
      BY <2>5, <3>1 DEF Followed, Alternates
    <3>3. Updates = {m} /\ UpdateUnderWay
      BY <2>2, <3>1, <3>2 DEF Updates, UpdateUnderWay
    <3>4. Units(dir[target]) = Units(wire[m].size) \/ Units(dir[target]) = 0
      <4>1. thread = "data" => Units(file_size) = 0
        BY <2>5 DEF Followed, Units, SyncInv, Types
      <4> QED
        BY <2>1, <3>3, <4>1 DEF Awaited, Announced
    <3>5. Units(wire[m].size) \in Nat
      BY <2>2, <3>1, MessageNames, SyncAssumption DEF Sizes, Absent, Units
    <3>6. PICK n \in Nat : n = Units(dir[target])
      BY <3>4, <3>5
    <3> DEFINE units == [k \in 1 .. n |-> Data]
    <3>7. wire' = wire \o units /\ units \in Seq(Message) /\ Len(units) = n /\ \A k \in 1 .. n : units[k] = Data
      BY <1>1, <3>6 DEF Message
    <3> HIDE DEF units
    <3>8. /\ Len(wire') = m + n
          /\ \A k \in 1 .. m + n : wire'[k] = IF k <= m THEN wire[k] ELSE units[k - m]
      BY <2>2, <3>1, <3>7, ConcatProperties
    <3>9. \A k \in 1 .. m : wire'[k] = wire[k]
      BY <3>8
    <3>10. \A k \in m + 1 .. Len(wire') : wire'[k].kind = "data"
      <4> TAKE k \in m + 1 .. Len(wire')
      <4>1. k - m \in 1 .. n /\ k \in 1 .. m + n /\ ~(k <= m)
        BY <3>8
      <4> QED
        BY <3>7, <3>8, <4>1 DEF Data
    <3>11. Alternates(wire', m, AtText')
      <4>1. AtText' = AtText /\ \A k \in 1 .. m - 1 : k \in 1 .. m /\ k + 1 \in 1 .. m
        BY <1>1 DEF AtText
      <4> QED
        BY <2>5, <3>9, <4>1 DEF Followed, Alternates
    <3>12. Followed(m)'
      <4>1. Len(wire') - m = 0 \/ Len(wire') - m = Units(wire'[m].size)
        <5>1. wire'[m] = wire[m]
          BY <3>9
        <5>2. Len(wire') - m = n
          BY <3>8
        <5>3. n = 0 \/ n = Units(wire[m].size)
          BY <3>4, <3>6
        <5> QED
          BY <5>1, <5>2, <5>3
      <4> QED
        BY <1>1, <2>5, <3>1, <3>9, <3>10, <3>11, <4>1 DEF Followed
    <3>13. m \in 1 .. Len(wire')
      BY <3>8
    <3> QED
      BY <3>12, <3>13 DEF Shape
  <2> QED
    BY <2>1, <2>3, <2>4, <2>5 DEF Shape
<1> QED
  BY <1>1, <1>2, <1>3 DEF RaceInv, InOrder

LEMMA LengthKeepsRace ==
  ASSUME SyncInv, RaceInv, InOrder, RecvLength
  PROVE  RaceInv'
<1>1. /\ thread = "loop" /\ wire # <<>> /\ Take(1) /\ raced' = raced /\ client' = client
      /\ file_size' = file_size
      /\ thread' = IF Head(wire) = Length THEN "text" ELSE "lost"
  BY DEF RecvLength, ThreadLeaves, clientVars
<1>2. /\ wire \in Seq(Message) /\ 1 \in 1 .. Len(wire) /\ Head(wire) = wire[1] /\ wire[1] \in Message
      /\ Len(wire) \in Nat /\ ~AtText /\ AtText \in BOOLEAN
  BY <1>1, HeadIsMessage DEF SyncInv, Types, AtText
<1>3. /\ wire' \in Seq(Message) /\ Len(wire') = Len(wire) - 1
      /\ \A k \in 1 .. Len(wire') : k + 1 \in 1 .. Len(wire) /\ wire'[k] = wire[k + 1]
  <2>1. deleted' = deleted
    BY DEF RecvLength, ThreadLeaves, userVars
  <2> QED
    BY <1>1, <1>2, <2>1, Taken DEF SyncInv
<1>4. ASSUME ~raced PROVE Shape' /\ thread' = "text"
  <2>1. Shape
    BY <1>4 DEF RaceInv
  <2>2. ASSUME NEW m \in 1 .. Len(wire), Alternates(wire, m, AtText)
        PROVE  thread' = "text" /\ AtText' /\ Alternates(wire', m - 1, AtText')
    <3>1. wire[1].kind = "length"
      BY <1>2, <2>2 DEF Alternates
    <3>2. wire[1] = Length
      BY <1>2, <3>1 DEF Message, Length, Data, Create, Delete, Update
    <3>3. Alternates(wire', m - 1, wire[1].kind = "length")
      BY <1>2, <1>3, <2>2, MessageTaken
    <3>4. AtText' = (wire[1].kind = "length") /\ thread' = "text"
      BY <1>1, <1>2, <3>1, <3>2 DEF AtText
    <3> QED
      BY <3>1, <3>3, <3>4
  <2>3. CASE Quiet
    <3>1. Len(wire) \in 1 .. Len(wire) /\ Alternates(wire, Len(wire), AtText)
      BY <1>2, <2>3 DEF Quiet
    <3>2. thread' = "text" /\ AtText' /\ Alternates(wire', Len(wire'), AtText')
      BY <1>3, <2>2, <3>1
    <3>3. \A k \in 1 .. Len(wire') : wire'[k].kind # "update"
      BY <1>3, <2>3 DEF Quiet
    <3>4. Open' <=> Open
      <4>1. CASE Len(wire) = 1
        <5>1. wire' = <<>> /\ wire[Len(wire)].kind = "length"
          BY <1>2, <1>3, <3>1, <4>1 DEF Alternates
        <5> QED
          BY <1>1, <3>2, <5>1 DEF Open
      <4>2. CASE Len(wire) # 1
        <5>1. wire' # <<>> /\ Len(wire') \in 1 .. Len(wire')
          BY <1>2, <1>3, <4>2
        <5>2. wire'[Len(wire')] = wire[Len(wire)]
          <6>1. wire'[Len(wire')] = wire[Len(wire') + 1]
            BY <1>3, <5>1
          <6> QED
            BY <1>2, <1>3, <6>1
        <5> QED
          BY <1>1, <5>1, <5>2 DEF Open
      <4> QED
        BY <4>1, <4>2
    <3>5. client # "data"
      BY <1>1, <2>3 DEF Quiet
    <3> QED
      BY <1>1, <2>3, <3>2, <3>3, <3>4, <3>5 DEF Quiet, Shape
  <2>4. ASSUME NEW m \in 1 .. Len(wire), Followed(m) PROVE Shape' /\ thread' = "text"
    <3>1. thread' = "text" /\ AtText' /\ Alternates(wire', m - 1, AtText')
      BY <2>2, <2>4 DEF Followed
    <3>2. m # 1
      BY <1>2, <2>4 DEF Followed, Alternates
    <3>3. PICK l \in 1 .. Len(wire') : l = m - 1
      BY <1>2, <1>3, <3>2
    <3>4. wire'[l] = wire[m]
      BY <1>3, <3>3
    <3>5. \A k \in l + 1 .. Len(wire') : wire'[k].kind = "data"
      <4> TAKE k \in l + 1 .. Len(wire')
      <4>1. k \in 1 .. Len(wire') /\ k + 1 \in m + 1 .. Len(wire)
        BY <1>2, <1>3, <3>3
      <4> QED
        BY <1>3, <2>4, <4>1 DEF Followed
    <3>6. Len(wire') - l = Len(wire) - m
      BY <1>2, <1>3, <3>3
    <3>7. client = "data" => Len(wire') = l
      BY <1>2, <1>3, <2>4, <3>3 DEF Followed
    <3>8. Followed(l)'
      BY <1>1, <2>4, <3>1, <3>3, <3>4, <3>5, <3>6, <3>7 DEF Followed
    <3> QED
      BY <3>1, <3>8 DEF Shape
  <2>5. ~Filling
    BY <1>1 DEF Filling
  <2> QED
    BY <2>1, <2>3, <2>4, <2>5 DEF Shape
<1> QED
  BY <1>1, <1>4 DEF RaceInv

LEMMA MessageKeepsRace ==
  ASSUME SyncInv, RaceInv, InOrder, RecvMessage
  PROVE  RaceInv'
<1>1. thread = "text" /\ wire # <<>> /\ Take(1) /\ raced' = raced /\ client' = client
  BY DEF RecvMessage, ThreadLeaves, clientVars
<1>2. /\ wire \in Seq(Message) /\ 1 \in 1 .. Len(wire) /\ Head(wire) = wire[1] /\ wire[1] \in Message
      /\ Len(wire) \in Nat /\ AtText /\ AtText \in BOOLEAN
  BY <1>1, HeadIsMessage DEF SyncInv, Types, AtText
<1>3. /\ wire' \in Seq(Message) /\ Len(wire') = Len(wire) - 1
      /\ \A k \in 1 .. Len(wire') : k + 1 \in 1 .. Len(wire) /\ wire'[k] = wire[k + 1]
  <2>1. deleted' = deleted
    BY DEF RecvMessage, ThreadLeaves, userVars
  <2> QED
    BY <1>1, <1>2, <2>1, Taken DEF SyncInv
<1>4. \/ wire[1].kind \in {"create", "delete"} /\ thread' \in {"loop", "exited"}
      \/ /\ wire[1].kind = "update"
         /\ \/ thread' = "exited"
            \/ thread' = "data" /\ file_size' = wire[1].size
      \/ wire[1].kind \in {"length", "data"} /\ thread' = "lost"
  <2>1. PICK message \in Message : message = Head(wire)
    BY <1>2
  <2> QED
    BY <1>2, <2>1 DEF RecvMessage, HandleCreate, HandleDelete, HandleUpdate
<1>5. ASSUME ~raced PROVE thread' # "lost" /\ (InOrder' => Shape')
  <2>1. Shape /\ ~Filling
    BY <1>1, <1>5 DEF RaceInv, Filling
  <2>2. ASSUME NEW m \in 1 .. Len(wire), Alternates(wire, m, AtText)
        PROVE  /\ wire[1].kind \notin {"length", "data"} /\ thread' # "lost"
               /\ ~AtText' /\ Alternates(wire', m - 1, AtText')
    <3>1. wire[1].kind # "length" /\ wire[1].kind # "data"
      BY <1>2, <2>2 DEF Alternates
    <3>2. Alternates(wire', m - 1, wire[1].kind = "length")
      BY <1>2, <1>3, <2>2, MessageTaken
    <3>3. thread' # "lost" /\ AtText' = (wire[1].kind = "length")
      BY <1>4, <3>1 DEF AtText
    <3> QED
      BY <3>1, <3>2, <3>3
  <2>3. CASE Quiet
    <3>1. Len(wire) \in 1 .. Len(wire) /\ Alternates(wire, Len(wire), AtText) /\ wire[1].kind # "update"
      <4>1. Len(wire) \in 1 .. Len(wire)
        BY <1>2
      <4>2. Alternates(wire, Len(wire), AtText) /\ \A k \in 1 .. Len(wire) : wire[k].kind # "update"
        BY <2>3 DEF Quiet
      <4> QED
        BY <1>2, <4>1, <4>2
    <3>2. thread' # "lost" /\ ~AtText' /\ Alternates(wire', Len(wire'), AtText') /\ wire[1].kind \notin {"length", "data"}
      BY <1>3, <2>2, <3>1
    <3>3. \A k \in 1 .. Len(wire') : wire'[k].kind # "update"
      BY <1>3, <2>3 DEF Quiet
    <3>4. Open' <=> Open
      <4>1. CASE Len(wire) = 1
        <5>1. wire' = <<>> /\ wire[Len(wire)].kind # "length"
          BY <1>2, <1>3, <3>2, <4>1
        <5> QED
          BY <1>1, <3>2, <5>1 DEF Open
      <4>2. CASE Len(wire) # 1
        <5>1. wire' # <<>> /\ Len(wire') \in 1 .. Len(wire')
          BY <1>2, <1>3, <4>2
        <5>2. wire'[Len(wire')] = wire[Len(wire)]
          <6>1. wire'[Len(wire')] = wire[Len(wire') + 1]
            BY <1>3, <5>1
          <6> QED
            BY <1>2, <1>3, <6>1
        <5> QED
          BY <1>1, <5>1, <5>2 DEF Open
      <4> QED
        BY <4>1, <4>2
    <3>5. client # "data" /\ (InOrder' => thread' = "loop")
      BY <1>1, <1>4, <2>3, <3>1, <3>2 DEF Quiet, InOrder
    <3> QED
      BY <1>1, <2>3, <3>2, <3>3, <3>4, <3>5 DEF Quiet, Shape
  <2>4. ASSUME NEW m \in 1 .. Len(wire), Followed(m) PROVE thread' # "lost" /\ (InOrder' => Shape')
    <3>1. thread' # "lost" /\ ~AtText' /\ Alternates(wire', m - 1, AtText') /\ wire[1].kind \notin {"length", "data"}
      BY <2>2, <2>4 DEF Followed
    <3>2. CASE m = 1
      <4>1. wire[1].kind = "update"
        BY <2>4, <3>2 DEF Followed
      <4>2. wire[1].size \in Int
        BY <1>2, <4>1, MessageNames, SyncAssumption DEF Sizes, Absent
      <4>3. \A k \in 1 .. Len(wire') : wire'[k].kind = "data"
        <5> TAKE k \in 1 .. Len(wire')
        <5>1. k + 1 \in m + 1 .. Len(wire)
          BY <1>2, <1>3, <3>2
        <5> QED
          BY <1>3, <2>4, <5>1 DEF Followed
      <4>4. Len(wire') = 0 \/ Len(wire') = Units(wire[1].size)
        BY <1>3, <2>4, <3>2 DEF Followed
      <4>5. client # "create" /\ (client = "data" => Len(wire') = 0)
        BY <1>3, <2>4, <3>2 DEF Followed
      <4>6. Len(wire') = 0 <=> wire' = <<>>
        BY <1>3
      <4>7. ASSUME InOrder' PROVE Shape'
        <5>1. thread' = "data" /\ file_size' = wire[1].size
          BY <1>4, <4>1, <4>7 DEF InOrder
        <5>2. CASE wire[1].size > 0
          BY <1>1, <4>2, <4>3, <4>4, <4>5, <4>6, <5>1, <5>2 DEF Filling, Shape, Units
        <5>3. CASE wire[1].size <= 0
          <6>1. wire' = <<>> /\ Len(wire') = 0 /\ m - 1 = 0
            BY <3>2, <4>2, <4>4, <4>6, <5>3 DEF Units
          <6>2. Alternates(wire', Len(wire'), AtText')
            BY <3>1, <6>1
          <6> QED
            BY <1>1, <3>1, <4>5, <5>1, <5>3, <6>1, <6>2 DEF Quiet, Open, Shape
        <5> QED
          BY <4>2, <5>2, <5>3
      <4> QED
        BY <3>1, <4>7
    <3>3. CASE m # 1
      <4>1. PICK l \in 1 .. Len(wire') : l = m - 1
        BY <1>2, <1>3, <3>3
      <4>2. wire'[l] = wire[m]
        BY <1>3, <4>1
      <4>3. \A k \in l + 1 .. Len(wire') : wire'[k].kind = "data"
        <5> TAKE k \in l + 1 .. Len(wire')
        <5>1. k \in 1 .. Len(wire') /\ k + 1 \in m + 1 .. Len(wire)
          BY <1>2, <1>3, <4>1
        <5> QED
          BY <1>3, <2>4, <5>1 DEF Followed
      <4>4. Len(wire') - l = Len(wire) - m
        BY <1>2, <1>3, <4>1
      <4>5. client = "data" => Len(wire') = l
        BY <1>2, <1>3, <2>4, <4>1 DEF Followed
      <4>6. wire[1].kind # "update"
        <5>1. 1 \in 1 .. m - 1
          BY <3>3
        <5> QED
          BY <2>4, <5>1 DEF Followed, Alternates
      <4>7. InOrder' => thread' = "loop"
        BY <1>4, <3>1, <4>6 DEF InOrder
      <4>8. InOrder' => Followed(l)'
        BY <1>1, <2>4, <3>1, <4>1, <4>2, <4>3, <4>4, <4>5, <4>7 DEF Followed
      <4> QED
        BY <3>1, <4>8 DEF Shape
    <3> QED
      BY <3>2, <3>3
  <2> QED
    BY <2>1, <2>3, <2>4 DEF Shape
<1> QED
  BY <1>1, <1>5 DEF RaceInv

LEMMA RecvDataKeepsRace ==
  ASSUME SyncInv, RaceInv, InOrder, RecvData
  PROVE  RaceInv'
<1>1. PICK n \in 1 .. Len(wire) :
        /\ Take(n) /\ file_size' = file_size - n
        /\ thread' = IF \A k \in 1 .. n : wire[k] = Data THEN "data" ELSE "lost"
  BY DEF RecvData
<1>2. /\ thread = "data" /\ file_size > 0 /\ raced' = raced /\ client' = client /\ deleted' = deleted
      /\ wire \in Seq(Message) /\ Len(wire) \in Nat /\ file_size \in Int
  BY DEF RecvData, MoreToCome, ThreadLeaves, clientVars, userVars, SyncInv, Types
<1>3. /\ wire' \in Seq(Message) /\ Len(wire') = Len(wire) - n
      /\ \A k \in 1 .. Len(wire') : k + n \in 1 .. Len(wire) /\ wire'[k] = wire[k + n]
  BY <1>1, <1>2, Taken DEF SyncInv
<1>4. ASSUME ~raced PROVE thread' = "data" /\ Shape'
  <2>1. Filling
    BY <1>2, <1>4 DEF RaceInv, Shape, Quiet, Followed
  <2>2. Len(wire) = file_size /\ client # "data" /\ client # "create"
    BY <1>2, <2>1 DEF Filling
  <2>3. \A k \in 1 .. Len(wire) : wire[k] = Data
    BY <1>2, <2>1 DEF Filling, Message, Length, Data, Create, Delete, Update
  <2>4. thread' = "data"
    BY <1>1, <1>2, <2>3
  <2>5. \A k \in 1 .. Len(wire') : wire'[k].kind = "data"
    BY <1>3, <2>1 DEF Filling
  <2>6. Len(wire') = file_size' /\ file_size' \in Nat
    BY <1>1, <1>2, <1>3, <2>2
  <2>7. CASE file_size' > 0
    BY <1>2, <2>2, <2>4, <2>5, <2>6, <2>7 DEF Filling, Shape
  <2>8. CASE file_size' = 0
    <3>1. wire' = <<>> /\ Len(wire') = 0
      BY <1>3, <2>6, <2>8
    <3> QED
      BY <1>2, <2>2, <2>4, <2>8, <3>1 DEF Quiet, Alternates, Open, AtText, Shape
  <2> QED
    BY <2>4, <2>6, <2>7, <2>8
<1> QED
  BY <1>2, <1>4 DEF RaceInv

LEMMA DoneKeepsRace ==
  ASSUME SyncInv, RaceInv, InOrder, DataDone
  PROVE  RaceInv'
<1>1. /\ thread = "data" /\ thread' = "loop" /\ UNCHANGED <<wire, file_size, client, raced>>
      /\ ~(file_size > 0)
  BY DEF DataDone, MoreToCome, ThreadLeaves, clientVars
<1>2. AtText' = AtText
  BY <1>1 DEF AtText
<1>3. Quiet => Quiet'
  BY <1>1, <1>2 DEF Quiet, Alternates, Open
<1>4. \A m \in 1 .. Len(wire) : Followed(m) => Followed(m)'
  BY <1>1, <1>2 DEF Followed, Alternates
<1>5. Shape => Shape'
  BY <1>1, <1>3, <1>4 DEF Shape, Filling
<1> QED
  BY <1>1, <1>5 DEF RaceInv, InOrder

LEMMA RaceInvNext == SyncInv /\ RaceInv /\ [Next]_vars => RaceInv'
<1> SUFFICES ASSUME SyncInv, RaceInv, [Next]_vars PROVE RaceInv'
  OBVIOUS
<1>1. ASSUME InOrder, NEW f \in Names, NEW size \in Sizes \cup {Absent}, Edit(f, size) PROVE RaceInv'
  BY <1>1, SameShape DEF Edit, threadVars
<1>2. CASE InOrder /\ AfterDelete
  <2>1. UNCHANGED <<wire, thread, file_size, raced>> /\ client = "refresh" /\ client' = "update"
    BY <1>2 DEF AfterDelete, threadVars
  <2> QED
    BY <2>1, SameShape
<1>3. CASE InOrder /\ NoUpdate
  <2>1. UNCHANGED <<wire, thread, file_size, raced>> /\ client = "update" /\ client' = "sleep"
    BY <1>3 DEF NoUpdate, threadVars
  <2> QED
    BY <2>1, SameShape
<1>4. CASE InOrder /\ CheckEntry
  <2>1. UNCHANGED <<wire, thread, file_size, raced>> /\ client = "update" /\ client' \in {"update", "announce"}
    BY <1>4 DEF CheckEntry, threadVars
  <2> QED
    BY <2>1, SameShape
<1>5. CASE UNCHANGED vars
  BY <1>5, SameShape DEF vars, clientVars, threadVars
<1> QED
  BY <1>1, <1>2, <1>3, <1>4, <1>5, SendKeepsRace, DataKeepsRace, LengthKeepsRace, MessageKeepsRace,
     RecvDataKeepsRace, DoneKeepsRace DEF Next, Client, Thread

\* Whatever files a user has and however often he edits them: the stream is lost
\* only when a message followed an update that was under way, or the file changed
\* between its size and its data (BibakBOXServer.c 267-278, BibakBOXClient.c
\* 306-347).
THEOREM LostOnlyByRace == Spec => []LostByRace
<1>1. RaceInv => LostByRace
  BY DEF RaceInv, LostByRace
<1> QED
  BY <1>1, SyncInvInit, SyncInvNext, RaceInvInit, RaceInvNext, PTL DEF Spec

=============================================================================
