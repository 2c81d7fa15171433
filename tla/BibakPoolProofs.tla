-------------------------- MODULE BibakPoolProofs --------------------------
(***************************************************************************)
(* Final_HW6/BibakBOXServer.c, for every number of slots, clients and      *)
(* files: who gets a slot, what brings the server down, and that a client  *)
(* that keeps up has what the server had.                                  *)
(***************************************************************************)
EXTENDS BibakPool, Lemmas, SequenceTheorems

Threads == {"none", "contents", "size", "data", "loop", "spins", "failed"}
Places == {"out", "connected", "refused", "size", "data", "session", "lost", "gone"}
Served == {c \in Clients : thread[c] # "none"}

\* The pool and the backlog: whoever waits to be accepted waits once, has come
\* and has no thread.
QueueInv ==
  /\ client_pool \in [Slots -> Clients \cup {Free}]
  /\ backlog \in Seq(Clients)
  /\ thread \in [Clients -> Threads]
  /\ client \in [Clients -> Places]
  /\ \A k \in 1 .. Len(backlog) : thread[backlog[k]] = "none" /\ client[backlog[k]] # "out"
  /\ \A k, l \in 1 .. Len(backlog) : backlog[k] = backlog[l] => k = l
  /\ \A c \in Clients : client[c] = "out" => thread[c] = "none"

SlotInv ==
  /\ Turned # {} => FreeSlots = {}
  /\ \A c \in Clients : thread[c] # "none" <=> \E i \in Slots : client_pool[i] = c
  /\ IsFiniteSet(Served)
  /\ Cardinality(Served) = threadSize - Cardinality(FreeSlots)

PoolInv == QueueInv /\ SlotInv

-----------------------------------------------------------------------------
(* Lemmas about the pool *)

LEMMA FreeSlotsFinite ==
  IsFiniteSet(FreeSlots) /\ Cardinality(FreeSlots) \in Nat /\ (FreeSlots = {} <=> Cardinality(FreeSlots) = 0)
<1>1. IsFiniteSet(Slots)
  BY PoolAssumption, FS_Interval DEF Slots
<1> QED
  BY <1>1, FS_Subset, FS_EmptySet, FS_CardinalityType DEF FreeSlots

\* The slot main() picks is a free one, when there is one.
LEMMA SlotIsFree ==
  ASSUME ~Busy
  PROVE  Slot \in FreeSlots
<1>1. FreeSlots \in SUBSET Nat /\ FreeSlots # {}
  BY PoolAssumption DEF Busy, FreeSlots, Slots
<1>2. \E i \in FreeSlots : \A j \in FreeSlots : i <= j
  BY <1>1, Least
<1> QED
  BY <1>2 DEF Slot

\* What a step leaves alone that neither accepts a client nor brings one.
Quiet ==
  /\ client_pool' = client_pool /\ backlog' = backlog
  /\ thread' \in [Clients -> Threads]
  /\ client' \in [Clients -> Places]
  /\ \A c \in Clients :
       /\ thread'[c] = "none" <=> thread[c] = "none"
       /\ client'[c] = "refused" => client[c] = "refused"
       /\ client'[c] = "out" => client[c] = "out"

LEMMA QuietKeeps ==
  ASSUME PoolInv, Quiet
  PROVE  PoolInv'
<1>1. QueueInv'
  BY DEF PoolInv, QueueInv, Quiet
<1>2. Served' = Served /\ FreeSlots' = FreeSlots /\ Turned' \subseteq Turned
  BY DEF Served, FreeSlots, Turned, Quiet
<1>3. SlotInv'
  BY <1>2 DEF PoolInv, SlotInv, Quiet
<1> QED
  BY <1>1, <1>3 DEF PoolInv

LEMMA ThreadIsQuiet ==
  ASSUME QueueInv, NEW c \in Clients, ServerThread(c) \/ Handle(c) \/ HandlerFails(c)
  PROVE  Quiet
<1>1. client' = client /\ client_pool' = client_pool /\ backlog' = backlog
  BY DEF ServerThread, SendContents, SendSize, SendData, ExitNoFile, EndOfStream, Handle, HandlerFails,
         serverVars, clientVars
<1>2. /\ thread' \in [Clients -> Threads]
      /\ \A d \in Clients : thread'[d] = "none" <=> thread[d] = "none"
  <2>1. CASE SendContents(c)
    BY <2>1 DEF QueueInv, SendContents, At, AfterSend, Threads
  <2>2. CASE SendSize(c)
    BY <2>2 DEF QueueInv, SendSize, At, Threads
  <2>3. CASE SendData(c)
    BY <2>3 DEF QueueInv, SendData, At, Threads
  <2>4. CASE ExitNoFile(c) \/ Handle(c)
    BY <2>4 DEF QueueInv, ExitNoFile, Handle, serverVars
  <2>5. CASE EndOfStream(c)
    BY <2>5 DEF QueueInv, EndOfStream, Threads
  <2>6. CASE HandlerFails(c)
    BY <2>6 DEF QueueInv, HandlerFails, Hears, Threads
  <2> QED
    BY <2>1, <2>2, <2>3, <2>4, <2>5, <2>6 DEF ServerThread
<1> QED
  BY <1>1, <1>2 DEF Quiet, QueueInv

LEMMA ClientIsQuiet ==
  ASSUME QueueInv, NEW c \in Clients, Receive(c) \/ Leave(c)
  PROVE  Quiet
<1>1. thread' = thread /\ client_pool' = client_pool /\ backlog' = backlog
  BY DEF Receive, ReceiveContents, ReceiveSize, ReceiveData, FileDone, Leave, ClientOnly, serverVars
<1>2. \E there \in Places \ {"out", "refused"} : client' = [client EXCEPT ![c] = there]
  BY DEF Receive, ReceiveContents, ReceiveSize, ReceiveData, FileDone, Leave, Goes, AfterFile, Places
<1> QED
  BY <1>1, <1>2 DEF Quiet, QueueInv

-----------------------------------------------------------------------------
(* The steps that are not quiet *)

LEMMA ConnectKeeps ==
  ASSUME PoolInv, NEW c \in Clients, Connect(c)
  PROVE  PoolInv'
<1>1. /\ backlog' = Append(backlog, c) /\ client' = [client EXCEPT ![c] = "connected"]
      /\ client_pool' = client_pool /\ thread' = thread /\ client[c] = "out"
  BY DEF Connect
<1>2. \A k \in 1 .. Len(backlog) : backlog[k] # c
  BY <1>1 DEF PoolInv, QueueInv
<1>3. QueueInv'
  BY <1>1, <1>2 DEF PoolInv, QueueInv, Places
<1>4. Served' = Served /\ FreeSlots' = FreeSlots /\ Turned' = Turned
  BY <1>1 DEF Served, FreeSlots, Turned, PoolInv, QueueInv
<1>5. SlotInv'
  BY <1>1, <1>4 DEF PoolInv, SlotInv
<1> QED
  BY <1>3, <1>5 DEF PoolInv

LEMMA AcceptKeeps ==
  ASSUME PoolInv, Accept
  PROVE  PoolInv'
<1> DEFINE c == Head(backlog)
<1>1. /\ c \in Clients /\ c = backlog[1] /\ Len(backlog) > 0 /\ backlog' = Tail(backlog)
      /\ thread[c] = "none" /\ client[c] # "out"
  BY DEF Accept, PoolInv, QueueInv
<1>2. /\ backlog' \in Seq(Clients) /\ Len(backlog') = Len(backlog) - 1
      /\ \A k \in 1 .. Len(backlog') : backlog'[k] = backlog[k + 1] /\ backlog'[k] # c
  <2>1. /\ backlog' \in Seq(Clients) /\ Len(backlog') = Len(backlog) - 1
        /\ \A k \in 1 .. Len(backlog') : backlog'[k] = backlog[k + 1]
    BY <1>1 DEF PoolInv, QueueInv
  <2> QED
    BY <1>1, <2>1 DEF PoolInv, QueueInv
<1>3. CASE ~Busy /\ client_pool' = [client_pool EXCEPT ![Slot] = c]
           /\ thread' = [thread EXCEPT ![c] = "contents"] /\ client' = client
  <2>1. Slot \in FreeSlots /\ Slot \in Slots /\ client_pool[Slot] = Free
    BY <1>3, SlotIsFree DEF FreeSlots
  <2>2. QueueInv'
    BY <1>1, <1>2, <1>3, <2>1 DEF PoolInv, QueueInv, Threads
  <2>3. Turned' = {}
    BY <1>3, <2>1 DEF PoolInv, SlotInv, Turned
  <2>4. \A d \in Clients : thread'[d] # "none" <=> \E i \in Slots : client_pool'[i] = d
    BY <1>1, <1>3, <2>1, ClientsAssumption DEF PoolInv, QueueInv, SlotInv
  <2>5. Served' = Served \cup {c} /\ c \notin Served
    BY <1>1, <1>3 DEF Served, PoolInv, QueueInv
  <2>6. FreeSlots' = FreeSlots \ {Slot}
    BY <1>1, <1>3, <2>1, ClientsAssumption DEF FreeSlots, PoolInv, QueueInv
  <2>7. IsFiniteSet(Served') /\ Cardinality(Served') = Cardinality(Served) + 1
    BY <2>5, FS_AddElement DEF PoolInv, SlotInv
  <2>8. Cardinality(FreeSlots') = Cardinality(FreeSlots) - 1
    BY <2>1, <2>6, FreeSlotsFinite, FS_RemoveElement
  <2>9. Cardinality(Served') = threadSize - Cardinality(FreeSlots')
    BY <2>7, <2>8, FreeSlotsFinite, PoolAssumption DEF PoolInv, SlotInv
  <2> QED
    BY <2>2, <2>3, <2>4, <2>7, <2>9 DEF PoolInv, SlotInv
<1>4. CASE Busy /\ client_pool' = client_pool /\ thread' = thread
           /\ client' = [client EXCEPT ![c] = IF @ = "gone" THEN @ ELSE "refused"]
  <2>1. QueueInv'
    BY <1>1, <1>2, <1>4 DEF PoolInv, QueueInv, Places
  <2>2. Served' = Served /\ FreeSlots' = FreeSlots /\ FreeSlots = {}
    BY <1>4 DEF Served, FreeSlots, Busy
  <2>3. SlotInv'
    BY <1>4, <2>2 DEF PoolInv, SlotInv
  <2> QED
    BY <2>1, <2>3 DEF PoolInv
<1> QED
  BY <1>3, <1>4 DEF Accept

LEMMA PoolInvInit == Init => PoolInv
<1> SUFFICES ASSUME Init PROVE PoolInv
  OBVIOUS
<1>1. QueueInv
  BY DEF Init, QueueInv, Threads, Places
<1>2. Served = {} /\ Turned = {} /\ FreeSlots = Slots
  BY DEF Init, Served, Turned, FreeSlots
<1>3. Cardinality(Slots) = threadSize /\ Cardinality({}) = 0 /\ IsFiniteSet({})
  BY PoolAssumption, FS_Interval, FS_EmptySet DEF Slots
<1>4. \A c \in Clients : thread[c] = "none" /\ \A i \in Slots : client_pool[i] # c
  BY ClientsAssumption DEF Init
<1> QED
  BY <1>1, <1>2, <1>3, <1>4, PoolAssumption DEF PoolInv, SlotInv

LEMMA PoolInvNext == PoolInv /\ [Next]_vars => PoolInv'
<1> SUFFICES ASSUME PoolInv, [Next]_vars PROVE PoolInv'
  OBVIOUS
<1>1. CASE Accept
  BY <1>1, AcceptKeeps
<1>2. ASSUME NEW c \in Clients, ServerThread(c) \/ Handle(c) \/ HandlerFails(c) PROVE PoolInv'
  BY <1>2, ThreadIsQuiet, QuietKeeps DEF PoolInv
<1>3. ASSUME NEW c \in Clients, Receive(c) \/ Leave(c) PROVE PoolInv'
  BY <1>3, ClientIsQuiet, QuietKeeps DEF PoolInv
<1>4. ASSUME NEW c \in Clients, Connect(c) PROVE PoolInv'
  BY <1>4, ConnectKeeps
<1>5. CASE AcceptFails \/ UNCHANGED vars
  <2>1. Quiet
    BY <1>5 DEF AcceptFails, vars, serverVars, clientVars, Quiet, PoolInv, QueueInv
  <2> QED
    BY <2>1, QuietKeeps
<1> QED
  BY <1>1, <1>2, <1>3, <1>4, <1>5 DEF Next

\* For every number of slots and clients: nobody is turned away while there is
\* a slot, nobody has two, and a slot is kept for ever (lines 526-559 of the
\* server).
THEOREM SlotsAreKept == Spec => []SlotsForEver
<1>1. PoolInv => SlotsForEver
  BY DEF PoolInv, SlotInv, SlotsForEver, Served
<1> QED
  BY <1>1, PoolInvInit, PoolInvNext, PTL DEF Spec

-----------------------------------------------------------------------------
(* What ends the server *)

\* A thread sends a file of contents, and a file that is not there any more
\* was removed.
EndInv ==
  /\ thread \in [Clients -> Threads]
  /\ next \in [Clients -> Nat \ {0}]
  /\ disk \in [Indices -> Int]
  /\ removed \in BOOLEAN
  /\ \A c \in Clients : thread[c] \in {"size", "data"} => next[c] \in Indices
  /\ \A f \in Indices : disk[f] = Absent => removed
  /\ EndsOnlyBy

LEMMA EndInvInit == Init => EndInv
<1> SUFFICES ASSUME Init PROVE EndInv
  OBVIOUS
<1>1. /\ thread \in [Clients -> Threads]
      /\ \A c \in Clients : thread[c] \notin {"size", "data"}
  BY DEF Init, Threads
<1>2. next \in [Clients -> Nat \ {0}]
  BY DEF Init
<1>3. disk \in [Indices -> Int] /\ \A f \in Indices : disk[f] # Absent
  BY PoolAssumption, FoundAssumption DEF Init, Absent
<1>4. removed \in BOOLEAN /\ EndsOnlyBy
  BY DEF Init, EndsOnlyBy
<1> QED
  BY <1>1, <1>2, <1>3, <1>4 DEF EndInv

LEMMA SendEnds ==
  ASSUME server = "up", NEW c \in Clients, NEW units, Send(c, units), client' = client
  PROVE  EndsOnlyBy'
BY DEF Send, EndsOnlyBy

LEMMA ThreadKeepsEnd ==
  ASSUME EndInv, NEW c \in Clients, ServerThread(c)
  PROVE  EndInv'
<1>1. CASE SendContents(c)
  <2>1. EndsOnlyBy'
    BY <1>1, SendEnds DEF SendContents, At
  <2> QED
    BY <1>1, <2>1, PoolAssumption DEF EndInv, SendContents, At, AfterSend, Threads, Indices, history
<1>2. CASE SendSize(c)
  <2>1. EndsOnlyBy'
    BY <1>2, SendEnds DEF SendSize, At
  <2> QED
    BY <1>2, <2>1 DEF EndInv, SendSize, At, Threads
<1>3. CASE SendData(c)
  <2>1. EndsOnlyBy'
    BY <1>3, SendEnds DEF SendData, At
  <2> QED
    BY <1>3, <2>1, PoolAssumption DEF EndInv, SendData, At, Threads, Indices, history
<1>4. CASE ExitNoFile(c)
  BY <1>4 DEF EndInv, ExitNoFile, OpensFile, EndsOnlyBy, history
<1>5. CASE EndOfStream(c)
  BY <1>5 DEF EndInv, EndOfStream, EndsOnlyBy, Threads, clientVars, history
<1> QED
  BY <1>1, <1>2, <1>3, <1>4, <1>5 DEF ServerThread

LEMMA HandleKeepsEnd ==
  ASSUME EndInv, NEW c \in Clients, Handle(c) \/ HandlerFails(c)
  PROVE  EndInv'
<1>1. CASE Handle(c)
  <2>1. PICK f \in Indices, size \in 0 .. MaxSize \cup {Absent} :
          disk' = [disk EXCEPT ![f] = size] /\ removed' = (removed \/ size = Absent)
    BY <1>1 DEF Handle
  <2>2. size \in Int
    BY PoolAssumption DEF Absent
  <2>3. server' = "up" /\ thread' = thread /\ next' = next
    BY <1>1 DEF Handle, Hears, serverVars
  <2> QED
    BY <2>1, <2>2, <2>3 DEF EndInv, EndsOnlyBy
<1>2. CASE HandlerFails(c)
  BY <1>2 DEF HandlerFails, Hears, EndInv, EndsOnlyBy, Threads, history
<1> QED
  BY <1>1, <1>2

LEMMA EndInvNext == EndInv /\ [Next]_vars => EndInv'
<1> SUFFICES ASSUME EndInv, [Next]_vars PROVE EndInv'
  OBVIOUS
<1>1. CASE server = "up" /\ Accept
  <2>1. server' = "up" /\ UNCHANGED <<next, disk, removed>>
    BY <1>1 DEF Accept, history
  <2>2. thread' = thread \/ thread' = [thread EXCEPT ![Head(backlog)] = "contents"]
    BY <1>1 DEF Accept
  <2> QED
    BY <2>1, <2>2 DEF EndInv, EndsOnlyBy, Threads
<1>2. ASSUME NEW c \in Clients, ServerThread(c) PROVE EndInv'
  BY <1>2, ThreadKeepsEnd
<1>3. ASSUME NEW c \in Clients, Handle(c) \/ HandlerFails(c) PROVE EndInv'
  BY <1>3, HandleKeepsEnd
<1>4. ASSUME server = "up", NEW c \in Clients, Receive(c) \/ Leave(c) \/ Connect(c) PROVE EndInv'
  <2>1. UNCHANGED <<server, thread, next, disk, removed>>
    BY <1>4 DEF Receive, ReceiveContents, ReceiveSize, ReceiveData, FileDone, Leave, Connect,
                ClientOnly, serverVars, history
  <2> QED
    BY <1>4, <2>1 DEF EndInv, EndsOnlyBy
<1>5. CASE AcceptFails
  BY <1>5 DEF AcceptFails, EndInv, EndsOnlyBy, FreeSlots, history
<1>6. CASE UNCHANGED vars
  BY <1>6 DEF vars, serverVars, clientVars, EndInv, EndsOnlyBy, FreeSlots, history
<1> QED
  BY <1>1, <1>2, <1>3, <1>4, <1>5, <1>6 DEF Next

\* For every number of slots, clients and files: the server ends only at its first
\* accept(), because a client has left, with a message that a handler gave up, or
\* because a file of contents was removed (lines 78-86, 188-192, 262-265, 333-336,
\* 404-437, 529-533 of the server).
THEOREM EndsForAReason == Spec => []EndsOnlyBy
<1>1. EndInv => EndsOnlyBy
  BY DEF EndInv
<1> QED
  BY <1>1, EndInvInit, EndInvNext, PTL DEF Spec

-----------------------------------------------------------------------------
(* What is on the way to a client *)

Message == {Contents, Data} \cup {SizeIs(n) : n \in -1 .. MaxSize}

\* The contents, if p is 1, then the sizes of the s files after file h, then d
\* units of data.
Unit(a, p, h, s, k) ==
  IF k <= p THEN Contents ELSE IF k <= p + s THEN SizeIs(a[h + k - p]) ELSE Data
Units(a, p, h, s, d) == [k \in 1 .. p + s + d |-> Unit(a, p, h, s, k)]

Sizes == [Indices -> -1 .. MaxSize]

\* The same, element by element, of a sequence u of length l.
IsUnits(u, l, a, p, h, s) ==
  /\ u \in Seq(Message) /\ Len(u) = l
  /\ \A k \in 1 .. l : u[k] = Unit(a, p, h, s, k)

LEMMA UnitsType ==
  ASSUME NEW a \in Sizes, NEW p \in 0 .. 1, NEW h \in Nat, NEW s \in Nat, NEW d \in Nat, h + s <= Files
  PROVE  IsUnits(Units(a, p, h, s, d), p + s + d, a, p, h, s)
<1>1. p + s + d \in Nat
  OBVIOUS
<1>2. ASSUME NEW k \in 1 .. p + s + d
      PROVE  Unit(a, p, h, s, k) \in Message
  <2>1. CASE k <= p \/ ~(k <= p + s)
    BY <2>1 DEF Message, Unit
  <2>2. CASE ~(k <= p) /\ k <= p + s
    <3>1. h + k - p \in Indices
      BY <2>2, PoolAssumption DEF Indices
    <3>2. a[h + k - p] \in -1 .. MaxSize
      BY <3>1 DEF Sizes
    <3> QED
      BY <2>2, <3>2 DEF Message, Unit
  <2> QED
    BY <2>1, <2>2
<1> QED
  BY <1>1, <1>2 DEF Units, IsUnits

LEMMA NoUnits ==
  ASSUME NEW a \in Sizes, NEW h \in Nat, h <= Files
  PROVE  Units(a, 0, h, 0, 0) = <<>>
BY DEF Units

LEMMA SizeAppended ==
  ASSUME NEW a \in Sizes, NEW p \in 0 .. 1, NEW h \in Nat, NEW s \in Nat, h + s + 1 <= Files
  PROVE  Units(a, p, h, s, 0) \o <<SizeIs(a[h + s + 1])>> = Units(a, p, h, s + 1, 0)
<1> DEFINE u == Units(a, p, h, s, 0)
           v == Units(a, p, h, s + 1, 0)
           m == SizeIs(a[h + s + 1])
<1>1. h + s <= Files /\ h + (s + 1) <= Files /\ s + 1 \in Nat /\ p + s \in Nat
  BY PoolAssumption
<1>2. IsUnits(u, p + s + 0, a, p, h, s) /\ IsUnits(v, p + (s + 1) + 0, a, p, h, s + 1)
  BY <1>1, UnitsType
<1> HIDE DEF u, v
<1>3. /\ u \in Seq(Message) /\ Len(u) = p + s /\ \A k \in 1 .. p + s : u[k] = Unit(a, p, h, s, k)
      /\ v \in Seq(Message) /\ Len(v) = p + s + 1 /\ \A k \in 1 .. p + s + 1 : v[k] = Unit(a, p, h, s + 1, k)
  BY <1>2 DEF IsUnits
<1>4. ASSUME NEW k \in 1 .. p + s PROVE Unit(a, p, h, s, k) = Unit(a, p, h, s + 1, k)
  BY DEF Unit
<1>5. Unit(a, p, h, s + 1, p + s + 1) = m
  <2>1. ~(p + s + 1 <= p) /\ p + s + 1 <= p + (s + 1) /\ h + (p + s + 1) - p = h + s + 1
    OBVIOUS
  <2> QED
    BY <2>1 DEF Unit
<1> HIDE DEF m
<1>6. m \in Message
  BY <1>3, <1>5
<1>7. <<m>> \in Seq(Message) /\ Len(<<m>>) = 1 /\ <<m>>[1] = m
  BY <1>6
<1>8. /\ u \o <<m>> \in Seq(Message) /\ Len(u \o <<m>>) = p + s + 1
      /\ \A k \in 1 .. p + s + 1 : (u \o <<m>>)[k] = IF k <= p + s THEN u[k] ELSE <<m>>[k - (p + s)]
  BY <1>3, <1>7, ConcatProperties
<1>9. ASSUME NEW k \in 1 .. p + s + 1 PROVE (u \o <<m>>)[k] = v[k]
  <2>1. CASE k <= p + s
    BY <1>3, <1>4, <1>8, <2>1
  <2>2. CASE ~(k <= p + s)
    <3>1. k = p + s + 1
      BY <2>2
    <3> QED
      BY <3>1, <1>3, <1>5, <1>7, <1>8, <2>2
  <2> QED
    BY <2>1, <2>2
<1>10. u \o <<m>> = v
  BY <1>3, <1>8, <1>9, SeqEqual
<1> QED
  BY <1>10 DEF u, v, m

LEMMA DataAppended ==
  ASSUME NEW a \in Sizes, NEW p \in 0 .. 1, NEW h \in Nat, NEW s \in Nat, NEW n \in Nat, h + s <= Files
  PROVE  Units(a, p, h, s, 0) \o [k \in 1 .. n |-> Data] = Units(a, p, h, s, n)
<1> DEFINE u == Units(a, p, h, s, 0)
           v == Units(a, p, h, s, n)
           t == [k \in 1 .. n |-> Data]
<1>1. IsUnits(u, p + s + 0, a, p, h, s) /\ IsUnits(v, p + s + n, a, p, h, s)
  BY UnitsType
<1> HIDE DEF u, v
<1>2. /\ u \in Seq(Message) /\ Len(u) = p + s /\ \A k \in 1 .. p + s : u[k] = Unit(a, p, h, s, k)
      /\ v \in Seq(Message) /\ Len(v) = p + s + n /\ \A k \in 1 .. p + s + n : v[k] = Unit(a, p, h, s, k)
  BY <1>1 DEF IsUnits
<1>3. t \in Seq(Message) /\ Len(t) = n /\ \A k \in 1 .. n : t[k] = Data
  <2>1. Data \in Message
    BY DEF Message
  <2> QED
    BY <2>1
<1> HIDE DEF t
<1>4. /\ u \o t \in Seq(Message) /\ Len(u \o t) = p + s + n
      /\ \A k \in 1 .. p + s + n : (u \o t)[k] = IF k <= p + s THEN u[k] ELSE t[k - (p + s)]
  <2>1. /\ u \o t \in Seq(Message) /\ Len(u \o t) = Len(u) + Len(t)
        /\ \A k \in 1 .. Len(u) + Len(t) : (u \o t)[k] = IF k <= Len(u) THEN u[k] ELSE t[k - Len(u)]
    BY <1>2, <1>3, ConcatProperties
  <2> QED
    BY <1>2, <1>3, <2>1
<1>5. ASSUME NEW k \in 1 .. p + s + n PROVE (u \o t)[k] = v[k]
  <2>1. CASE k <= p + s
    <3>1. k \in 1 .. p + s
      BY <2>1
    <3>2. (u \o t)[k] = u[k]
      BY <1>4, <2>1
    <3>3. Unit(a, p, h, s, k) = u[k] /\ v[k] = Unit(a, p, h, s, k)
      BY <1>2, <3>1
    <3> QED
      BY <3>2, <3>3
  <2>2. CASE ~(k <= p + s)
    <3>1. k - (p + s) \in 1 .. n /\ ~(k <= p)
      BY <2>2
    <3>2. Unit(a, p, h, s, k) = Data
      BY <2>2, <3>1 DEF Unit
    <3> QED
      BY <1>2, <1>3, <1>4, <2>2, <3>1, <3>2
  <2> QED
    BY <2>1, <2>2
<1>6. u \o t = v
  BY <1>2, <1>4, <1>5, SeqEqual
<1> QED
  BY <1>6 DEF u, v, t

\* What is left of a sequence when n units were taken.
LEMMA RestOfSeq ==
  ASSUME NEW u \in Seq(Message), NEW v \in Seq(Message), NEW n \in Nat,
         Len(u) = Len(v) + n, \A k \in 1 .. Len(v) : u[k + n] = v[k]
  PROVE  SubSeq(u, n + 1, Len(u)) = v
<1> DEFINE w == SubSeq(u, n + 1, Len(u))
           m == Len(v)
<1>1. m \in Nat /\ \A k \in 1 .. m : u[k + n] \in Message
  OBVIOUS
<1>2. w = [k \in 1 .. m |-> u[k + n]]
  OBVIOUS
<1>3. w \in Seq(Message) /\ Len(w) = m /\ \A k \in 1 .. m : w[k] = u[k + n]
  <2> HIDE DEF w, m
  <2> QED
    BY <1>1, <1>2
<1> HIDE DEF w
<1>4. w = v
  BY <1>3, SeqEqual
<1> QED
  BY <1>4 DEF w

LEMMA ContentsTaken ==
  ASSUME NEW a \in Sizes, NEW h \in Nat, NEW s \in Nat, NEW d \in Nat, h + s <= Files
  PROVE  SubSeq(Units(a, 1, h, s, d), 2, Len(Units(a, 1, h, s, d))) = Units(a, 0, h, s, d)
<1> DEFINE u == Units(a, 1, h, s, d)
           v == Units(a, 0, h, s, d)
<1>1. IsUnits(u, 1 + s + d, a, 1, h, s) /\ IsUnits(v, 0 + s + d, a, 0, h, s)
  BY UnitsType
<1>2. ASSUME NEW k \in 1 .. s + d PROVE Unit(a, 1, h, s, k + 1) = Unit(a, 0, h, s, k)
  <2>1. k >= 1 /\ (k + 1 <= 1 + s <=> k <= 0 + s) /\ h + (k + 1) - 1 = h + k - 0
    OBVIOUS
  <2> QED
    BY <2>1 DEF Unit
<1> HIDE DEF u, v
<1>3. /\ u \in Seq(Message) /\ v \in Seq(Message) /\ Len(u) = Len(v) + 1
      /\ \A k \in 1 .. Len(v) : u[k + 1] = v[k]
  BY <1>1, <1>2 DEF IsUnits
<1>4. SubSeq(u, 1 + 1, Len(u)) = v
  BY <1>3, RestOfSeq
<1> QED
  BY <1>4 DEF u, v

LEMMA SizeTaken ==
  ASSUME NEW a \in Sizes, NEW h \in Nat, NEW s \in Nat, NEW d \in Nat, h + s <= Files, s >= 1
  PROVE  SubSeq(Units(a, 0, h, s, d), 2, Len(Units(a, 0, h, s, d))) = Units(a, 0, h + 1, s - 1, d)
<1> DEFINE u == Units(a, 0, h, s, d)
           g == h + 1
           r == s - 1
           v == Units(a, 0, g, r, d)
<1>1. g \in Nat /\ r \in Nat /\ g + r <= Files
  BY PoolAssumption
<1>2. IsUnits(u, 0 + s + d, a, 0, h, s) /\ IsUnits(v, 0 + r + d, a, 0, g, r)
  <2> HIDE DEF g, r
  <2> QED
    BY <1>1, UnitsType
<1>3. ASSUME NEW k \in 1 .. r + d PROVE Unit(a, 0, h, s, k + 1) = Unit(a, 0, g, r, k)
  <2>1. k >= 1 /\ (k + 1 <= 0 + s <=> k <= 0 + r) /\ h + (k + 1) - 0 = g + k - 0
    OBVIOUS
  <2> QED
    BY <2>1 DEF Unit
<1> HIDE DEF u, v
<1>4. /\ u \in Seq(Message) /\ v \in Seq(Message) /\ Len(u) = Len(v) + 1
      /\ \A k \in 1 .. Len(v) : u[k + 1] = v[k]
  BY <1>2, <1>3 DEF IsUnits
<1>5. SubSeq(u, 1 + 1, Len(u)) = v
  BY <1>4, RestOfSeq
<1> QED
  BY <1>5 DEF u, v, g, r

LEMMA DataTaken ==
  ASSUME NEW a \in Sizes, NEW h \in Nat, NEW d \in Nat, NEW n \in 0 .. d, h <= Files
  PROVE  SubSeq(Units(a, 0, h, 0, d), n + 1, Len(Units(a, 0, h, 0, d))) = Units(a, 0, h, 0, d - n)
<1> DEFINE u == Units(a, 0, h, 0, d)
           e == d - n
           v == Units(a, 0, h, 0, e)
<1>1. e \in Nat /\ n \in Nat /\ h + 0 <= Files
  BY PoolAssumption
<1>2. IsUnits(u, 0 + 0 + d, a, 0, h, 0) /\ IsUnits(v, 0 + 0 + e, a, 0, h, 0)
  <2> HIDE DEF e
  <2> QED
    BY <1>1, UnitsType
<1>3. ASSUME NEW k \in 1 .. e PROVE Unit(a, 0, h, 0, k + n) = Unit(a, 0, h, 0, k)
  <2>1. ~(k + n <= 0) /\ ~(k + n <= 0 + 0) /\ ~(k <= 0) /\ ~(k <= 0 + 0)
    OBVIOUS
  <2> QED
    BY <2>1 DEF Unit
<1> HIDE DEF u, v
<1>4. /\ u \in Seq(Message) /\ v \in Seq(Message) /\ Len(u) = Len(v) + n
      /\ \A k \in 1 .. Len(v) : u[k + n] = v[k]
  BY <1>1, <1>2, <1>3 DEF IsUnits
<1>5. SubSeq(u, n + 1, Len(u)) = v
  BY <1>1, <1>4, RestOfSeq
<1> QED
  BY <1>5 DEF u, v, e

\* What is sent next does not change what is on the way.
LEMMA SameUnits ==
  ASSUME NEW a \in Sizes, NEW b \in Sizes, NEW p \in 0 .. 1, NEW h \in Nat, NEW s \in Nat, h + s <= Files,
         \A f \in Indices : f <= h + s => b[f] = a[f]
  PROVE  Units(b, p, h, s, 0) = Units(a, p, h, s, 0)
<1>1. ASSUME NEW k \in 1 .. p + s PROVE Unit(b, p, h, s, k) = Unit(a, p, h, s, k)
  <2>1. CASE k <= p
    BY <2>1 DEF Unit
  <2>2. CASE ~(k <= p)
    <3>1. h + k - p \in Indices /\ h + k - p <= h + s
      BY <2>2, PoolAssumption DEF Indices
    <3>2. b[h + k - p] = a[h + k - p]
      BY <3>1
    <3> QED
      BY <3>2 DEF Unit
  <2> QED
    BY <2>1, <2>2
<1> QED
  BY <1>1 DEF Units

-----------------------------------------------------------------------------
(* A client that keeps up has what it was told *)

\* The client has no thread yet, or its thread has sent nothing.
NotBegun(c) ==
  /\ thread[c] \in {"none", "contents"} /\ client[c] \in {"out", "connected", "refused"}
  /\ thread[c] = "contents" => client[c] = "connected"
  /\ next[c] = 1 /\ current[c] = 1 /\ fileSize[c] = 0
  /\ stream[c] = <<>>
  /\ copy[c] = [f \in Indices |-> 0]

\* The client has read h sizes, and s more are on the way.  Only the last of the
\* files they are of can have data, for a size that is sent after unread data
\* makes the client slow, and only the last can be gone, for which its thread has
\* no data.
BegunWith(c, h, s) ==
  /\ thread[c] \in {"size", "data", "loop"} /\ client[c] \in {"connected", "size", "data", "session"}
  /\ next[c] = IF thread[c] = "data" THEN h + s ELSE h + s + 1
  /\ thread[c] = "loop" <=> next[c] = Files + 1
  /\ current[c] = IF client[c] = "data" THEN h ELSE h + 1
  /\ client[c] = "connected" => h = 0
  /\ client[c] = "size" => h < Files
  /\ client[c] = "data" => h >= 1
  /\ client[c] = "session" => h = Files
  /\ fileSize[c] \in -1 .. MaxSize /\ (client[c] # "data" => fileSize[c] <= 0)
  /\ h = 0 => fileSize[c] = 0
  /\ h >= 1 => fileSize[c] <= told[c][h] /\ (told[c][h] >= 0 => fileSize[c] >= 0)
  /\ fileSize[c] > 0 => s = 0
  /\ thread[c] = "data" => h + s >= 1 /\ told[c][h + s] = disk[h + s]
  /\ thread[c] = "data" /\ s = 0 => h >= 1 /\ fileSize[c] = told[c][h]
  /\ \A f \in 1 .. h + s : told[c][f] >= 0 \/ (f = h + s /\ thread[c] = "data")
  /\ \A f \in h + 1 .. h + s - 1 : told[c][f] = 0
  /\ copy[c] = [f \in Indices |-> IF f < h THEN told[c][f] ELSE IF f = h THEN told[c][f] - fileSize[c] ELSE 0]
  /\ stream[c] = Units(told[c], IF client[c] = "connected" THEN 1 ELSE 0, h, s,
                       IF thread[c] = "data" THEN 0 ELSE IF s > 0 THEN told[c][h + s] ELSE fileSize[c])

Begun(c) == \E h \in 0 .. Files, s \in 0 .. Files : h + s <= Files /\ BegunWith(c, h, s)

Functions ==
  /\ thread \in [Clients -> Threads] /\ client \in [Clients -> Places]
  /\ next = [c \in Clients |-> next[c]] /\ current = [c \in Clients |-> current[c]]
  /\ fileSize = [c \in Clients |-> fileSize[c]] /\ copy = [c \in Clients |-> copy[c]]
  /\ stream = [c \in Clients |-> stream[c]] /\ told \in [Clients -> Sizes] /\ disk \in Sizes
  /\ slow \in [Clients -> BOOLEAN] /\ garbled \in [Clients -> BOOLEAN] /\ torn \in [Clients -> BOOLEAN]

\* Who has no thread has nothing to read; who waits to be accepted was not
\* turned away.
Waiting ==
  /\ \A c \in Clients : thread[c] = "none"
        => client[c] \in {"out", "connected", "refused", "gone"} /\ stream[c] = <<>>
  /\ \A k \in 1 .. Len(backlog) : client[backlog[k]] \in {"connected", "gone"}

KeepsUp(c) == KeptUp(c) /\ client[c] # "gone"
Faithful == \A c \in Clients : KeepsUp(c) => NotBegun(c) \/ Begun(c)

DownInv == Functions /\ Waiting /\ DownloadTrue /\ (server = "up" => Faithful)

Mine(c) ==
  <<thread[c], next[c], client[c], stream[c], current[c], fileSize[c], copy[c], told[c], slow[c],
    garbled[c], torn[c]>>

\* A client whose variables do not change stays as it is, when the file that its
\* thread has told of does not change either.
LEMMA SameFaithful ==
  ASSUME NEW c \in Clients, Mine(c)' = Mine(c), NotBegun(c) \/ Begun(c),
         thread[c] = "data" /\ next[c] \in Indices => disk'[next[c]] = disk[next[c]]
  PROVE  (NotBegun(c) \/ Begun(c))'
<1>1. UNCHANGED <<thread[c], next[c], client[c], stream[c], current[c], fileSize[c], copy[c], told[c]>>
  BY DEF Mine
<1>2. NotBegun(c)' <=> NotBegun(c)
  BY <1>1 DEF NotBegun
<1>3. ASSUME NEW h \in 0 .. Files, NEW s \in 0 .. Files, h + s <= Files, BegunWith(c, h, s)
      PROVE  BegunWith(c, h, s)'
  <2>1. thread[c] = "data" => disk'[h + s] = disk[h + s]
    BY <1>3, PoolAssumption DEF BegunWith, Indices
  <2>2. (stream[c] = Units(told[c], IF client[c] = "connected" THEN 1 ELSE 0, h, s,
                       IF thread[c] = "data" THEN 0 ELSE IF s > 0 THEN told[c][h + s] ELSE fileSize[c]))'
    BY <1>1, <1>3 DEF BegunWith
  <2> QED
    BY <1>1, <1>3, <2>1, <2>2 DEF BegunWith
<1> QED
  BY <1>2, <1>3 DEF Begun

\* What a step for client c leaves alone.
Local(c) ==
  /\ \A e \in Clients \ {c} : Mine(e)' = Mine(e)
  /\ disk' = disk

LEMMA LocalSteps ==
  ASSUME Functions, NEW c \in Clients, ServerThread(c) \/ Receive(c) \/ Leave(c) \/ Connect(c)
  PROVE  Local(c)
<1> USE DEF Functions, Local, Mine, history
<1>1. CASE SendContents(c)
  BY <1>1 DEF SendContents, At, Send
<1>2. CASE SendSize(c)
  BY <1>2 DEF SendSize, At, Send
<1>3. CASE SendData(c)
  BY <1>3 DEF SendData, At, Send
<1>4. CASE ExitNoFile(c)
  BY <1>4 DEF ExitNoFile, clientVars
<1>5. CASE EndOfStream(c)
  BY <1>5 DEF EndOfStream, clientVars
<1>6. CASE ReceiveContents(c)
  BY <1>6 DEF ReceiveContents, Takes, Goes, ClientOnly, serverVars
<1>7. CASE ReceiveSize(c)
  BY <1>7 DEF ReceiveSize, Takes, Goes, ClientOnly, serverVars
<1>8. CASE ReceiveData(c)
  BY <1>8 DEF ReceiveData, Takes, Goes, ClientOnly, serverVars
<1>9. CASE FileDone(c)
  BY <1>9 DEF FileDone, Goes, ClientOnly, serverVars
<1>10. CASE Leave(c)
  BY <1>10 DEF Leave, Goes, serverVars
<1>11. CASE Connect(c)
  BY <1>11 DEF Connect
<1> QED
  BY <1>1, <1>2, <1>3, <1>4, <1>5, <1>6, <1>7, <1>8, <1>9, <1>10, <1>11 DEF ServerThread, Receive

\* Only client c has to be looked at.
LEMMA FaithfulByOne ==
  ASSUME Functions, Faithful, NEW c \in Clients, Local(c),
         KeepsUp(c)' => (NotBegun(c) \/ Begun(c))'
  PROVE  Faithful'
<1> SUFFICES ASSUME NEW e \in Clients, KeepsUp(e)' PROVE (NotBegun(e) \/ Begun(e))'
  BY DEF Faithful
<1>1. CASE e = c
  BY <1>1
<1>2. CASE e # c
  <2>1. Mine(e)' = Mine(e) /\ disk' = disk /\ KeepsUp(e)
    BY <1>2 DEF Local, Mine, KeepsUp, KeptUp
  <2>2. NotBegun(e) \/ Begun(e)
    BY <2>1 DEF Faithful
  <2> QED
    BY <2>1, <2>2, SameFaithful
<1> QED
  BY <1>1, <1>2

-----------------------------------------------------------------------------
(* One step of a session that has begun *)

\* Whether the contents are still on the way, and the data behind the last size.
Pre(c) == IF client[c] = "connected" THEN 1 ELSE 0
Rest(c, h, s) == IF thread[c] = "data" THEN 0 ELSE IF s > 0 THEN told[c][h + s] ELSE fileSize[c]

LEMMA RestType ==
  ASSUME Functions, NEW c \in Clients, NEW h \in 0 .. Files, NEW s \in 0 .. Files, h + s <= Files,
         BegunWith(c, h, s)
  PROVE  /\ Rest(c, h, s) \in 0 .. MaxSize /\ Pre(c) \in 0 .. 1 /\ told[c] \in Sizes
         /\ stream[c] = Units(told[c], Pre(c), h, s, Rest(c, h, s))
         /\ IsUnits(stream[c], Pre(c) + s + Rest(c, h, s), told[c], Pre(c), h, s)
<1>1. told[c] \in Sizes
  BY DEF Functions
<1>2. Rest(c, h, s) \in 0 .. MaxSize
  <2>1. CASE thread[c] = "data"
    BY <2>1, PoolAssumption DEF Rest
  <2>2. CASE thread[c] # "data" /\ s > 0
    <3>1. h + s \in 1 .. h + s /\ h + s \in Indices
      BY <2>2, PoolAssumption DEF Indices
    <3>2. told[c][h + s] >= 0 /\ told[c][h + s] \in -1 .. MaxSize
      BY <1>1, <2>2, <3>1 DEF BegunWith, Sizes
    <3> QED
      BY <2>2, <3>2, PoolAssumption DEF Rest
  <2>3. CASE thread[c] # "data" /\ ~(s > 0)
    <3>1. s = 0 /\ fileSize[c] \in -1 .. MaxSize
      BY <2>3 DEF BegunWith
    <3>2. CASE h = 0
      BY <2>3, <3>2, PoolAssumption DEF BegunWith, Rest
    <3>3. CASE h # 0
      <4>1. h \in 1 .. h + s
        BY <3>1, <3>3
      <4>2. told[c][h] >= 0
        BY <2>3, <4>1 DEF BegunWith
      <4>3. fileSize[c] >= 0
        BY <3>3, <4>2 DEF BegunWith
      <4> QED
        BY <2>3, <3>1, <4>3, PoolAssumption DEF Rest
    <3> QED
      BY <3>2, <3>3
  <2> QED
    BY <2>1, <2>2, <2>3
<1>3. Pre(c) \in 0 .. 1
  BY DEF Pre
<1>4. stream[c] = Units(told[c], Pre(c), h, s, Rest(c, h, s))
  BY DEF BegunWith, Pre, Rest
<1>5. IsUnits(stream[c], Pre(c) + s + Rest(c, h, s), told[c], Pre(c), h, s)
  <2>1. Rest(c, h, s) \in Nat /\ h \in Nat /\ s \in Nat
    BY <1>2, PoolAssumption
  <2> QED
    BY <1>1, <1>3, <1>4, <2>1, UnitsType
<1> QED
  BY <1>1, <1>2, <1>3, <1>4, <1>5

\* A size that is sent to a client that keeps up follows no data.
LEMMA NoDataLeft ==
  ASSUME Functions, NEW c \in Clients, NEW h \in 0 .. Files, NEW s \in 0 .. Files, h + s <= Files,
         BegunWith(c, h, s), Data \notin ToSet(stream[c])
  PROVE  Rest(c, h, s) = 0
<1> DEFINE l == Pre(c) + s + Rest(c, h, s)
<1>1. Rest(c, h, s) \in 0 .. MaxSize /\ Pre(c) \in 0 .. 1 /\ IsUnits(stream[c], l, told[c], Pre(c), h, s)
  BY RestType
<1>2. ASSUME Rest(c, h, s) > 0 PROVE FALSE
  <2>1. l \in 1 .. l /\ ~(l <= Pre(c)) /\ ~(l <= Pre(c) + s)
    BY <1>1, <1>2, PoolAssumption
  <2> HIDE DEF l
  <2>2. stream[c] \in Seq(Message) /\ Len(stream[c]) = l /\ stream[c][l] = Unit(told[c], Pre(c), h, s, l)
    BY <1>1, <2>1 DEF IsUnits
  <2>3. stream[c][l] = Data
    BY <2>1, <2>2 DEF Unit
  <2>4. l \in DOMAIN stream[c]
    BY <2>1, <2>2, LenProperties
  <2> QED
    BY <2>3, <2>4 DEF ToSet
<1> QED
  BY <1>1, <1>2, PoolAssumption

LEMMA ContentsSent ==
  ASSUME Functions, NEW c \in Clients, SendContents(c), NotBegun(c), client[c] # "gone"
  PROVE  Begun(c)'
<1>1. /\ thread[c] = "contents" /\ client[c] = "connected" /\ next[c] = 1 /\ current[c] = 1
      /\ fileSize[c] = 0 /\ stream[c] = <<>> /\ copy[c] = [f \in Indices |-> 0]
  BY DEF SendContents, At, NotBegun
<1>2. /\ thread'[c] = (IF Files < 1 THEN "loop" ELSE "size") /\ stream'[c] = <<Contents>>
      /\ UNCHANGED <<next, current, fileSize, copy, client, disk, told>>
  BY <1>1, PoolAssumption DEF SendContents, At, AfterSend, Send, Functions, history
<1>3. Units(told[c], 1, 0, 0, 0) = <<Contents>>
  BY DEF Units, Unit
<1>4. (Units(told[c], 1, 0, 0, 0) = <<Contents>>)'
  BY <1>3, <1>2 DEF Units, Unit
<1>5. \A f \in Indices : f \in Nat /\ f > 0
  BY PoolAssumption DEF Indices
<1>6. BegunWith(c, 0, 0)'
  BY <1>1, <1>2, <1>4, <1>5, PoolAssumption DEF BegunWith
<1> QED
  BY <1>6, PoolAssumption DEF Begun

LEMMA SizeSent ==
  ASSUME Functions, NEW c \in Clients, SendSize(c), Begun(c), client[c] # "gone", ~slow'[c]
  PROVE  Begun(c)'
<1>1. PICK h \in 0 .. Files, s \in 0 .. Files : h + s <= Files /\ BegunWith(c, h, s)
  BY DEF Begun
<1>2. /\ thread[c] = "size" /\ thread'[c] = "data" /\ stream'[c] = stream[c] \o <<SizeIs(disk[next[c]])>>
      /\ told'[c] = [told[c] EXCEPT ![next[c]] = disk[next[c]]]
      /\ UNCHANGED <<next, current, fileSize, copy, client, disk>>
      /\ Data \notin ToSet(stream[c])
  BY DEF SendSize, At, Send, Functions
<1>3. Rest(c, h, s) = 0
  BY <1>1, <1>2, NoDataLeft
<1>4. next[c] = h + s + 1 /\ h + s + 1 \in Indices /\ \A f \in 1 .. h + s : f \in Indices /\ told[c][f] >= 0
  <2>1. next[c] = h + s + 1 /\ h + s + 1 \in Indices
    BY <1>1, <1>2, PoolAssumption DEF BegunWith, Indices
  <2>2. ASSUME NEW f \in 1 .. h + s PROVE f \in Indices /\ told[c][f] >= 0
    <3>1. f \in Indices
      BY <1>1, PoolAssumption DEF Indices
    <3>2. told[c][f] >= 0
      BY <1>1, <1>2 DEF BegunWith
    <3> QED
      BY <3>1, <3>2
  <2> QED
    BY <2>1, <2>2
<1>5. fileSize[c] = 0 /\ \A f \in h + 1 .. h + s : told[c][f] = 0
  <2>1. CASE s = 0
    BY <1>1, <1>2, <1>3, <2>1 DEF BegunWith, Rest
  <2>2. CASE s > 0
    <3>1. told[c][h + s] = 0
      BY <1>2, <1>3, <2>2 DEF Rest
    <3>2. fileSize[c] <= 0 /\ fileSize[c] \in -1 .. MaxSize
      BY <1>1, <2>2, PoolAssumption DEF BegunWith
    <3>3. fileSize[c] >= 0
      <4>1. CASE h = 0
        BY <1>1, <4>1 DEF BegunWith
      <4>2. CASE h # 0
        BY <1>1, <1>4, <4>2 DEF BegunWith
      <4> QED
        BY <4>1, <4>2
    <3> QED
      BY <1>1, <3>1, <3>2, <3>3 DEF BegunWith
  <2> QED
    BY <2>1, <2>2
<1>6. /\ told[c] \in Sizes /\ told'[c] \in Sizes /\ told'[c][h + s + 1] = disk[h + s + 1]
      /\ \A f \in Indices : f <= h + s => told'[c][f] = told[c][f]
  BY <1>2, <1>4, PoolAssumption DEF Functions, Sizes, Indices
<1>7. stream'[c] = Units(told'[c], Pre(c), h, s + 1, 0)
  <2>1. stream[c] = Units(told[c], Pre(c), h, s, 0) /\ Pre(c) \in 0 .. 1
    BY <1>1, <1>3, RestType
  <2>2. h \in Nat /\ s \in Nat /\ h + s + 1 <= Files
    BY <1>4, PoolAssumption DEF Indices
  <2>3. Units(told'[c], Pre(c), h, s, 0) = Units(told[c], Pre(c), h, s, 0)
    BY <1>1, <1>6, <2>1, <2>2, SameUnits
  <2>4. Units(told'[c], Pre(c), h, s, 0) \o <<SizeIs(told'[c][h + s + 1])>> = Units(told'[c], Pre(c), h, s + 1, 0)
    BY <1>6, <2>1, <2>2, SizeAppended
  <2> QED
    BY <1>2, <1>4, <1>6, <2>1, <2>3, <2>4
<1>8. (stream[c] = Units(told[c], Pre(c), h, s + 1, 0))'
  BY <1>2, <1>7 DEF Pre
<1>9. BegunWith(c, h, s + 1)'
  <2>1. /\ thread'[c] = "data" /\ next'[c] = h + (s + 1) /\ next'[c] # Files + 1 /\ h + (s + 1) >= 1
        /\ current'[c] = IF client'[c] = "data" THEN h ELSE h + 1
        /\ ~(s + 1 = 0)
    BY <1>1, <1>2, <1>4, PoolAssumption DEF BegunWith, Indices
  <2>2. \A f \in h + 1 .. h + (s + 1) - 1 : told'[c][f] = 0
    <3>1. h + (s + 1) - 1 = h + s
      OBVIOUS
    <3> QED
      BY <1>4, <1>5, <1>6, <3>1
  <2>3. (stream[c] = Units(told[c], IF client[c] = "connected" THEN 1 ELSE 0, h, s + 1,
                       IF thread[c] = "data" THEN 0 ELSE IF s + 1 > 0 THEN told[c][h + (s + 1)] ELSE fileSize[c]))'
    BY <1>8, <2>1 DEF Pre
  <2>4. copy'[c] = [f \in Indices |-> IF f < h THEN told'[c][f] ELSE IF f = h THEN told'[c][f] - fileSize'[c] ELSE 0]
    <3>1. copy[c] = [f \in Indices |-> IF f < h THEN told[c][f] ELSE IF f = h THEN told[c][f] - fileSize[c] ELSE 0]
      BY <1>1 DEF BegunWith
    <3>2. \A f \in Indices : f <= h => f <= h + s
      BY PoolAssumption DEF Indices
    <3>3. \A f \in Indices : f < h \/ f = h => told'[c][f] = told[c][f]
      BY <1>6, <3>2, PoolAssumption DEF Indices
    <3> QED
      BY <1>2, <3>1, <3>3
  <2>5. /\ client'[c] \in {"connected", "size", "data", "session"}
        /\ client'[c] = "connected" => h = 0
        /\ client'[c] = "size" => h < Files
        /\ client'[c] = "data" => h >= 1
        /\ client'[c] = "session" => h = Files
        /\ fileSize'[c] = 0 /\ fileSize'[c] \in -1 .. MaxSize
    BY <1>1, <1>2, <1>5, PoolAssumption DEF BegunWith
  <2>6. h >= 1 => fileSize'[c] <= told'[c][h]
    BY <1>2, <1>4, <1>5, <1>6
  <2>7. told'[c][h + (s + 1)] = disk'[h + (s + 1)]
    BY <1>2, <1>6
  <2>8. \A f \in 1 .. h + (s + 1) : told'[c][f] >= 0 \/ (f = h + (s + 1) /\ thread'[c] = "data")
    BY <1>4, <1>6, <2>1
  <2> QED
    BY <2>1, <2>2, <2>3, <2>4, <2>5, <2>6, <2>7, <2>8 DEF BegunWith
<1> QED
  BY <1>4, <1>9, PoolAssumption DEF Begun, Indices

LEMMA DataSent ==
  ASSUME Functions, NEW c \in Clients, SendData(c), Begun(c), client[c] # "gone"
  PROVE  Begun(c)'
<1>1. PICK h \in 0 .. Files, s \in 0 .. Files : h + s <= Files /\ BegunWith(c, h, s)
  BY DEF Begun
<1>2. /\ thread[c] = "data" /\ thread'[c] = (IF next[c] < Files THEN "size" ELSE "loop")
      /\ stream'[c] = stream[c] \o [k \in 1 .. disk[next[c]] |-> Data] /\ disk[next[c]] # Absent
      /\ next'[c] = next[c] + 1
      /\ UNCHANGED <<current, fileSize, copy, client, disk, told>>
  BY DEF SendData, OpensFile, At, Send, Functions, history
<1>3. next[c] = h + s /\ h + s \in Indices
  BY <1>1, <1>2, PoolAssumption DEF BegunWith, Indices
<1>4. told[c][h + s] = disk[next[c]] /\ told[c][h + s] \in Nat
  <2>1. told[c][h + s] = disk[next[c]]
    BY <1>1, <1>2, <1>3 DEF BegunWith
  <2>2. told[c][h + s] \in -1 .. MaxSize /\ told[c][h + s] # -1
    BY <1>2, <1>3, <2>1 DEF Functions, Sizes, Absent
  <2> QED
    BY <2>1, <2>2, PoolAssumption
<1>5. stream'[c] = Units(told[c], Pre(c), h, s, told[c][h + s])
  <2>1. Rest(c, h, s) = 0
    BY <1>2 DEF Rest
  <2>2. stream[c] = Units(told[c], Pre(c), h, s, 0) /\ Pre(c) \in 0 .. 1 /\ told[c] \in Sizes
    BY <1>1, <2>1, RestType
  <2>3. h \in Nat /\ s \in Nat
    OBVIOUS
  <2>4. Units(told[c], Pre(c), h, s, 0) \o [k \in 1 .. told[c][h + s] |-> Data]
          = Units(told[c], Pre(c), h, s, told[c][h + s])
    <3> DEFINE n == told[c][h + s]
    <3>1. n \in Nat
      BY <1>4
    <3> HIDE DEF n
    <3>2. Units(told[c], Pre(c), h, s, 0) \o [k \in 1 .. n |-> Data] = Units(told[c], Pre(c), h, s, n)
      BY <1>1, <2>2, <2>3, <3>1, DataAppended
    <3> QED
      BY <3>2 DEF n
  <2> QED
    BY <1>2, <1>4, <2>2, <2>4
<1>6. (stream[c] = Units(told[c], Pre(c), h, s, IF s > 0 THEN told[c][h + s] ELSE fileSize[c]))'
  <2>1. s = 0 => fileSize[c] = told[c][h + s]
    BY <1>1, <1>2 DEF BegunWith
  <2>2. (stream[c] = Units(told[c], Pre(c), h, s, told[c][h + s]))'
    BY <1>2, <1>5 DEF Pre
  <2>3. ((IF s > 0 THEN told[c][h + s] ELSE fileSize[c]) = told[c][h + s])'
    BY <1>2, <2>1
  <2> QED
    BY <2>2, <2>3
<1>7. BegunWith(c, h, s)'
  <2>1. /\ thread'[c] \in {"size", "loop"} /\ next'[c] = h + s + 1
        /\ thread'[c] = "loop" <=> next'[c] = Files + 1
        /\ current'[c] = IF client'[c] = "data" THEN h ELSE h + 1
    BY <1>1, <1>2, <1>3, PoolAssumption DEF BegunWith, Indices
  <2>2. \A f \in h + 1 .. h + s - 1 : told'[c][f] = 0
    BY <1>1, <1>2 DEF BegunWith
  <2>3. (stream[c] = Units(told[c], IF client[c] = "connected" THEN 1 ELSE 0, h, s,
                       IF thread[c] = "data" THEN 0 ELSE IF s > 0 THEN told[c][h + s] ELSE fileSize[c]))'
    BY <1>6, <2>1 DEF Pre
  <2>4. copy'[c] = [f \in Indices |-> IF f < h THEN told'[c][f] ELSE IF f = h THEN told'[c][f] - fileSize'[c] ELSE 0]
    BY <1>1, <1>2 DEF BegunWith
  <2>5. /\ client'[c] \in {"connected", "size", "data", "session"}
        /\ client'[c] = "connected" => h = 0
        /\ client'[c] = "size" => h < Files
        /\ client'[c] = "data" => h >= 1
        /\ client'[c] = "session" => h = Files
        /\ fileSize'[c] \in -1 .. MaxSize /\ (client'[c] # "data" => fileSize'[c] <= 0)
        /\ h = 0 => fileSize'[c] = 0
        /\ h >= 1 => fileSize'[c] <= told'[c][h] /\ (told'[c][h] >= 0 => fileSize'[c] >= 0)
        /\ fileSize'[c] > 0 => s = 0
    BY <1>1, <1>2 DEF BegunWith
  <2>6. ASSUME NEW f \in 1 .. h + s PROVE told'[c][f] >= 0
    <3>1. told[c][f] >= 0 \/ f = h + s
      BY <1>1 DEF BegunWith
    <3>2. told[c][f] >= 0
      BY <1>4, <3>1
    <3> QED
      BY <1>2, <3>2
  <2> QED
    BY <2>1, <2>2, <2>3, <2>4, <2>5, <2>6 DEF BegunWith
<1> QED
  BY <1>1, <1>7 DEF Begun

LEMMA ContentsRead ==
  ASSUME Functions, NEW c \in Clients, ReceiveContents(c), Begun(c), ~garbled'[c]
  PROVE  Begun(c)'
<1>1. PICK h \in 0 .. Files, s \in 0 .. Files : h + s <= Files /\ BegunWith(c, h, s)
  BY DEF Begun
<1>2. /\ client[c] = "connected" /\ client'[c] = (IF 1 > Files THEN "session" ELSE "size")
      /\ stream'[c] = SubSeq(stream[c], 2, Len(stream[c]))
      /\ UNCHANGED <<thread, next, current, fileSize, copy, disk, told>>
  BY DEF ReceiveContents, Takes, Goes, AfterFile, ClientOnly, serverVars, Functions
<1>3. h = 0
  BY <1>1, <1>2 DEF BegunWith
<1>4. stream'[c] = Units(told[c], 0, h, s, Rest(c, h, s))
  <2>1. stream[c] = Units(told[c], 1, h, s, Rest(c, h, s)) /\ Rest(c, h, s) \in Nat /\ told[c] \in Sizes
    <3>1. /\ stream[c] = Units(told[c], Pre(c), h, s, Rest(c, h, s)) /\ Rest(c, h, s) \in 0 .. MaxSize
          /\ told[c] \in Sizes
      BY <1>1, RestType
    <3>2. Pre(c) = 1
      BY <1>2 DEF Pre
    <3> QED
      BY <3>1, <3>2, PoolAssumption
  <2>2. h \in Nat /\ s \in Nat
    OBVIOUS
  <2>3. SubSeq(stream[c], 2, Len(stream[c])) = Units(told[c], 0, h, s, Rest(c, h, s))
    BY <1>1, <2>1, <2>2, ContentsTaken
  <2> QED
    BY <1>2, <2>3
<1>5. (stream[c] = Units(told[c], 0, h, s, Rest(c, h, s)))'
  BY <1>2, <1>4 DEF Units, Unit, Rest
<1>6. BegunWith(c, h, s)'
  BY <1>1, <1>2, <1>3, <1>5, PoolAssumption DEF BegunWith, Rest
<1> QED
  BY <1>1, <1>6 DEF Begun

LEMMA SizeRead ==
  ASSUME Functions, NEW c \in Clients, ReceiveSize(c), Begun(c)
  PROVE  Begun(c)'
<1>1. PICK h \in 0 .. Files, s \in 0 .. Files : h + s <= Files /\ BegunWith(c, h, s)
  BY DEF Begun
<1>2. /\ client[c] = "size" /\ stream[c] # <<>>
      /\ stream'[c] = SubSeq(stream[c], 2, Len(stream[c]))
      /\ UNCHANGED <<thread, next, current, copy, disk, told>>
  BY DEF ReceiveSize, Takes, Goes, ClientOnly, serverVars, Functions
<1>3. /\ Pre(c) = 0 /\ h < Files /\ told[c] \in Sizes
      /\ h \in Nat /\ s \in Nat /\ Rest(c, h, s) \in Nat
      /\ stream[c] = Units(told[c], 0, h, s, Rest(c, h, s))
  <2>1. Pre(c) = 0 /\ h < Files
    BY <1>1, <1>2 DEF BegunWith, Pre
  <2>2. /\ Rest(c, h, s) \in 0 .. MaxSize /\ stream[c] = Units(told[c], Pre(c), h, s, Rest(c, h, s))
        /\ told[c] \in Sizes
    BY <1>1, RestType
  <2> QED
    BY <2>1, <2>2, PoolAssumption
<1>4. s >= 1
  <2>1. ASSUME s = 0 PROVE FALSE
    <3>1. Rest(c, h, s) = 0
      <4>1. fileSize[c] <= 0 /\ Rest(c, h, s) \in {0, fileSize[c]}
        BY <1>1, <1>2, <2>1 DEF BegunWith, Rest
      <4> QED
        BY <1>1, <1>3, <4>1 DEF BegunWith
    <3>2. Units(told[c], 0, h, 0, 0) = <<>>
      BY <1>3, NoUnits
    <3> QED
      BY <1>2, <1>3, <2>1, <3>1, <3>2
  <2> QED
    BY <2>1
<1>5. h + 1 \in Indices /\ told[c][h + 1] \in -1 .. MaxSize /\ (h >= 1 => fileSize[c] = 0)
  <2>1. h + 1 \in Indices /\ told[c][h + 1] \in -1 .. MaxSize
    BY <1>3, PoolAssumption DEF Sizes, Indices
  <2>2. h >= 1 => told[c][h] >= 0
    BY <1>1, <1>3, <1>4 DEF BegunWith
  <2> QED
    BY <1>1, <1>2, <2>1, <2>2 DEF BegunWith
<1>6. Head(stream[c]) = SizeIs(told[c][h + 1])
  <2>1. IsUnits(stream[c], 0 + s + Rest(c, h, s), told[c], 0, h, s)
    BY <1>1, <1>3, UnitsType
  <2>2. stream[c][1] = SizeIs(told[c][h + 1])
    BY <1>3, <1>4, <2>1 DEF IsUnits, Unit
  <2> QED
    BY <2>2
<1>7. client'[c] = "data" /\ fileSize'[c] = told[c][h + 1]
  BY <1>6 DEF ReceiveSize, Goes, SizeIs, Functions
<1>8. stream'[c] = Units(told[c], 0, h + 1, s - 1, Rest(c, h, s))
  <2>1. SubSeq(stream[c], 2, Len(stream[c])) = Units(told[c], 0, h + 1, s - 1, Rest(c, h, s))
    BY <1>1, <1>3, <1>4, SizeTaken
  <2> QED
    BY <1>2, <2>1
<1>9. (Rest(c, h + 1, s - 1))' = Rest(c, h, s)
  <2>1. (h + 1) + (s - 1) = h + s
    BY <1>3
  <2> QED
    BY <1>2, <1>4, <1>7, <2>1 DEF Rest
<1>10. (stream[c] = Units(told[c], 0, h + 1, s - 1, Rest(c, h + 1, s - 1)))'
  BY <1>2, <1>8, <1>9 DEF Units, Unit
<1>11. told[c][h + 1] > 0 => s - 1 = 0
  <2>1. h + 1 <= h + s - 1 => told[c][h + 1] = 0
    BY <1>1, <1>3 DEF BegunWith
  <2> QED
    BY <1>4, <1>5, <2>1, PoolAssumption
<1>12. copy'[c] = [f \in Indices |-> IF f < h + 1 THEN told[c][f] ELSE IF f = h + 1 THEN told[c][f] - told[c][h + 1] ELSE 0]
  <2>1. copy[c] = [f \in Indices |-> IF f < h THEN told[c][f] ELSE IF f = h THEN told[c][f] - 0 ELSE 0]
    <3>1. copy[c] = [f \in Indices |-> IF f < h THEN told[c][f] ELSE IF f = h THEN told[c][f] - fileSize[c] ELSE 0]
      BY <1>1 DEF BegunWith
    <3>2. \A f \in Indices : f = h => fileSize[c] = 0
      BY <1>5, PoolAssumption DEF Indices
    <3> QED
      BY <3>1, <3>2
  <2>2. ASSUME NEW f \in Indices
        PROVE  (IF f < h THEN told[c][f] ELSE IF f = h THEN told[c][f] - 0 ELSE 0)
                 = IF f < h + 1 THEN told[c][f] ELSE IF f = h + 1 THEN told[c][f] - told[c][h + 1] ELSE 0
    BY <1>3, <1>5, <2>2, PoolAssumption DEF Indices, Sizes
  <2>3. copy[c] = [f \in Indices |-> IF f < h + 1 THEN told[c][f] ELSE IF f = h + 1 THEN told[c][f] - told[c][h + 1] ELSE 0]
    BY <2>1, <2>2, Zenon
  <2>4. copy' = copy
    BY <1>2
  <2> QED
    BY <2>3, <2>4, Zenon
<1>13. BegunWith(c, h + 1, s - 1)'
  <2>1. \A f \in h + 2 .. h + s - 1 : told[c][f] = 0
    BY <1>1, <1>3 DEF BegunWith
  <2>2. \A f \in (h + 1) + 1 .. (h + 1) + (s - 1) - 1 : told'[c][f] = 0
    BY <1>2, <1>3, <2>1
  <2>3. (stream[c] = Units(told[c], IF client[c] = "connected" THEN 1 ELSE 0, h + 1, s - 1,
                       IF thread[c] = "data" THEN 0
                       ELSE IF s - 1 > 0 THEN told[c][(h + 1) + (s - 1)] ELSE fileSize[c]))'
    BY <1>7, <1>10 DEF Rest
  <2>4. /\ next'[c] = IF thread'[c] = "data" THEN (h + 1) + (s - 1) ELSE (h + 1) + (s - 1) + 1
        /\ thread'[c] = "loop" <=> next'[c] = Files + 1
        /\ current'[c] = h + 1 /\ thread'[c] \in {"size", "data", "loop"}
    BY <1>1, <1>2, <1>3 DEF BegunWith
  <2>5. /\ client'[c] = "data" /\ h + 1 >= 1 /\ fileSize'[c] = told'[c][h + 1] /\ fileSize'[c] \in -1 .. MaxSize
        /\ fileSize'[c] > 0 => s - 1 = 0
    BY <1>2, <1>3, <1>5, <1>7, <1>11
  <2>6. copy'[c] = [f \in Indices |-> IF f < h + 1 THEN told'[c][f]
                                     ELSE IF f = h + 1 THEN told'[c][f] - fileSize'[c] ELSE 0]
    BY <1>2, <1>7, <1>12
  <2>7. (h + 1) + (s - 1) = h + s
    BY <1>3
  <2>8. /\ thread'[c] = "data" => (h + 1) + (s - 1) >= 1 /\ told'[c][(h + 1) + (s - 1)] = disk'[(h + 1) + (s - 1)]
        /\ \A f \in 1 .. (h + 1) + (s - 1) : told'[c][f] >= 0 \/ (f = (h + 1) + (s - 1) /\ thread'[c] = "data")
    BY <1>1, <1>2, <2>7 DEF BegunWith
  <2> QED
    BY <1>3, <2>2, <2>3, <2>4, <2>5, <2>6, <2>8 DEF BegunWith
<1> QED
  <2>1. h + 1 \in 0 .. Files /\ s - 1 \in 0 .. Files /\ (h + 1) + (s - 1) <= Files
    BY <1>1, <1>3, <1>4, PoolAssumption
  <2> QED
    BY <1>13, <2>1 DEF Begun

LEMMA DataRead ==
  ASSUME Functions, NEW c \in Clients, ReceiveData(c), Begun(c)
  PROVE  Begun(c)'
<1>1. PICK h \in 0 .. Files, s \in 0 .. Files : h + s <= Files /\ BegunWith(c, h, s)
  BY DEF Begun
<1>2. /\ client[c] = "data" /\ fileSize[c] > 0
      /\ UNCHANGED <<thread, next, current, disk, told>>
  BY DEF ReceiveData, MoreToCome, ClientOnly, serverVars
<1>3. PICK n \in 1 .. Len(stream[c]) :
        /\ stream'[c] = SubSeq(stream[c], n + 1, Len(stream[c]))
        /\ fileSize'[c] = fileSize[c] - n
        /\ copy'[c] = [copy[c] EXCEPT ![current[c]] = @ + n]
        /\ client'[c] = IF \A k \in 1 .. n : stream[c][k] = Data THEN "data" ELSE "lost"
  BY DEF ReceiveData, Takes, Goes, Functions
<1>4. /\ h \in Indices /\ h \in Nat /\ s = 0 /\ current[c] = h /\ fileSize[c] \in 1 .. MaxSize
      /\ fileSize[c] <= told[c][h] /\ told[c][h] \in 0 .. MaxSize
  <2>1. /\ h \in Indices /\ h \in Nat /\ s = 0 /\ current[c] = h /\ fileSize[c] \in 1 .. MaxSize
        /\ fileSize[c] <= told[c][h]
    BY <1>1, <1>2, PoolAssumption DEF BegunWith, Indices
  <2>2. told[c][h] \in -1 .. MaxSize
    BY <2>1 DEF Functions, Sizes
  <2> QED
    BY <2>1, <2>2, PoolAssumption
<1>5. /\ Len(stream[c]) = Rest(c, h, 0) /\ Rest(c, h, 0) \in 0 .. MaxSize
      /\ stream[c] = Units(told[c], 0, h, 0, Rest(c, h, 0))
      /\ \A k \in 1 .. Len(stream[c]) : stream[c][k] = Data
  <2>1. Pre(c) = 0
    BY <1>2 DEF Pre
  <2>2. /\ Rest(c, h, s) \in 0 .. MaxSize
        /\ stream[c] = Units(told[c], Pre(c), h, s, Rest(c, h, s))
        /\ IsUnits(stream[c], Pre(c) + s + Rest(c, h, s), told[c], Pre(c), h, s)
    BY <1>1, RestType
  <2>3. IsUnits(stream[c], 0 + 0 + Rest(c, h, 0), told[c], 0, h, 0)
    BY <1>4, <2>1, <2>2
  <2> QED
    BY <1>4, <2>1, <2>2, <2>3, PoolAssumption DEF IsUnits, Unit
<1>6. thread[c] # "data" /\ Rest(c, h, 0) = fileSize[c]
  <2>1. thread[c] = "data" => Rest(c, h, 0) = 0
    BY DEF Rest
  <2>2. thread[c] # "data"
    BY <1>3, <1>5, <2>1
  <2> QED
    BY <2>2 DEF Rest
<1>7. n \in 1 .. fileSize[c] /\ client'[c] = "data" /\ fileSize'[c] \in 0 .. MaxSize
  BY <1>3, <1>4, <1>5, <1>6, PoolAssumption
<1>8. stream'[c] = Units(told[c], 0, h, 0, fileSize[c] - n)
  <2>1. fileSize[c] \in Nat /\ n \in 0 .. fileSize[c] /\ h <= Files
    BY <1>4, <1>7, PoolAssumption DEF Indices
  <2>2. SubSeq(Units(told[c], 0, h, 0, fileSize[c]), n + 1, Len(Units(told[c], 0, h, 0, fileSize[c]))) = Units(told[c], 0, h, 0, fileSize[c] - n)
    BY <1>4, <2>1, DataTaken DEF Functions
  <2> QED
    BY <1>3, <1>5, <1>6, <2>2
<1>9. (stream[c] = Units(told[c], 0, h, 0, fileSize[c]))'
  BY <1>2, <1>3, <1>8 DEF Units, Unit
<1>10. copy'[c] = [f \in Indices |-> IF f < h THEN told[c][f] ELSE IF f = h THEN told[c][f] - fileSize'[c] ELSE 0]
  <2>1. copy[c] = [f \in Indices |-> IF f < h THEN told[c][f] ELSE IF f = h THEN told[c][f] - fileSize[c] ELSE 0]
    BY <1>1 DEF BegunWith
  <2>2. told[c][h] - fileSize[c] + n = told[c][h] - fileSize'[c]
    BY <1>3, <1>4, <1>7, PoolAssumption
  <2>3. copy'[c] = [f \in Indices |-> IF f = h THEN copy[c][f] + n ELSE copy[c][f]]
    BY <1>3, <1>4, <2>1
  <2>4. ASSUME NEW f \in Indices
        PROVE  (IF f = h THEN copy[c][f] + n ELSE copy[c][f])
                 = IF f < h THEN told[c][f] ELSE IF f = h THEN told[c][f] - fileSize'[c] ELSE 0
    <3>1. CASE f = h
      BY <1>4, <2>1, <2>2, <3>1
    <3>2. CASE f # h
      BY <1>4, <2>1, <3>2
    <3> QED
      BY <3>1, <3>2
  <2> QED
    BY <2>3, <2>4
<1>11. fileSize'[c] <= told[c][h]
  BY <1>3, <1>4, <1>7, PoolAssumption
<1>12. BegunWith(c, h, 0)'
  <2>1. BegunWith(c, h, 0)
    BY <1>1, <1>4
  <2>2. fileSize'[c] \in -1 .. MaxSize /\ fileSize'[c] >= 0 /\ h >= 1 /\ thread'[c] # "data" /\ client'[c] = "data"
    BY <1>2, <1>4, <1>6, <1>7, PoolAssumption DEF Indices
  <2>3. copy'[c] = [f \in Indices |-> IF f < h THEN told'[c][f] ELSE IF f = h THEN told'[c][f] - fileSize'[c] ELSE 0]
    BY <1>2, <1>10
  <2>4. fileSize'[c] <= told'[c][h]
    BY <1>2, <1>11
  <2> QED
    BY <1>2, <1>9, <2>1, <2>2, <2>3, <2>4 DEF BegunWith
<1> QED
  BY <1>1, <1>4, <1>12 DEF Begun

LEMMA FileRead ==
  ASSUME Functions, NEW c \in Clients, FileDone(c), Begun(c)
  PROVE  Begun(c)'
<1>1. PICK h \in 0 .. Files, s \in 0 .. Files : h + s <= Files /\ BegunWith(c, h, s)
  BY DEF Begun
<1>2. /\ client[c] = "data" /\ ~(fileSize[c] > 0)
      /\ current'[c] = current[c] + 1
      /\ client'[c] = (IF current[c] + 1 > Files THEN "session" ELSE "size")
      /\ UNCHANGED <<thread, next, disk, stream, fileSize, copy, told>>
  BY DEF FileDone, Goes, AfterFile, MoreToCome, ClientOnly, serverVars, Functions
<1>3. fileSize[c] <= 0 /\ current[c] = h
  BY <1>1, <1>2, PoolAssumption DEF BegunWith
<1>4. (stream[c] = Units(told[c], IF client[c] = "connected" THEN 1 ELSE 0, h, s,
                       IF thread[c] = "data" THEN 0 ELSE IF s > 0 THEN told[c][h + s] ELSE fileSize[c]))'
  BY <1>1, <1>2 DEF BegunWith, Units, Unit
<1>5. BegunWith(c, h, s)'
  BY <1>1, <1>2, <1>3, <1>4, PoolAssumption DEF BegunWith
<1> QED
  BY <1>1, <1>5 DEF Begun

-----------------------------------------------------------------------------
(* The invariant and the theorem *)

LEMMA DownInit == Init => DownInv
<1> SUFFICES ASSUME Init PROVE DownInv
  OBVIOUS
<1>1. Functions
  <2>1. Found \in Sizes /\ [f \in Indices |-> 0] \in Sizes
    BY PoolAssumption, FoundAssumption DEF Sizes
  <2> QED
    BY <2>1 DEF Init, Functions, Threads, Places
<1>2. Waiting
  BY DEF Init, Waiting
<1>3. DownloadTrue
  BY DEF Init, DownloadTrue
<1>4. ASSUME NEW c \in Clients PROVE NotBegun(c)
  BY DEF Init, NotBegun
<1> QED
  BY <1>1, <1>2, <1>3, <1>4 DEF DownInv, Faithful

\* What SendSize and Handle do to the variables of the account.
LEMMA TornKept ==
  ASSUME Functions, NEW c \in Clients, Handle(c)
  PROVE  /\ disk' \in Sizes /\ torn' \in [Clients -> BOOLEAN]
         /\ \A d \in Clients :
              ~torn'[d] /\ client[d] # "gone" =>
                ~torn[d] /\ (thread[d] = "data" /\ next[d] \in Indices => disk'[next[d]] = disk[next[d]])
<1>1. PICK f \in Indices, size \in 0 .. MaxSize \cup {Absent} :
        /\ disk' = [disk EXCEPT ![f] = size]
        /\ torn' = [d \in Clients |-> torn[d] \/ (client[d] # "gone" /\ thread[d] = "data" /\ next[d] = f)]
  BY DEF Handle
<1>2. size \in -1 .. MaxSize
  BY PoolAssumption DEF Absent
<1>3. disk' \in Sizes
  BY <1>1, <1>2 DEF Functions, Sizes
<1>4. ASSUME NEW d \in Clients
      PROVE  /\ torn'[d] \in BOOLEAN
             /\ torn'[d] <=> torn[d] \/ (client[d] # "gone" /\ thread[d] = "data" /\ next[d] = f)
  <2>1. torn[d] \in BOOLEAN
    BY DEF Functions
  <2> QED
    BY <1>1, <2>1, Zenon
<1>5. torn' \in [Clients -> BOOLEAN]
  <2>1. torn' = [d \in Clients |-> torn'[d]]
    BY <1>1, Zenon
  <2> QED
    BY <1>4, <2>1, Zenon
<1>6. ASSUME NEW d \in Clients, ~torn'[d], client[d] # "gone"
      PROVE  ~torn[d] /\ (thread[d] = "data" /\ next[d] \in Indices => disk'[next[d]] = disk[next[d]])
  <2>1. ~torn[d] /\ (thread[d] = "data" => next[d] # f)
    BY <1>4, <1>6
  <2> QED
    BY <1>1, <2>1 DEF Functions, Sizes
<1> QED
  BY <1>3, <1>5, <1>6

LEMMA FunctionsKept ==
  ASSUME Functions, Next, QueueInv'
  PROVE  Functions'
<1>1. thread' \in [Clients -> Threads] /\ client' \in [Clients -> Places]
  BY DEF QueueInv
<1>2. CASE Accept \/ AcceptFails
  BY <1>1, <1>2 DEF Accept, AcceptFails, Functions, clientVars, history
<1>3. ASSUME NEW c \in Clients, SendContents(c) \/ SendData(c) \/ ExitNoFile(c) \/ EndOfStream(c) PROVE Functions'
  BY <1>1, <1>3 DEF SendContents, SendData, ExitNoFile, EndOfStream, Send, Functions, clientVars, history
<1>4. ASSUME NEW c \in Clients, SendSize(c) PROVE Functions'
  <2>1. slow' \in [Clients -> BOOLEAN]
    <3>1. PICK b \in BOOLEAN : b = (slow[c] \/ Data \in ToSet(stream[c]))
      BY DEF Functions
    <3>2. slow' = [slow EXCEPT ![c] = b]
      BY <1>4, <3>1 DEF SendSize
    <3> QED
      BY <3>2 DEF Functions
  <2>2. told' \in [Clients -> Sizes]
    <3>1. PICK b : b = (IF client[c] = "gone" THEN told[c][next[c]] ELSE disk[next[c]])
      OBVIOUS
    <3>2. told' = [told EXCEPT ![c][next[c]] = b]
      BY <1>4, <3>1 DEF SendSize
    <3>3. next[c] \in Indices => b \in -1 .. MaxSize
      BY <3>1 DEF Functions, Sizes
    <3> QED
      BY <3>2, <3>3 DEF Functions, Sizes
  <2>3. stream' = [e \in Clients |-> stream'[e]]
    BY <1>4 DEF SendSize, Send, Functions
  <2>4. UNCHANGED <<next, current, fileSize, copy, disk, garbled, torn>>
    BY <1>4 DEF SendSize
  <2> QED
    BY <1>1, <2>1, <2>2, <2>3, <2>4 DEF Functions
<1>5. ASSUME NEW c \in Clients, Handle(c) PROVE Functions'
  <2>1. UNCHANGED <<next, current, fileSize, copy, stream, told, slow, garbled>>
    BY <1>5 DEF Handle, serverVars, clientVars
  <2> QED
    BY <1>1, <1>5, <2>1, TornKept DEF Functions
<1>6. ASSUME NEW c \in Clients, HandlerFails(c) \/ Connect(c) PROVE Functions'
  BY <1>1, <1>6 DEF HandlerFails, Connect, Functions, clientVars, history
<1>7. ASSUME NEW c \in Clients, Receive(c) PROVE Functions'
  <2>1. UNCHANGED <<next, disk, told, slow, torn>>
    BY <1>7 DEF Receive, ReceiveContents, ReceiveSize, ReceiveData, FileDone, ClientOnly, serverVars
  <2>2. /\ current' = [e \in Clients |-> current'[e]] /\ fileSize' = [e \in Clients |-> fileSize'[e]]
        /\ copy' = [e \in Clients |-> copy'[e]] /\ stream' = [e \in Clients |-> stream'[e]]
    BY <1>7 DEF Receive, ReceiveContents, ReceiveSize, ReceiveData, FileDone, Takes, Functions
  <2>3. garbled' = garbled \/ garbled' = [garbled EXCEPT ![c] = TRUE]
    BY <1>7 DEF Receive, ReceiveContents, ReceiveSize, ReceiveData, FileDone
  <2>4. garbled' \in [Clients -> BOOLEAN]
    BY <2>3 DEF Functions
  <2> QED
    BY <1>1, <2>1, <2>2, <2>4 DEF Functions
<1>8. ASSUME NEW c \in Clients, Leave(c) PROVE Functions'
  <2>1. [f \in Indices |-> 0] \in Sizes
    BY PoolAssumption DEF Sizes
  <2> QED
    BY <1>1, <1>8, <2>1 DEF Leave, Functions, serverVars
<1> QED
  BY <1>2, <1>3, <1>4, <1>5, <1>6, <1>7, <1>8 DEF Next, ServerThread

LEMMA WaitingKept ==
  ASSUME Functions, QueueInv, Waiting, Next
  PROVE  Waiting'
<1>1. CASE Accept
  <2> DEFINE c == Head(backlog)
  <2>1. c \in Clients /\ c = backlog[1] /\ Len(backlog) > 0 /\ client[c] \in {"connected", "gone"}
        /\ thread[c] = "none"
    BY <1>1 DEF Accept, QueueInv, Waiting
  <2>2. /\ Len(backlog') = Len(backlog) - 1
        /\ \A k \in 1 .. Len(backlog') : backlog'[k] = backlog[k + 1] /\ backlog'[k] # c /\ k + 1 \in 1 .. Len(backlog)
    <3>1. /\ Len(backlog') = Len(backlog) - 1
          /\ \A k \in 1 .. Len(backlog') : backlog'[k] = backlog[k + 1] /\ k + 1 \in 1 .. Len(backlog)
      BY <1>1, <2>1 DEF Accept, QueueInv
    <3> QED
      BY <2>1, <3>1 DEF QueueInv
  <2>3. \A e \in Clients \ {c} : thread'[e] = thread[e] /\ client'[e] = client[e]
    BY <1>1, <2>1 DEF Accept, Functions
  <2>4. stream' = stream
    BY <1>1 DEF Accept
  <2>5. thread'[c] = "none" => client'[c] \in {"out", "connected", "refused", "gone"}
    BY <1>1, <2>1 DEF Accept, Functions
  <2>6. \A k \in 1 .. Len(backlog') : backlog'[k] \in Clients \ {c}
    BY <2>2 DEF QueueInv
  <2> HIDE DEF c
  <2>7. \A e \in Clients : thread'[e] = "none" => client'[e] \in {"out", "connected", "refused", "gone"} /\ stream'[e] = <<>>
    <3>1. stream[c] = <<>>
      BY <2>1 DEF Waiting
    <3> QED
      BY <2>3, <2>4, <2>5, <3>1 DEF Waiting
  <2>8. \A k \in 1 .. Len(backlog') : client'[backlog'[k]] \in {"connected", "gone"}
    BY <2>2, <2>3, <2>6 DEF Waiting
  <2> QED
    BY <2>7, <2>8 DEF Waiting
<1>2. ASSUME NEW c \in Clients, ServerThread(c) \/ Handle(c) \/ HandlerFails(c) PROVE Waiting'
  <2>1. thread[c] # "none" /\ client' = client /\ backlog' = backlog
    BY <1>2 DEF ServerThread, SendContents, SendSize, SendData, ExitNoFile, EndOfStream, Handle, HandlerFails,
                Hears, At, clientVars, serverVars
  <2>2. \A e \in Clients \ {c} : thread'[e] = thread[e] /\ stream'[e] = stream[e]
    <3>1. CASE ServerThread(c)
      BY <3>1, LocalSteps DEF Local, Mine
    <3>2. CASE Handle(c)
      BY <3>2 DEF Handle, clientVars, serverVars
    <3>3. CASE HandlerFails(c)
      BY <3>3 DEF HandlerFails, clientVars, Functions
    <3> QED
      BY <1>2, <3>1, <3>2, <3>3
  <2>3. thread'[c] # "none"
    BY <1>2, ThreadIsQuiet, <2>1 DEF Quiet
  <2> QED
    BY <2>1, <2>2, <2>3 DEF Waiting
<1>3. ASSUME NEW c \in Clients, Receive(c) PROVE Waiting'
  <2>1. thread' = thread /\ backlog' = backlog
    BY <1>3 DEF Receive, ReceiveContents, ReceiveSize, ReceiveData, FileDone, ClientOnly, serverVars
  <2>2. thread[c] # "none"
    <3>1. CASE ReceiveContents(c)
      BY <3>1 DEF ReceiveContents, Waiting
    <3>2. CASE ReceiveSize(c) \/ ReceiveData(c) \/ FileDone(c)
      BY <3>2 DEF ReceiveSize, ReceiveData, FileDone, Waiting
    <3> QED
      BY <1>3, <3>1, <3>2 DEF Receive
  <2>3. \A e \in Clients \ {c} : client'[e] = client[e] /\ stream'[e] = stream[e]
    BY <1>3, LocalSteps DEF Local, Mine
  <2>4. \A k \in 1 .. Len(backlog) : backlog[k] \in Clients \ {c}
    BY <2>2 DEF QueueInv
  <2> QED
    BY <2>1, <2>2, <2>3, <2>4 DEF Waiting
<1>4. ASSUME NEW c \in Clients, Connect(c) PROVE Waiting'
  <2>1. /\ client[c] = "out" /\ client' = [client EXCEPT ![c] = "connected"]
        /\ backlog' = Append(backlog, c) /\ thread' = thread /\ stream' = stream
    BY <1>4 DEF Connect
  <2>2. \A k \in 1 .. Len(backlog') : backlog'[k] = c \/ (k \in 1 .. Len(backlog) /\ backlog'[k] = backlog[k])
    BY <2>1 DEF QueueInv
  <2>3. \A k \in 1 .. Len(backlog) : backlog[k] \in Clients
    BY DEF QueueInv
  <2> QED
    BY <2>1, <2>2, <2>3 DEF Waiting, Functions
<1>5. ASSUME NEW c \in Clients, Leave(c) PROVE Waiting'
  <2>1. /\ client' = [client EXCEPT ![c] = "gone"] /\ stream' = [stream EXCEPT ![c] = <<>>]
        /\ thread' = thread /\ backlog' = backlog
    BY <1>5 DEF Leave, Goes, serverVars
  <2>2. \A k \in 1 .. Len(backlog) : backlog[k] \in Clients
    BY DEF QueueInv
  <2> QED
    BY <2>1, <2>2 DEF Waiting, Functions
<1>6. CASE AcceptFails
  BY <1>6 DEF AcceptFails, Waiting, clientVars
<1> QED
  BY <1>1, <1>2, <1>3, <1>4, <1>5, <1>6 DEF Next

LEMMA AcceptFaithful ==
  ASSUME Functions, QueueInv, Waiting, Faithful, Accept
  PROVE  Faithful'
<1>0. PICK c \in Clients : c = Head(backlog)
  BY DEF Accept, QueueInv
<1>1. c \in Clients /\ client[c] \in {"connected", "gone"} /\ thread[c] = "none"
  BY <1>0 DEF Accept, QueueInv, Waiting
<1>2. /\ UNCHANGED <<next, stream, current, fileSize, copy, told, slow, garbled, torn, disk>>
      /\ \A e \in Clients \ {c} : thread'[e] = thread[e] /\ client'[e] = client[e]
      /\ \/ thread'[c] = "contents" /\ client'[c] = client[c]
         \/ thread'[c] = "none" /\ client'[c] = IF client[c] = "gone" THEN "gone" ELSE "refused"
  BY <1>0, <1>1 DEF Accept, Functions, history
<1>3. Local(c)
  BY <1>2 DEF Local, Mine
<1>4. ASSUME KeepsUp(c)' PROVE NotBegun(c)'
  <2>1. KeepsUp(c) /\ client[c] = "connected"
    BY <1>1, <1>2, <1>4 DEF KeepsUp, KeptUp
  <2>2. NotBegun(c)
    BY <1>1, <2>1 DEF Faithful, Begun, BegunWith
  <2> QED
    BY <1>2, <2>1, <2>2 DEF NotBegun
<1> QED
  BY <1>1, <1>3, <1>4, FaithfulByOne

LEMMA OneFaithful ==
  ASSUME Functions, Waiting, NEW c \in Clients, NotBegun(c) \/ Begun(c),
         client[c] # "gone", KeepsUp(c)', ServerThread(c) \/ Receive(c) \/ Leave(c) \/ Connect(c)
  PROVE  (NotBegun(c) \/ Begun(c))'
<1>1. CASE SendContents(c)
  <2>1. ~Begun(c)
    BY <1>1 DEF SendContents, At, Begun, BegunWith
  <2> QED
    BY <1>1, <2>1, ContentsSent
<1>2. CASE SendSize(c)
  <2>1. ~NotBegun(c) /\ ~slow'[c]
    BY <1>2 DEF SendSize, At, NotBegun, KeepsUp, KeptUp
  <2> QED
    BY <1>2, <2>1, SizeSent
<1>3. CASE SendData(c)
  <2>1. ~NotBegun(c)
    BY <1>3 DEF SendData, At, NotBegun
  <2> QED
    BY <1>3, <2>1, DataSent
<1>4. CASE ExitNoFile(c)
  <2>1. Mine(c)' = Mine(c) /\ disk' = disk
    BY <1>4 DEF ExitNoFile, Mine, clientVars, history
  <2> QED
    BY <2>1, SameFaithful
<1>5. CASE EndOfStream(c)
  BY <1>5 DEF EndOfStream
<1>6. CASE ReceiveContents(c)
  <2>1. ~NotBegun(c) /\ ~garbled'[c]
    BY <1>6 DEF ReceiveContents, NotBegun, KeepsUp, KeptUp
  <2> QED
    BY <1>6, <2>1, ContentsRead
<1>7. CASE ReceiveSize(c)
  <2>1. ~NotBegun(c)
    BY <1>7 DEF ReceiveSize, NotBegun
  <2> QED
    BY <1>7, <2>1, SizeRead
<1>8. CASE ReceiveData(c)
  <2>1. ~NotBegun(c)
    BY <1>8 DEF ReceiveData, NotBegun
  <2> QED
    BY <1>8, <2>1, DataRead
<1>9. CASE FileDone(c)
  <2>1. ~NotBegun(c)
    BY <1>9 DEF FileDone, NotBegun
  <2> QED
    BY <1>9, <2>1, FileRead
<1>10. CASE Leave(c)
  <2>1. client'[c] = "gone"
    BY <1>10 DEF Leave, Goes, Functions
  <2> QED
    BY <2>1 DEF KeepsUp
<1>11. CASE Connect(c)
  <2>1. /\ client[c] = "out" /\ client'[c] = "connected"
        /\ UNCHANGED <<thread, next, stream, current, fileSize, copy>>
    BY <1>11 DEF Connect, Functions
  <2>2. NotBegun(c)
    BY <2>1 DEF Begun, BegunWith
  <2> QED
    BY <2>1, <2>2 DEF NotBegun
<1> QED
  BY <1>1, <1>2, <1>3, <1>4, <1>5, <1>6, <1>7, <1>8, <1>9, <1>10, <1>11 DEF ServerThread, Receive

\* A client that keeps up after a step did so before it.
LEMMA KeptBefore ==
  ASSUME Functions, NEW c \in Clients, KeepsUp(c)',
         ServerThread(c) \/ Receive(c) \/ Leave(c) \/ Connect(c)
  PROVE  KeepsUp(c)
<1>1. ~slow'[c] /\ ~garbled'[c] /\ ~torn'[c] /\ client'[c] # "gone"
  BY DEF KeepsUp, KeptUp
<1>2. ~Leave(c)
  BY <1>1 DEF Leave, Goes, Functions
<1>3. ~slow[c]
  <2>1. slow' = slow \/ SendSize(c)
    BY <1>2 DEF ServerThread, SendContents, SendData, ExitNoFile, EndOfStream, Receive, ReceiveContents,
                ReceiveSize, ReceiveData, FileDone, Connect, ClientOnly, history
  <2>2. SendSize(c) => ~slow[c]
    BY <1>1 DEF SendSize, Functions
  <2> QED
    BY <1>1, <2>1, <2>2
<1>4. ~garbled[c]
  <2>1. garbled' = garbled \/ garbled' = [garbled EXCEPT ![c] = TRUE]
    BY <1>2 DEF ServerThread, SendContents, SendSize, SendData, ExitNoFile, EndOfStream, Receive, ReceiveContents,
                ReceiveSize, ReceiveData, FileDone, Connect, history
  <2> QED
    BY <1>1, <2>1 DEF Functions
<1>5. torn' = torn
  BY <1>2 DEF ServerThread, SendContents, SendSize, SendData, ExitNoFile, EndOfStream, Receive, ReceiveContents,
              ReceiveSize, ReceiveData, FileDone, Connect, ClientOnly, history
<1>6. client[c] # "gone"
  <2>1. client[c] = "gone" => client' = client
    BY <1>2 DEF ServerThread, SendContents, SendSize, SendData, ExitNoFile, EndOfStream, Receive,
                ReceiveContents, ReceiveSize, ReceiveData, FileDone, Connect, clientVars
  <2> QED
    BY <1>1, <2>1
<1> QED
  BY <1>1, <1>3, <1>4, <1>5, <1>6 DEF KeepsUp, KeptUp

LEMMA HandleFaithful ==
  ASSUME Functions, Faithful, NEW c \in Clients, Handle(c)
  PROVE  Faithful'
<1>1. UNCHANGED <<thread, next, client, stream, current, fileSize, copy, told, slow, garbled>>
  BY DEF Handle, serverVars, clientVars
<1> SUFFICES ASSUME NEW d \in Clients, KeepsUp(d)' PROVE (NotBegun(d) \/ Begun(d))'
  BY DEF Faithful
<1>2. ~torn'[d] /\ client[d] # "gone" /\ ~slow[d] /\ ~garbled[d]
  BY <1>1 DEF KeepsUp, KeptUp
<1>3. ~torn[d] /\ (thread[d] = "data" /\ next[d] \in Indices => disk'[next[d]] = disk[next[d]])
  BY <1>2, TornKept
<1>4. NotBegun(d) \/ Begun(d)
  BY <1>2, <1>3 DEF Faithful, KeepsUp, KeptUp
<1>5. torn'[d] = torn[d]
  <2>1. torn'[d] \in BOOLEAN /\ torn[d] \in BOOLEAN
    BY TornKept DEF Functions
  <2> QED
    BY <1>2, <1>3, <2>1
<1>6. Mine(d)' = Mine(d)
  BY <1>1, <1>5 DEF Mine
<1> QED
  BY <1>3, <1>4, <1>6, SameFaithful

LEMMA FaithfulKept ==
  ASSUME Functions, QueueInv, Waiting, Faithful, Next
  PROVE  Faithful' \/ (server' = "exited" /\ client' = client /\ UNCHANGED <<copy, history>>)
<1>1. CASE Accept
  BY <1>1, AcceptFaithful
<1>2. ASSUME NEW c \in Clients, Handle(c) PROVE Faithful'
  BY <1>2, HandleFaithful
<1>3. CASE AcceptFails \/ \E c \in Clients : HandlerFails(c)
  BY <1>3 DEF AcceptFails, HandlerFails, clientVars
<1>4. ASSUME NEW c \in Clients, ServerThread(c) \/ Receive(c) \/ Leave(c) \/ Connect(c) PROVE Faithful'
  <2>1. Local(c)
    BY <1>4, LocalSteps
  <2>2. ASSUME KeepsUp(c)' PROVE (NotBegun(c) \/ Begun(c))'
    <3>1. KeepsUp(c)
      BY <1>4, <2>2, KeptBefore
    <3>2. (NotBegun(c) \/ Begun(c)) /\ client[c] # "gone"
      BY <3>1 DEF Faithful, KeepsUp
    <3> QED
      BY <1>4, <2>2, <3>2, OneFaithful
  <2> QED
    BY <2>1, <2>2, FaithfulByOne
<1> QED
  BY <1>1, <1>2, <1>3, <1>4 DEF Next

LEMMA FaithfulTrue == Functions /\ Faithful => DownloadTrue
<1> SUFFICES ASSUME Functions, Faithful, NEW c \in Clients, KeptUp(c)
             PROVE  /\ client[c] # "lost"
                    /\ client[c] = "session" =>
                         \A f \in Indices : copy[c][f] = IF told[c][f] = Absent THEN 0 ELSE told[c][f]
  BY DEF DownloadTrue
<1>1. CASE client[c] = "gone"
  BY <1>1
<1>2. CASE client[c] # "gone" /\ NotBegun(c)
  BY <1>2 DEF NotBegun
<1>3. CASE client[c] # "gone" /\ Begun(c)
  <2>1. PICK h \in 0 .. Files, s \in 0 .. Files : h + s <= Files /\ BegunWith(c, h, s)
    BY <1>3 DEF Begun
  <2>2. client[c] # "lost"
    BY <2>1 DEF BegunWith
  <2>3. ASSUME client[c] = "session", NEW f \in Indices
        PROVE  copy[c][f] = IF told[c][f] = Absent THEN 0 ELSE told[c][f]
    <3>1. h = Files /\ f \in 1 .. h + s /\ told[c][f] \in -1 .. MaxSize
      BY <2>1, <2>3, PoolAssumption DEF BegunWith, Indices, Functions, Sizes
    <3>2. copy[c][f] = IF f < h THEN told[c][f] ELSE told[c][f] - fileSize[c]
      <4>1. copy[c] = [g \in Indices |-> IF g < h THEN told[c][g] ELSE IF g = h THEN told[c][g] - fileSize[c] ELSE 0]
        BY <2>1 DEF BegunWith
      <4>2. f <= h
        BY <3>1, PoolAssumption DEF Indices
      <4> QED
        BY <4>1, <4>2, PoolAssumption DEF Indices
    <3>3. /\ fileSize[c] \in -1 .. MaxSize /\ fileSize[c] <= 0
          /\ h >= 1 => fileSize[c] <= told[c][h] /\ (told[c][h] >= 0 => fileSize[c] >= 0)
          /\ \A g \in 1 .. h + s : told[c][g] >= 0 \/ g = h + s
      BY <2>1, <2>3 DEF BegunWith
    <3>4. s = 0
      BY <2>1, <3>1, PoolAssumption
    <3>5. CASE f < h
      <4>1. told[c][f] >= 0
        BY <3>1, <3>3, <3>4, <3>5, PoolAssumption DEF Indices
      <4> QED
        BY <3>1, <3>2, <3>5, <4>1, PoolAssumption DEF Absent
    <3>6. CASE ~(f < h)
      <4>1. f = h /\ h >= 1
        BY <3>1, <3>6, PoolAssumption DEF Indices
      <4>2. fileSize[c] = IF told[c][f] = -1 THEN -1 ELSE 0
        BY <3>1, <3>3, <4>1, PoolAssumption
      <4> QED
        BY <3>1, <3>2, <3>6, <4>2, PoolAssumption DEF Absent
    <3> QED
      BY <3>5, <3>6
  <2> QED
    BY <2>2, <2>3
<1> QED
  BY <1>1, <1>2, <1>3 DEF Faithful, KeepsUp

LEMMA DownInvNext == DownInv /\ QueueInv /\ QueueInv' /\ [Next]_vars => DownInv'
<1> SUFFICES ASSUME DownInv, QueueInv, QueueInv', [Next]_vars PROVE DownInv'
  OBVIOUS
<1>1. CASE UNCHANGED vars
  <2>1. UNCHANGED <<server, backlog, thread, next, disk, client, stream, current, fileSize, copy, told, slow,
                    garbled, torn>>
    BY <1>1 DEF vars, serverVars, clientVars, history
  <2>2. Functions' /\ Waiting'
    BY <2>1 DEF DownInv, Functions, Waiting
  <2>3. DownloadTrue'
    BY <2>1 DEF DownInv, DownloadTrue, KeptUp
  <2>4. ASSUME server' = "up", NEW c \in Clients, KeepsUp(c)' PROVE (NotBegun(c) \/ Begun(c))'
    <3>1. KeepsUp(c) /\ Mine(c)' = Mine(c) /\ disk' = disk
      BY <2>1, <2>4 DEF KeepsUp, KeptUp, Mine
    <3>2. NotBegun(c) \/ Begun(c)
      BY <2>1, <2>4, <3>1 DEF DownInv, Faithful
    <3> QED
      BY <3>1, <3>2, SameFaithful
  <2> QED
    BY <2>2, <2>3, <2>4 DEF DownInv, Faithful
<1>2. CASE Next
  <2>1. Functions /\ Waiting /\ Faithful /\ DownloadTrue
    BY <1>2 DEF DownInv, Next
  <2>2. Functions' /\ Waiting'
    BY <1>2, <2>1, FunctionsKept, WaitingKept
  <2>3. CASE Faithful'
    <3>1. (Functions /\ Faithful => DownloadTrue)'
      BY FaithfulTrue, PTL
    <3> QED
      BY <2>2, <2>3, <3>1 DEF DownInv
  <2>4. CASE server' = "exited" /\ client' = client /\ UNCHANGED <<copy, history>>
    <3>1. DownloadTrue'
      BY <2>1, <2>4 DEF DownloadTrue, KeptUp, history
    <3> QED
      BY <2>2, <2>4, <3>1 DEF DownInv
  <2> QED
    BY <1>2, <2>1, <2>3, <2>4, FaithfulKept
<1> QED
  BY <1>1, <1>2

\* For every number of slots, clients and files of every size, whatever the
\* sessions change: a client that has read the contents as they were sent and reads
\* as fast as the server sends has each file as long as it was told, unless one was
\* changed between its size and its data (lines 175-209 of the server, 506-543 of
\* the client).
THEOREM DownloadIsTrue == Spec => []DownloadTrue
<1>1. PoolInv => QueueInv
  BY DEF PoolInv
<1>2. DownInv => DownloadTrue
  BY DEF DownInv
<1> QED
  BY <1>1, <1>2, PoolInvInit, PoolInvNext, DownInit, DownInvNext, PTL DEF Spec

=============================================================================
