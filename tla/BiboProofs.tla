---------------------------- MODULE BiboProofs -----------------------------
(***************************************************************************)
(* Midterm_HW3: the waiting queue of biboServer.c is a first-in first-out  *)
(* queue for every MAX_SIZE and every set of elements; the loops of a child *)
(* and of its client run in step, whatever the requests; readF() answers   *)
(* with what it was asked for, for a file of any length.                   *)
(***************************************************************************)
EXTENDS BiboQueue, BiboSession, BiboReadF, Lemmas, SequenceTheorems

LEMMA IndicesInArray ==
  ASSUME QueueTypeOK, ~isEmpty
  PROVE  /\ MaxSize \in Int /\ front \in Int /\ rear \in Int
         /\ 0 <= front /\ front <= rear /\ rear <= MaxSize - 1
<1>1. front \in 0 .. MaxSize - 1 /\ rear \in front .. MaxSize - 1
  BY DEF QueueTypeOK
<1> QED
  BY <1>1, QueueAssumption

\* The indices of the queue stay in the array, front at or before rear, under
\* every sequence of enqueue() and dequeue() (lines 42-79).
THEOREM QueueTypeCorrect == QueueSpec => []QueueTypeOK
<1>1. QueueInit => QueueTypeOK
  BY QueueAssumption DEF QueueInit, QueueTypeOK, isEmpty
<1>2. QueueTypeOK /\ [QueueNext]_queueVars => QueueTypeOK'
  <2> SUFFICES ASSUME QueueTypeOK, [QueueNext]_queueVars PROVE QueueTypeOK'
    OBVIOUS
  <2>1. ASSUME NEW data \in Data, Append_(data) PROVE QueueTypeOK'
    <3>1. items' \in [0 .. MaxSize - 1 -> Data \cup {NoItem}]
      BY <2>1 DEF QueueTypeOK, Append_
    <3>2. CASE isEmpty
      BY <2>1, <3>1, <3>2, QueueAssumption DEF QueueTypeOK, Append_, NewFront, isEmpty
    <3>3. CASE ~isEmpty
      <4>1. front' = front /\ rear' = rear + 1 /\ rear # MaxSize - 1
        BY <2>1, <3>3 DEF Append_, NewFront, isFull
      <4>2. front' \in 0 .. MaxSize - 1 /\ rear' \in front' .. MaxSize - 1
        BY <3>3, <4>1, IndicesInArray
      <4> QED
        BY <3>1, <4>2 DEF QueueTypeOK
    <3> QED
      BY <3>2, <3>3
  <2>2. CASE dequeue
    <3>1. items' = items
      BY <2>2 DEF dequeue
    <3>2. CASE isEmpty \/ LastOne
      BY <2>2, <3>1, <3>2 DEF QueueTypeOK, dequeue, isEmpty
    <3>3. CASE ~isEmpty /\ ~LastOne
      <4>1. front' = front + 1 /\ rear' = rear /\ front # rear
        BY <2>2, <3>3 DEF dequeue, LastOne
      <4>2. front' \in 0 .. MaxSize - 1 /\ rear' \in front' .. MaxSize - 1
        BY <3>3, <4>1, IndicesInArray
      <4> QED
        BY <3>1, <4>2 DEF QueueTypeOK
    <3> QED
      BY <3>2, <3>3
  <2>3. CASE UNCHANGED queueVars
    BY <2>3 DEF queueVars, QueueTypeOK, isEmpty
  <2> QED
    BY <2>1, <2>2, <2>3 DEF QueueNext, enqueue, Refuse
<1> QED
  BY <1>1, <1>2, PTL DEF QueueSpec

\* The elements between the indices form a sequence of data.  Those that
\* enqueue() wrote are data, the others need not be.
Written == isEmpty \/ \A i \in front .. rear : items[i] \in Data

LEMMA ContentsType ==
  ASSUME QueueTypeOK, Written
  PROVE  /\ Contents \in Seq(Data)
         /\ Len(Contents) = IF isEmpty THEN 0 ELSE rear - front + 1
         /\ Len(Contents) <= MaxSize
<1>1. CASE isEmpty
  BY <1>1, QueueAssumption DEF Contents
<1>2. CASE ~isEmpty
  <2>1. rear - front + 1 \in Nat /\ rear - front + 1 <= MaxSize
    BY <1>2, QueueAssumption DEF QueueTypeOK
  <2>2. \A i \in 1 .. rear - front + 1 : items[front + i - 1] \in Data
    BY <1>2, QueueAssumption DEF QueueTypeOK, Written
  <2> QED
    BY <1>2, <2>1, <2>2 DEF Contents
<1> QED
  BY <1>1, <1>2

LEMMA WrittenInvariant == QueueSpec => [](QueueTypeOK /\ Written)
<1>1. QueueInit => Written
  BY DEF QueueInit, Written, isEmpty
<1>2. QueueTypeOK /\ Written /\ [QueueNext]_queueVars => Written'
  <2> SUFFICES ASSUME QueueTypeOK, Written, [QueueNext]_queueVars PROVE Written'
    OBVIOUS
  <2> USE QueueAssumption DEF QueueTypeOK, isEmpty, Written
  <2>1. ASSUME NEW data \in Data, Append_(data) PROVE Written'
    BY <2>1 DEF Append_, isFull, NewFront
  <2>2. CASE dequeue
    BY <2>2 DEF dequeue, LastOne
  <2>3. CASE UNCHANGED queueVars
    BY <2>3 DEF queueVars
  <2> QED
    BY <2>1, <2>2, <2>3 DEF QueueNext, enqueue, Refuse
<1> QED
  BY <1>1, <1>2, QueueTypeCorrect, PTL DEF QueueSpec

\* enqueue() appends to the contents, dequeue() removes their head.
LEMMA AppendStep ==
  ASSUME QueueTypeOK, Written, NEW data \in Data, Append_(data), QueueTypeOK', Written'
  PROVE  Abstract!Put(data)
<1> USE QueueAssumption DEF QueueTypeOK
<1>1. Len(Contents) < MaxSize
  BY ContentsType DEF Append_, isFull, isEmpty
<1>2. CASE isEmpty
  <2>1. front' = 0 /\ rear' = 0 /\ items'[0] = data
    BY <1>2 DEF Append_, NewFront, isEmpty
  <2>2. Contents' = [i \in 1 .. 1 |-> data]
    BY <2>1 DEF Contents, isEmpty
  <2>3. Contents = <<>>
    BY <1>2 DEF Contents
  <2> QED
    BY <1>1, <2>2, <2>3 DEF Abstract!Put
<1>3. CASE ~isEmpty
  <2>1. front' = front /\ rear' = rear + 1 /\ items' = [items EXCEPT ![rear + 1] = data]
    BY <1>3 DEF Append_, NewFront
  <2>2. /\ MaxSize \in Int /\ front \in Int /\ rear \in Int
        /\ 0 <= front /\ front <= rear /\ rear < MaxSize - 1
    BY <1>3, IndicesInArray DEF Append_, isFull
  <2>3. Contents = [i \in 1 .. rear - front + 1 |-> items[front + i - 1]]
    BY <1>3 DEF Contents
  <2>4. Contents' = [i \in 1 .. rear - front + 2 |-> items'[front + i - 1]]
    <3>1. ~isEmpty' /\ rear' - front' + 1 = rear - front + 2
      BY <2>1, <2>2 DEF isEmpty
    <3> QED
      BY <2>1, <3>1 DEF Contents
  <2>5. Contents \in Seq(Data) /\ Len(Contents) = rear - front + 1
    BY <1>3, ContentsType
  <2>6. Contents' \in Seq(Data) /\ Len(Contents') = rear - front + 2
    <3>1. ASSUME NEW i \in 1 .. rear - front + 2 PROVE items'[front + i - 1] \in Data
      <4>1. front + i - 1 \in front .. rear'
        BY <2>1, <2>2
      <4>2. ~isEmpty'
        BY <2>1, <2>2 DEF isEmpty
      <4> QED
        BY <2>1, <4>1, <4>2 DEF Written
    <3> QED
      BY <2>2, <2>4, <3>1
  <2>7. ASSUME NEW i \in 1 .. rear - front + 2
        PROVE  Contents'[i] = Append(Contents, data)[i]
    <3>1. CASE i = rear - front + 2
      <4>1. front + i - 1 = rear + 1 /\ rear + 1 \in 0 .. MaxSize - 1
        BY <2>2, <3>1
      <4>2. Contents'[i] = data
        BY <2>1, <2>4, <4>1 DEF QueueTypeOK
      <4>3. i = Len(Contents) + 1
        BY <2>2, <2>5, <3>1
      <4> QED
        BY <2>5, <4>2, <4>3, AppendProperties
    <3>2. CASE i # rear - front + 2
      <4>1. i \in 1 .. rear - front + 1 /\ front + i - 1 # rear + 1
        BY <2>2, <3>2
      <4>2. Contents'[i] = items[front + i - 1]
        <5>1. front + i - 1 \in 0 .. MaxSize - 1
          BY <2>2, <4>1
        <5> QED
          BY <2>1, <2>4, <4>1, <5>1 DEF QueueTypeOK
      <4>3. Contents[i] = items[front + i - 1]
        BY <2>3, <4>1
      <4> QED
        BY <2>5, <4>1, <4>2, <4>3, AppendProperties
    <3> QED
      BY <3>1, <3>2
  <2>8. Append(Contents, data) \in Seq(Data) /\ Len(Append(Contents, data)) = rear - front + 2
    BY <2>2, <2>5, AppendProperties
  <2>9. Contents' = Append(Contents, data)
    BY <2>6, <2>7, <2>8, SeqEqual
  <2> QED
    BY <1>1, <2>9 DEF Abstract!Put
<1> QED
  BY <1>2, <1>3

LEMMA DequeueStep ==
  ASSUME QueueTypeOK, Written, dequeue, QueueTypeOK', Written'
  PROVE  Abstract!Take \/ UNCHANGED Contents
<1> USE QueueAssumption DEF QueueTypeOK
<1>1. CASE isEmpty
  BY <1>1 DEF dequeue, Contents, isEmpty
<1>2. CASE ~isEmpty /\ LastOne
  <2>1. Contents = [i \in 1 .. 1 |-> items[front]]
    BY <1>2 DEF Contents, LastOne, isEmpty
  <2>2. Contents' = <<>>
    BY <1>2 DEF Contents, dequeue, isEmpty
  <2> QED
    BY <2>1, <2>2 DEF Abstract!Take
<1>3. CASE ~isEmpty /\ ~LastOne
  <2>1. front' = front + 1 /\ rear' = rear /\ items' = items
    BY <1>3 DEF dequeue
  <2>2. /\ MaxSize \in Int /\ front \in Int /\ rear \in Int
        /\ 0 <= front /\ front < rear /\ rear <= MaxSize - 1
    BY <1>3, IndicesInArray DEF LastOne
  <2>3. Contents = [i \in 1 .. rear - front + 1 |-> items[front + i - 1]]
    BY <1>3 DEF Contents
  <2>4. Contents' = [i \in 1 .. rear - front |-> items[front + 1 + i - 1]]
    <3>1. ~isEmpty' /\ rear' - front' + 1 = rear - front
      BY <2>1, <2>2 DEF isEmpty
    <3> QED
      BY <2>1, <3>1 DEF Contents
  <2>5. Contents \in Seq(Data) /\ Len(Contents) = rear - front + 1 /\ Contents # <<>>
    <3>1. Contents \in Seq(Data) /\ Len(Contents) = rear - front + 1
      BY <1>3, ContentsType
    <3> QED
      BY <2>2, <3>1, EmptySeq
  <2>6. Contents' \in Seq(Data) /\ Len(Contents') = rear - front
    <3>1. ASSUME NEW i \in 1 .. rear - front PROVE items[front + 1 + i - 1] \in Data
      <4>1. front + 1 + i - 1 \in front .. rear
        BY <2>2
      <4> QED
        BY <1>3, <4>1 DEF Written
    <3>2. rear - front \in Nat
      BY <2>2
    <3> QED
      BY <2>4, <3>1, <3>2
  <2>7. ASSUME NEW i \in 1 .. rear - front PROVE Contents'[i] = Tail(Contents)[i]
    <3>1. i + 1 \in 1 .. rear - front + 1 /\ front + 1 + i - 1 = front + (i + 1) - 1
      BY <2>2
    <3>2. Contents'[i] = items[front + (i + 1) - 1]
      BY <2>4, <3>1
    <3>3. Contents[i + 1] = items[front + (i + 1) - 1]
      BY <2>3, <3>1
    <3>4. i \in 1 .. Len(Tail(Contents))
      BY <2>2, <2>5, HeadTailProperties
    <3> QED
      BY <2>5, <3>2, <3>3, <3>4, HeadTailProperties
  <2>8. Tail(Contents) \in Seq(Data) /\ Len(Tail(Contents)) = rear - front
    BY <2>2, <2>5, HeadTailProperties
  <2>9. Contents' = Tail(Contents)
    BY <2>6, <2>7, <2>8, SeqEqual
  <2> QED
    BY <2>5, <2>9 DEF Abstract!Take
<1> QED
  BY <1>1, <1>2, <1>3

\* The array with its two indices implements the first-in first-out queue: no
\* client that waits is lost, overtaken or served twice by the queue itself.
THEOREM QueueImplementsFifo == QueueSpec => ImplementsFifo
<1>1. QueueInit => Abstract!Init
  BY DEF QueueInit, Abstract!Init, Contents, isEmpty
<1>2. /\ QueueTypeOK /\ Written /\ QueueTypeOK' /\ Written'
      /\ [QueueNext]_queueVars
      => [Abstract!Next]_Contents
  <2> SUFFICES ASSUME QueueTypeOK, Written, QueueTypeOK', Written', [QueueNext]_queueVars
               PROVE  [Abstract!Next]_Contents
    OBVIOUS
  <2>1. ASSUME NEW data \in Data, Append_(data) PROVE Abstract!Next
    BY <2>1, AppendStep DEF Abstract!Next
  <2>2. CASE dequeue
    BY <2>2, DequeueStep DEF Abstract!Next
  <2>3. CASE UNCHANGED queueVars
    BY <2>3 DEF queueVars, Contents, isEmpty
  <2> QED
    BY <2>1, <2>2, <2>3 DEF QueueNext, enqueue, Refuse
<1> QED
  BY <1>1, <1>2, WrittenInvariant, PTL DEF QueueSpec, ImplementsFifo, Abstract!Spec

-----------------------------------------------------------------------------
(* The session.  The invariant says, for every place of the client, where  *)
(* the child is and what the two FIFOs hold; once the client is gone the    *)
(* two are no longer in step, and need not be.                              *)

Header(r) == [part |-> "length", of |-> r, units |-> Announced(r)]

\* k units, and the same behind the length of their answer.
Run(k, u)    == [i \in 1 .. k |-> u]
Led(k, h, u) == [i \in 1 .. k + 1 |-> IF i = 1 THEN h ELSE u]

\* The request is on its way, or the child has it and has answered nothing.
Requested ==
  /\ s2c = <<>>
  /\ \/ child = "length" /\ c2s = <<LengthOf(request), UnitOf(request)>>
     \/ child = "text" /\ c2s = <<UnitOf(request)>>
     \/ child = "answer" /\ message = request /\ c2s = <<>>

\* The child has written the length of the answer and k units of it.
AnsweredTo(k) ==
  /\ c2s = <<>> /\ request \in Answered /\ k \in 0 .. Units[request]
  /\ \/ k < Units[request] /\ child = "body" /\ message = request /\ left = Units[request] - k
     \/ k = Units[request] /\ child = IF request = "quit" THEN "exited" ELSE "length"

\* Nothing is under way: the child left the request without an answer.
Silent == c2s = <<>> /\ s2c = <<>> /\ child \in {"length", "exited"}

\* killServer was answered by the end of the child and of the server.
ServerEnded == c2s = <<>> /\ s2c = <<>> /\ NoWriter

AtPrompt ==
  /\ client = "prompt" /\ c2s = <<>> /\ s2c = <<>> /\ (child = "length" \/ NoWriter)
  /\ screen # <<>> => screen = [i \in 1 .. Units[request] |-> request]

HasSentLength ==
  /\ client = "text" /\ s2c = <<>>
  /\ \/ child = "length" /\ c2s = <<LengthOf(request)>>
     \/ child = "text" /\ c2s = <<>>

AwaitsAnswer ==
  /\ client = IF request = "quit" THEN "bye" ELSE "length"
  /\ \/ Requested
     \/ \E k \in Nat : AnsweredTo(k) /\ s2c = Led(k, Header(request), UnitOf(request))
     \/ Silent

ReadsAnswer ==
  /\ client = "body" /\ request # "quit" /\ len \in Nat
  /\ \/ /\ len = Units[request]
        /\ \E k \in Nat : AnsweredTo(k) /\ s2c = Run(k, UnitOf(request))
     \/ ServerEnded

SessionInv ==
  /\ request \in Requests
  /\ client = "gone" \/ partly \/ AtPrompt \/ HasSentLength \/ AwaitsAnswer \/ ReadsAnswer

LEMMA UnitsType ==
  ASSUME NEW r \in Answered
  PROVE  Units[r] \in Nat /\ Announced(r) = Units[r]
BY SessionAssumption DEF Announced

\* How the sequences grow and are read.
LEMMA RunsOfUnits ==
  ASSUME NEW k \in Nat, NEW h, NEW u
  PROVE  /\ Len(Run(k, u)) = k /\ Run(0, u) = <<>> /\ (k > 0 => Run(k, u) # <<>>)
         /\ Append(Run(k, u), u) = Run(k + 1, u)
         /\ SubSeq(Run(k, u), k + 1, Len(Run(k, u))) = <<>>
<1>1. Run(k, u) \in Seq({u}) /\ Len(Run(k, u)) = k /\ \A i \in 1 .. k : Run(k, u)[i] = u
  BY DEF Run
<1>2. /\ Run(k + 1, u) \in Seq({u}) /\ Len(Run(k + 1, u)) = k + 1
      /\ \A i \in 1 .. k + 1 : Run(k + 1, u)[i] = u
  BY DEF Run
<1>3. Run(0, u) = <<>>
  BY DEF Run
<1>4. k > 0 => Run(k, u) # <<>>
  BY <1>1
<1>5. Append(Run(k, u), u) = Run(k + 1, u)
  <2> DEFINE long == Append(Run(k, u), u)
  <2>1. /\ long \in Seq({u}) /\ Len(long) = k + 1 /\ long[k + 1] = u
        /\ \A i \in 1 .. k : long[i] = Run(k, u)[i]
    BY <1>1, AppendProperties
  <2> HIDE DEF long
  <2>2. \A i \in 1 .. k + 1 : long[i] = Run(k + 1, u)[i]
    BY <1>1, <1>2, <2>1
  <2>3. long = Run(k + 1, u)
    BY <1>2, <2>1, <2>2, SeqEqual
  <2> QED
    BY <2>3 DEF long
<1>6. SubSeq(Run(k, u), k + 1, Len(Run(k, u))) = <<>>
  BY <1>1, SubSeqEmpty
<1> QED
  BY <1>1, <1>3, <1>4, <1>5, <1>6

LEMMA LedReads ==
  ASSUME NEW k \in Nat, NEW h, NEW u
  PROVE  /\ Led(k, h, u) # <<>> /\ Head(Led(k, h, u)) = h /\ Tail(Led(k, h, u)) = Run(k, u)
         /\ Led(0, h, u) = <<h>>
<1> DEFINE here == Led(k, h, u)
           rest == Tail(here)
<1>1. /\ here \in Seq({h, u}) /\ Len(here) = k + 1 /\ here[1] = h
      /\ \A i \in 2 .. k + 1 : here[i] = u
  BY DEF Led
<1>2. Run(k, u) \in Seq({h, u}) /\ Len(Run(k, u)) = k /\ \A i \in 1 .. k : Run(k, u)[i] = u
  BY DEF Run
<1>3. Led(0, h, u) = <<h>>
  BY DEF Led
<1> HIDE DEF here
<1>4. here # <<>> /\ Head(here) = h
  BY <1>1
<1>5. /\ rest \in Seq({h, u}) /\ Len(rest) = k /\ \A i \in 1 .. k : rest[i] = here[i + 1]
  BY <1>1, <1>4, HeadTailProperties
<1> HIDE DEF rest
<1>6. rest = Run(k, u)
  <2>1. \A i \in 1 .. k : rest[i] = Run(k, u)[i]
    BY <1>1, <1>2, <1>5
  <2> QED
    BY <1>2, <1>5, <2>1, SeqEqual
<1> QED
  BY <1>3, <1>4, <1>6 DEF here, rest

LEMMA LedGrows ==
  ASSUME NEW k \in Nat, NEW h, NEW u
  PROVE  Append(Led(k, h, u), u) = Led(k + 1, h, u)
<1> DEFINE here == Led(k, h, u)
           next == Led(k + 1, h, u)
           long == Append(here, u)
<1>1. /\ here \in Seq({h, u}) /\ Len(here) = k + 1 /\ here[1] = h
      /\ \A i \in 2 .. k + 1 : here[i] = u
  BY DEF Led
<1>2. /\ next \in Seq({h, u}) /\ Len(next) = k + 2 /\ next[1] = h
      /\ \A i \in 2 .. k + 2 : next[i] = u
  BY DEF Led
<1> HIDE DEF here, next
<1>3. /\ long \in Seq({h, u}) /\ Len(long) = k + 2 /\ long[k + 2] = u
      /\ \A i \in 1 .. k + 1 : long[i] = here[i]
  <2>1. u \in {h, u} /\ Len(here) + 1 = k + 2
    BY <1>1
  <2> QED
    BY <1>1, <2>1, AppendProperties
<1> HIDE DEF long
<1>4. \A i \in 1 .. k + 2 : long[i] = next[i]
  BY <1>1, <1>2, <1>3
<1>5. long = next
  BY <1>2, <1>3, <1>4, SeqEqual
<1> QED
  BY <1>5 DEF here, next, long

\* A message taken from the FIFO, its head or all of it.
LEMMA ShortFifos ==
  ASSUME NEW u, NEW v
  PROVE  /\ Head(<<u>>) = u /\ Tail(<<u>>) = <<>> /\ Len(<<u>>) = 1 /\ <<u>> # <<>>
         /\ Head(<<u, v>>) = u /\ Tail(<<u, v>>) = <<v>> /\ Len(<<u, v>>) = 2
         /\ <<u, v>> # <<>> /\ Append(<<>>, u) = <<u>> /\ Append(<<u>>, v) = <<u, v>>
         /\ Len(<<>>) = 0
<1>1. Head(<<u>>) = u /\ Tail(<<u>>) = <<>> /\ Len(<<u>>) = 1 /\ <<u>> # <<>>
  OBVIOUS
<1>2. Head(<<u, v>>) = u /\ Len(<<u, v>>) = 2
  OBVIOUS
<1>3. <<u, v>> # <<>>
  OBVIOUS
<1>4. Append(<<>>, u) = <<u>> /\ Len(<<>>) = 0
  OBVIOUS
<1>5. Append(<<u>>, v) = <<u, v>>
  <2> DEFINE long == Append(<<u>>, v)
             pair == <<u, v>>
  <2>1. <<u>> \in Seq({u, v})
    OBVIOUS
  <2>2. long \in Seq({u, v}) /\ Len(long) = 2 /\ long[1] = u /\ long[2] = v
    BY <2>1, AppendProperties
  <2>3. pair \in Seq({u, v}) /\ Len(pair) = 2 /\ pair[1] = u /\ pair[2] = v
    OBVIOUS
  <2> HIDE DEF long, pair
  <2>4. \A i \in 1 .. Len(long) : long[i] = pair[i]
    BY <2>2, <2>3
  <2>5. long = pair
    BY <2>2, <2>3, <2>4, SeqEqual
  <2> QED
    BY <2>5 DEF long, pair
<1>6. Tail(<<u, v>>) = <<v>>
  OBVIOUS
<1> QED
  BY <1>1, <1>2, <1>3, <1>4, <1>5, <1>6

LEMMA SendLengthKeepsStep ==
  ASSUME SessionInv, SendLength
  PROVE  SessionInv'
<1> USE DEF SendLength, SessionInv, Send
<1>1. UNCHANGED <<len, screen, partly, childVars, s2c, serverUp>> /\ request' \in Requests
  OBVIOUS
<1>2. CASE child = "exited" \/ partly
  BY <1>1, <1>2
<1>3. CASE child # "exited" /\ ~partly
  <2>1. child = "length" /\ c2s = <<>> /\ s2c = <<>>
    BY <1>1, <1>3 DEF AtPrompt, HasSentLength, AwaitsAnswer, ReadsAnswer, NoWriter
  <2>2. client' = "text" /\ c2s' = <<LengthOf(request')>> /\ child' = "length" /\ s2c' = <<>>
    BY <1>1, <1>3, <2>1, ShortFifos DEF childVars
  <2>3. HasSentLength'
    BY <2>2 DEF HasSentLength, LengthOf
  <2> QED
    BY <1>1, <2>3
<1> QED
  BY <1>2, <1>3

LEMMA SendTextKeepsStep ==
  ASSUME SessionInv, SendText
  PROVE  SessionInv'
<1>1. /\ request \in Requests /\ client = "text"
      /\ UNCHANGED <<request, len, screen, partly, childVars, s2c, serverUp>>
  BY DEF SendText, SessionInv
<1>2. CASE partly
  BY <1>1, <1>2 DEF SessionInv
<1>3. CASE ~partly
  <2>1. HasSentLength
    BY <1>1, <1>3 DEF SessionInv, AtPrompt, HasSentLength, AwaitsAnswer, ReadsAnswer
  <2>2. child # "exited" /\ s2c = <<>>
    BY <2>1 DEF HasSentLength
  <2>3. /\ client' = IF request = "quit" THEN "bye" ELSE "length"
        /\ c2s' = Append(c2s, UnitOf(request)) /\ s2c' = <<>> /\ child' = child
        /\ request' = request
    BY <1>1, <2>2 DEF SendText, Send, childVars
  <2>4. Requested'
    <3>1. CASE child = "length" /\ c2s = <<LengthOf(request)>>
      BY <2>3, <3>1, ShortFifos DEF Requested, LengthOf, UnitOf
    <3>2. CASE child = "text" /\ c2s = <<>>
      BY <2>3, <3>2, ShortFifos DEF Requested, UnitOf
    <3> QED
      BY <2>1, <3>1, <3>2 DEF HasSentLength
  <2> QED
    BY <1>1, <2>3, <2>4 DEF SessionInv, AwaitsAnswer
<1> QED
  BY <1>2, <1>3

LEMMA ReadLengthKeepsStep ==
  ASSUME SessionInv, ReadLength
  PROVE  SessionInv'
<1>1. /\ client = "length" /\ request \in Requests /\ client' = "body"
      /\ UNCHANGED <<request, screen, partly, childVars, c2s, serverUp>>
  BY DEF ReadLength, SessionInv
<1>2. request' = request /\ child' = child /\ message' = message /\ left' = left
      /\ c2s' = c2s /\ serverUp' = serverUp /\ partly' = partly
  BY <1>1 DEF childVars
<1>3. CASE partly
  BY <1>1, <1>2, <1>3 DEF SessionInv
<1>4. CASE ~partly
  <2>1. AwaitsAnswer /\ request # "quit"
    BY <1>1, <1>4 DEF SessionInv, AtPrompt, HasSentLength, AwaitsAnswer, ReadsAnswer
  <2>2. ASSUME NEW k \in Nat, AnsweredTo(k), s2c = Led(k, Header(request), UnitOf(request))
        PROVE  ReadsAnswer'
    <3>1. s2c # <<>> /\ Head(s2c) = Header(request) /\ Tail(s2c) = Run(k, UnitOf(request))
      BY <2>2, LedReads
    <3>2. len' = Announced(request) /\ s2c' = Run(k, UnitOf(request))
      BY <3>1 DEF ReadLength, Header
    <3>3. len' = Units[request'] /\ len' \in Nat /\ s2c' = Run(k, UnitOf(request'))
      BY <1>2, <2>2, <3>2, UnitsType DEF AnsweredTo
    <3>4. AnsweredTo(k)'
      BY <1>2, <2>2 DEF AnsweredTo
    <3>5. Run(k, UnitOf(request')) = Run(k, UnitOf(request))'
      BY DEF Run, UnitOf
    <3> QED
      BY <1>1, <1>2, <2>1, <3>3, <3>4, <3>5 DEF ReadsAnswer
  <2>3. ASSUME s2c = <<>> PROVE ReadsAnswer'
    <3>1. NoWriter /\ len' \in 0 .. MaxUnits /\ s2c' = <<>>
      BY <2>3 DEF ReadLength
    <3>2. c2s = <<>>
      BY <2>1, <2>3, <3>1, LedReads DEF AwaitsAnswer, Requested, AnsweredTo, Silent, NoWriter
    <3> QED
      BY <1>1, <1>2, <2>1, <3>1, <3>2 DEF ReadsAnswer, ServerEnded, NoWriter
  <2> QED
    BY <1>1, <1>2, <2>1, <2>2, <2>3 DEF SessionInv, AwaitsAnswer, Requested, Silent
<1> QED
  BY <1>3, <1>4

LEMMA ReadBodyKeepsStep ==
  ASSUME SessionInv, ReadBody
  PROVE  SessionInv'
<1> DEFINE n == IF len < Len(s2c) THEN len ELSE Len(s2c)
<1>1. /\ request \in Requests /\ client = "body" /\ client' = "prompt" /\ BodyThere
      /\ partly' = (partly \/ (0 < n /\ n < len))
      /\ screen' = [i \in 1 .. n |-> s2c[i].of] /\ s2c' = SubSeq(s2c, n + 1, Len(s2c))
      /\ UNCHANGED <<request, len, childVars, c2s, serverUp>>
  BY DEF ReadBody, SessionInv
<1>2. request' = request /\ child' = child /\ c2s' = c2s /\ serverUp' = serverUp
  BY <1>1 DEF childVars
<1>3. CASE partly'
  BY <1>1, <1>2, <1>3 DEF SessionInv
<1>4. CASE ~partly'
  <2>1. ReadsAnswer /\ ~(0 < n /\ n < len)
    BY <1>1, <1>4 DEF SessionInv, AtPrompt, HasSentLength, AwaitsAnswer, ReadsAnswer
  <2>2. ASSUME NEW k \in Nat, AnsweredTo(k), s2c = Run(k, UnitOf(request)), len = Units[request]
        PROVE  AtPrompt'
    <3>1. request \in Answered /\ Units[request] \in Nat /\ k <= len /\ len \in Nat
      BY <2>2, UnitsType DEF AnsweredTo
    <3>2. Len(s2c) = k /\ n = k
      <4>1. Len(s2c) = k
        BY <2>2, RunsOfUnits, Zenon
      <4> QED
        BY <3>1, <4>1
    <3>3. k = len
      <4>1. CASE k = 0 /\ len # 0
        <5>1. s2c = <<>> /\ child = "body"
          BY <2>2, <3>1, <4>1, RunsOfUnits DEF AnsweredTo
        <5> QED
          BY <1>1, <4>1, <5>1 DEF BodyThere, NoWriter
      <4>2. CASE k # 0
        BY <2>1, <3>1, <3>2, <4>2
      <4> QED
        BY <4>1, <4>2
    <3>4. child = "length" /\ c2s = <<>>
      BY <2>1, <2>2, <3>1, <3>3 DEF AnsweredTo, ReadsAnswer
    <3>5. s2c' = <<>>
      <4>1. SubSeq(s2c, k + 1, Len(s2c)) = <<>>
        BY <2>2, RunsOfUnits, Zenon
      <4> HIDE DEF n
      <4> QED
        BY <1>1, <3>2, <4>1
    <3>6. screen' = [i \in 1 .. Units[request] |-> request]
      <4>1. \A i \in 1 .. k : s2c[i].of = request
        BY <2>2 DEF Run, UnitOf
      <4> HIDE DEF n
      <4> QED
        BY <1>1, <2>2, <3>2, <3>3, <4>1
    <3> QED
      BY <1>1, <1>2, <3>4, <3>5, <3>6 DEF AtPrompt
  <2>3. ASSUME ServerEnded PROVE AtPrompt'
    <3>1. s2c = <<>> /\ c2s = <<>> /\ NoWriter /\ len \in Nat /\ n = 0 /\ Len(s2c) = 0
      BY <2>1, <2>3 DEF ServerEnded, ReadsAnswer
    <3>2. screen' = [i \in 1 .. 0 |-> s2c[i].of] /\ s2c' = SubSeq(s2c, 1, 0)
      BY <1>1, <3>1
    <3>3. screen' = <<>> /\ s2c' = <<>>
      BY <3>1, <3>2
    <3> QED
      BY <1>1, <1>2, <3>1, <3>3 DEF AtPrompt, NoWriter
  <2> QED
    BY <1>1, <1>2, <2>1, <2>2, <2>3 DEF SessionInv, ReadsAnswer
<1> QED
  BY <1>3, <1>4

LEMMA ReadByeKeepsStep ==
  ASSUME SessionInv, ReadBye
  PROVE  SessionInv'
BY DEF ReadBye, SessionInv

LEMMA InterruptKeepsStep ==
  ASSUME SessionInv, Interrupt
  PROVE  SessionInv'
BY DEF Interrupt, SessionInv

\* The child leaves the client's variables alone; once the client is gone, or has
\* read a part of an answer, it may do as it likes.
LEMMA ChildReadsKeepStep ==
  ASSUME SessionInv, ChildReadLength \/ ChildReadText
  PROVE  SessionInv'
<1>1. client' = client /\ request' = request /\ len' = len /\ screen' = screen /\ s2c' = s2c
      /\ request \in Requests /\ serverUp' = serverUp /\ partly' = partly
  BY DEF ChildReadLength, ChildReadText, clientVars, SessionInv
<1>2. CASE client = "gone" \/ partly
  BY <1>1, <1>2 DEF SessionInv
<1>3. CASE client # "gone" /\ ~partly
  <2>1. c2s # <<>> /\ c2s' = Tail(c2s)
    BY <1>3 DEF ChildReadLength, ChildReadText
  <2>2. \/ child = "length" /\ child' = "text"
        \/ child = "text" /\ child' = "answer" /\ message' = Head(c2s).of
    BY <1>3 DEF ChildReadLength, ChildReadText
  <2>3. CASE HasSentLength
    <3>1. child = "length" /\ c2s = <<LengthOf(request)>>
      BY <2>1, <2>3 DEF HasSentLength
    <3>2. child' = "text" /\ c2s' = <<>>
      BY <2>1, <2>2, <3>1, ShortFifos
    <3> QED
      BY <1>1, <2>3, <3>2 DEF SessionInv, HasSentLength
  <2>4. CASE AwaitsAnswer
    <3>1. Requested
      BY <2>1, <2>4 DEF AwaitsAnswer, AnsweredTo, Silent
    <3>2. CASE child = "length" /\ c2s = <<LengthOf(request), UnitOf(request)>>
      <4>1. child' = "text" /\ c2s' = <<UnitOf(request)>>
        BY <2>1, <2>2, <3>2, ShortFifos
      <4> QED
        BY <1>1, <2>4, <3>1, <4>1 DEF SessionInv, AwaitsAnswer, Requested, UnitOf
    <3>3. CASE child = "text" /\ c2s = <<UnitOf(request)>>
      <4>1. child' = "answer" /\ c2s' = <<>> /\ message' = request
        BY <2>1, <2>2, <3>3, ShortFifos DEF UnitOf
      <4> QED
        BY <1>1, <2>4, <3>1, <4>1 DEF SessionInv, AwaitsAnswer, Requested
    <3> QED
      BY <2>1, <3>1, <3>2, <3>3 DEF Requested
  <2> QED
    BY <1>3, <2>1, <2>3, <2>4 DEF SessionInv, AtPrompt, ReadsAnswer, AnsweredTo, ServerEnded
<1> QED
  BY <1>2, <1>3

\* A child that answers does so while the client waits for it, and nothing else
\* is under way.
LEMMA AnswersARequest ==
  ASSUME SessionInv, client # "gone", ~partly, child = "answer"
  PROVE  AwaitsAnswer /\ Requested /\ message = request /\ c2s = <<>> /\ s2c = <<>>
<1>1. AwaitsAnswer /\ Requested
  BY DEF SessionInv, AtPrompt, HasSentLength, AwaitsAnswer, ReadsAnswer, AnsweredTo, Silent,
         ServerEnded, NoWriter
<1> QED
  BY <1>1 DEF Requested

LEMMA AnswerLengthKeepsStep ==
  ASSUME SessionInv, AnswerLength
  PROVE  SessionInv'
<1>1. /\ client' = client /\ request' = request /\ len' = len /\ screen' = screen
      /\ c2s' = c2s /\ message' = message /\ serverUp' = serverUp /\ partly' = partly
      /\ request \in Requests /\ child = "answer" /\ message \in Answered
  BY DEF AnswerLength, clientVars, SessionInv
<1>2. CASE client = "gone" \/ partly
  BY <1>1, <1>2 DEF SessionInv
<1>3. CASE client # "gone" /\ ~partly
  <2>1. AwaitsAnswer /\ message = request /\ c2s = <<>> /\ s2c = <<>>
    BY <1>1, <1>3, AnswersARequest
  <2>2. request \in Answered /\ Units[request] \in Nat
    BY <1>1, <2>1, UnitsType
  <2>3. /\ s2c' = <<Header(request)>> /\ left' = Units[request]
        /\ child' = AfterUnits(Units[request], request)
    BY <1>3, <2>1, ShortFifos DEF AnswerLength, Write, Header
  <2>4. AnsweredTo(0)'
    BY <1>1, <2>1, <2>2, <2>3 DEF AnsweredTo, AfterUnits
  <2>5. s2c' = Led(0, Header(request'), UnitOf(request'))
    BY <1>1, <2>3, LedReads
  <2>6. Led(0, Header(request'), UnitOf(request')) = Led(0, Header(request), UnitOf(request))'
    BY DEF Led, Header, UnitOf, Announced
  <2>7. AwaitsAnswer'
    <3>1. 0 \in Nat /\ client' = IF request' = "quit" THEN "bye" ELSE "length"
      BY <1>1, <2>1 DEF AwaitsAnswer
    <3> QED
      BY <2>4, <2>5, <2>6, <3>1 DEF AwaitsAnswer
  <2> QED
    BY <1>1, <2>7 DEF SessionInv
<1> QED
  BY <1>2, <1>3

LEMMA AnswerUnitKeepsStep ==
  ASSUME SessionInv, AnswerUnit
  PROVE  SessionInv'
<1>1. /\ client' = client /\ request' = request /\ len' = len /\ screen' = screen
      /\ c2s' = c2s /\ message' = message /\ serverUp' = serverUp /\ partly' = partly
      /\ request \in Requests /\ child = "body"
  BY DEF AnswerUnit, clientVars, SessionInv
<1>2. CASE client = "gone" \/ partly
  BY <1>1, <1>2 DEF SessionInv
<1>3. CASE client # "gone" /\ ~partly
  <2>1. \/ /\ AwaitsAnswer
           /\ \E k \in Nat : AnsweredTo(k) /\ s2c = Led(k, Header(request), UnitOf(request))
        \/ /\ ReadsAnswer /\ len = Units[request]
           /\ \E k \in Nat : AnsweredTo(k) /\ s2c = Run(k, UnitOf(request))
    BY <1>1, <1>3
       DEF SessionInv, AtPrompt, HasSentLength, AwaitsAnswer, ReadsAnswer, Requested, Silent,
           ServerEnded, NoWriter
  <2>2. ASSUME NEW k \in Nat, AnsweredTo(k)
        PROVE  AnsweredTo(k + 1)' /\ s2c' = Append(s2c, UnitOf(request))
    <3>1. /\ k < Units[request] /\ message = request /\ left = Units[request] - k
          /\ request \in Answered /\ Units[request] \in Nat /\ c2s = <<>>
      BY <1>1, <2>2, UnitsType DEF AnsweredTo
    <3>2. /\ s2c' = Append(s2c, UnitOf(request)) /\ left' = left - 1
          /\ child' = AfterUnits(left - 1, request)
      BY <1>3, <3>1 DEF AnswerUnit, Write
    <3>3. /\ k + 1 < Units[request] => child' = "body"
          /\ k + 1 = Units[request] => child' = IF request = "quit" THEN "exited" ELSE "length"
          /\ k + 1 \in 0 .. Units[request] /\ left' = Units[request] - (k + 1)
      <4>1. left - 1 = Units[request] - (k + 1) /\ k + 1 \in 0 .. Units[request]
        BY <3>1
      <4>2. k + 1 < Units[request] => left - 1 > 0
        BY <3>1
      <4>3. k + 1 = Units[request] => ~(left - 1 > 0)
        BY <3>1
      <4> QED
        BY <3>2, <4>1, <4>2, <4>3 DEF AfterUnits
    <3> QED
      BY <1>1, <3>1, <3>2, <3>3 DEF AnsweredTo
  <2>3. ASSUME NEW k \in Nat, AwaitsAnswer, AnsweredTo(k),
               s2c = Led(k, Header(request), UnitOf(request))
        PROVE  AwaitsAnswer'
    <3>1. k + 1 \in Nat /\ AnsweredTo(k + 1)'
      BY <2>2, <2>3
    <3>2. s2c' = Led(k + 1, Header(request), UnitOf(request))
      <4>1. s2c' = Append(s2c, UnitOf(request))
        BY <2>2, <2>3
      <4> QED
        BY <2>3, <4>1, LedGrows
    <3>3. Led(k + 1, Header(request), UnitOf(request))
            = Led(k + 1, Header(request), UnitOf(request))'
      BY <1>1 DEF Led, Header, UnitOf, Announced
    <3>4. client' = IF request' = "quit" THEN "bye" ELSE "length"
      BY <1>1, <2>3 DEF AwaitsAnswer
    <3> QED
      BY <3>1, <3>2, <3>3, <3>4 DEF AwaitsAnswer
  <2>4. ASSUME NEW k \in Nat, ReadsAnswer, len = Units[request], AnsweredTo(k),
               s2c = Run(k, UnitOf(request))
        PROVE  ReadsAnswer'
    <3>1. k + 1 \in Nat /\ AnsweredTo(k + 1)'
      BY <2>2, <2>4
    <3>2. s2c' = Run(k + 1, UnitOf(request))
      BY <2>2, <2>4, RunsOfUnits
    <3>3. Run(k + 1, UnitOf(request)) = Run(k + 1, UnitOf(request))'
      BY <1>1 DEF Run, UnitOf
    <3>4. client' = "body" /\ request' # "quit" /\ len' \in Nat /\ len' = Units[request']
      BY <1>1, <2>4 DEF ReadsAnswer
    <3> QED
      BY <3>1, <3>2, <3>3, <3>4 DEF ReadsAnswer
  <2> QED
    BY <1>1, <2>1, <2>3, <2>4 DEF SessionInv
<1> QED
  BY <1>2, <1>3

LEMMA OtherAnswersKeepStep ==
  ASSUME SessionInv, AnswerNothing \/ ListFails \/ KillServer
  PROVE  SessionInv'
<1>1. /\ client' \in {client, "gone"} /\ request' = request /\ c2s' = c2s /\ s2c' = s2c
      /\ request \in Requests /\ child = "answer" /\ partly' = partly
      /\ child' \in {"length", "exited"}
  <2>1. CASE AnswerNothing
    <3>1. UNCHANGED <<client, request, len, screen, partly>> /\ UNCHANGED <<c2s, s2c>>
      BY <2>1 DEF AnswerNothing, clientVars
    <3>2. child = "answer" /\ child' = "length"
      BY <2>1 DEF AnswerNothing
    <3> QED
      BY <3>1, <3>2 DEF SessionInv
  <2>2. CASE ListFails
    BY <2>2 DEF ListFails, clientVars, SessionInv
  <2>3. CASE KillServer
    BY <2>3 DEF KillServer, SessionInv
  <2> QED
    BY <2>1, <2>2, <2>3
<1>2. CASE client' = "gone" \/ partly
  BY <1>1, <1>2 DEF SessionInv
<1>3. CASE client # "gone" /\ client' = client /\ ~partly
  <2>1. AwaitsAnswer /\ c2s = <<>> /\ s2c = <<>>
    BY <1>1, <1>3, AnswersARequest
  <2>2. Silent'
    BY <1>1, <2>1 DEF Silent
  <2> QED
    BY <1>1, <1>3, <2>1, <2>2 DEF SessionInv, AwaitsAnswer
<1> QED
  BY <1>1, <1>2, <1>3

LEMMA StutterKeepsStep ==
  ASSUME SessionInv, UNCHANGED sessionVars
  PROVE  SessionInv'
BY DEF sessionVars, clientVars, childVars, SessionInv, AtPrompt, HasSentLength, AwaitsAnswer,
       ReadsAnswer, Requested, AnsweredTo, Silent, ServerEnded, NoWriter,
       LengthOf, UnitOf, Header, Run, Led, Announced

\* Whatever the user asks for and wherever he interrupts, for answers of any length
\* and pipes of any capacity: until a read() returns a part of an answer, nothing
\* is under way while he is prompted, and what he saw last is all of the answer to
\* his last request (biboServer.c 314-370, biboClient.c 66-81, 175-194).
THEOREM SessionInStep == SessionSpec => []InStep
<1>1. SessionInit => SessionInv
  BY DEF SessionInit, SessionInv, AtPrompt, Requests, Answered
<1>2. SessionInv /\ [SessionNext]_sessionVars => SessionInv'
  <2> SUFFICES ASSUME SessionInv, [SessionNext]_sessionVars PROVE SessionInv'
    OBVIOUS
  <2> QED
    BY SendLengthKeepsStep, SendTextKeepsStep, ReadLengthKeepsStep, ReadBodyKeepsStep,
       ReadByeKeepsStep, InterruptKeepsStep, ChildReadsKeepStep, AnswerLengthKeepsStep,
       AnswerUnitKeepsStep, OtherAnswersKeepStep, StutterKeepsStep
       DEF SessionNext, Client, Child
<1>3. SessionInv => InStep
  BY DEF SessionInv, InStep, AtPrompt, HasSentLength, AwaitsAnswer, ReadsAnswer
<1> QED
  BY <1>1, <1>2, <1>3, PTL DEF SessionSpec

-----------------------------------------------------------------------------
(* readF().  While the lines before are no longer than the array, pos is at *)
(* the end of line number current_line - 1; a longer one counts more than    *)
(* once, so that current_line is never behind.                              *)

Request ==
  /\ file \in Seq(Chars)
  /\ line_number \in Int

SeeksLine ==
  /\ state = "lines" /\ line_number > 0 /\ response = Nothing
  /\ pos \in 0 .. Len(file)
  /\ current_line \in Int /\ LinesUpTo(pos) < current_line /\ current_line <= line_number
  /\ Fit(current_line - 1) => pos \in {0} \cup Ends /\ LinesUpTo(pos) = current_line - 1

CopiesChars ==
  /\ state = "chars" /\ line_number <= 0 /\ pos \in 0 .. Len(file)
  /\ \A j \in 1 .. pos : file[j] # "255"
  /\ response = [says |-> "text", text |-> SubSeq(file, 1, pos)]

ReadInv ==
  /\ Request
  /\ SeeksLine \/ CopiesChars \/ (state = "done" /\ AnswerIsTrue)

LEMMA EndsType ==
  ASSUME file \in Seq(Chars)
  PROVE  /\ Len(file) \in Nat /\ Ends \in SUBSET (1 .. Len(file)) /\ IsFiniteSet(Ends)
         /\ Len(file) > 0 => Len(file) \in Ends
<1>1. Len(file) \in Nat /\ Ends \in SUBSET (1 .. Len(file)) /\ (Len(file) > 0 => Len(file) \in Ends)
  BY DEF Ends
<1>2. IsFiniteSet(1 .. Len(file))
  BY <1>1, FS_Interval
<1> QED
  BY <1>1, <1>2, FS_Subset

LEMMA LinesUpToFinite ==
  ASSUME file \in Seq(Chars), NEW k \in Int
  PROVE  IsFiniteSet({j \in Ends : j <= k})
<1>1. {j \in Ends : j <= k} \in SUBSET Ends
  OBVIOUS
<1> QED
  BY <1>1, EndsType, FS_Subset

LEMMA LinesUpToType ==
  ASSUME file \in Seq(Chars), NEW k \in Int
  PROVE  LinesUpTo(k) \in Nat /\ LineCount \in Nat /\ LinesUpTo(k) <= LineCount
<1>1. {j \in Ends : j <= k} \in SUBSET Ends
  OBVIOUS
<1> QED
  BY <1>1, EndsType, FS_Subset, FS_CardinalityType DEF LinesUpTo, LineCount

\* From p to q, with no end of a line between them, at most the line that ends
\* at q is added.
LEMMA LinesUpToNext ==
  ASSUME file \in Seq(Chars), NEW p \in 0 .. Len(file), NEW q \in 1 .. Len(file), p < q,
         \A j \in Ends : p < j => q <= j
  PROVE  /\ LinesUpTo(q) <= LinesUpTo(p) + 1
         /\ q \in Ends => LinesUpTo(q) = LinesUpTo(p) + 1
<1> DEFINE EndsUpTo(k) == {j \in Ends : j <= k}
<1>1. p \in Int /\ q \in Int /\ Ends \in SUBSET Int
  BY EndsType
<1>4. LinesUpTo(p) \in Nat
  BY <1>1, LinesUpToType
<1>2. CASE q \in Ends
  <2>1. EndsUpTo(q) = EndsUpTo(p) \cup {q} /\ q \notin EndsUpTo(p)
    <3>1. \A j \in Ends : j <= q <=> j <= p \/ j = q
      BY <1>1, <1>2
    <3>2. EndsUpTo(q) = EndsUpTo(p) \cup {q}
      BY <1>2, <3>1, Zenon
    <3>3. q \notin EndsUpTo(p)
      BY <1>1
    <3> QED
      BY <3>2, <3>3
  <2>2. IsFiniteSet(EndsUpTo(p))
    BY <1>1, LinesUpToFinite
  <2>3. LinesUpTo(q) = LinesUpTo(p) + 1
    BY <2>1, <2>2, FS_AddElement DEF LinesUpTo
  <2> QED
    BY <1>4, <2>3
<1>3. CASE q \notin Ends
  <2>1. EndsUpTo(q) = EndsUpTo(p)
    <3>1. \A j \in Ends : j <= q <=> j <= p
      BY <1>1, <1>3
    <3> QED
      BY <3>1
  <2>2. LinesUpTo(q) = LinesUpTo(p)
    BY <2>1 DEF LinesUpTo
  <2> QED
    BY <1>3, <1>4, <2>2
<1> QED
  BY <1>2, <1>3

\* At the end of the file all lines are counted, before it they are not.
LEMMA LinesUpToEnd ==
  ASSUME file \in Seq(Chars)
  PROVE  /\ LinesUpTo(Len(file)) = LineCount
         /\ \A i \in Starts : LinesUpTo(i) < LineCount
<1>1. {j \in Ends : j <= Len(file)} = Ends
  BY EndsType
<1>2. ASSUME NEW i \in Starts PROVE LinesUpTo(i) < LineCount
  <2>1. i \in Nat /\ i < Len(file) /\ Len(file) \in Ends
    BY EndsType DEF Starts
  <2>2. {j \in Ends : j <= i} \in SUBSET Ends /\ {j \in Ends : j <= i} # Ends
    BY <2>1, EndsType
  <2>3. LinesUpTo(i) <= LineCount /\ LinesUpTo(i) # LineCount
    BY <2>2, EndsType, FS_Subset DEF LinesUpTo, LineCount
  <2> QED
    BY <2>1, <2>3, LinesUpToType
<1> QED
  BY <1>1, <1>2 DEF LinesUpTo, LineCount

\* Fewer lines fit as well, and when all lines do, so does any number.
LEMMA FewerFit ==
  ASSUME file \in Seq(Chars), NEW k \in Int, NEW m \in Int,
         Fit(k), m <= k \/ k = LineCount
  PROVE  Fit(m)
<1> SUFFICES ASSUME NEW i \in Starts, LinesUpTo(i) < m
             PROVE  \E j \in Ends : i < j /\ j < i + BufferSize
  BY DEF Fit
<1>1. i \in Int /\ LinesUpTo(i) \in Nat /\ LinesUpTo(i) < LineCount
  BY EndsType, LinesUpToType, LinesUpToEnd DEF Starts
<1>2. LinesUpTo(i) < k
  BY <1>1
<1> QED
  BY <1>2 DEF Fit

\* One fgets() stops in the line it reads from, at its end or with the array full;
\* at its end if the line fits the array.
LEMMA NextStopInLine ==
  ASSUME Request, pos \in 0 .. Len(file), pos < Len(file)
  PROVE  /\ NextStop \in MayEnd(pos)
         /\ NextStop \in pos + 1 .. Len(file)
         /\ \A j \in Ends : pos < j => NextStop <= j
         /\ (\E j \in Ends : pos < j /\ j < pos + BufferSize) => NextStop \in Ends
<1> USE DEF Request
<1>1. Len(file) \in Nat /\ pos \in Nat /\ BufferSize \in Nat /\ Ends \in SUBSET Int
  BY EndsType, ReadFAssumption
<1>2. \A i \in Ends : pos < i => i \in Stops
  BY <1>1, EndsType DEF Ends, Stops
<1>3. Stops \in SUBSET Nat /\ Len(file) \in Stops
  BY <1>1 DEF Stops
<1>4. \E i \in Stops : \A k \in Stops : i <= k
  BY <1>3, Least
<1>5. NextStop \in Stops /\ \A k \in Stops : NextStop <= k
  BY <1>4 DEF NextStop
<1>6. NextStop \in pos + 1 .. Len(file) /\ NextStop \in Int
  BY <1>1, <1>5 DEF Stops
<1>7. NextStop \in Ends \/ NextStop = pos + BufferSize - 1
  BY <1>5, <1>6 DEF Stops, Ends
<1>8. NextStop \in MayEnd(pos)
  <2>1. ASSUME NEW m \in pos + 1 .. NextStop - 1 PROVE file[m] # "newline"
    <3>1. m \notin Stops /\ m \in pos + 1 .. Len(file)
      BY <1>1, <1>5, <1>6
    <3> QED
      BY <3>1 DEF Stops
  <2> QED
    BY <1>1, <1>6, <1>7, <2>1 DEF MayEnd
<1>9. ASSUME NEW j \in Ends, pos < j, j < pos + BufferSize PROVE NextStop \in Ends
  <2>1. NextStop <= j
    BY <1>2, <1>5, <1>9
  <2>2. NextStop = pos + BufferSize - 1 => NextStop = j
    BY <1>1, <1>6, <1>9, <2>1
  <2> QED
    BY <1>7, <2>2
<1> QED
  BY <1>2, <1>5, <1>6, <1>8, <1>9

\* The reference depends on the file alone.
LEMMA SameFile ==
  ASSUME file' = file
  PROVE  /\ Ends' = Ends /\ LineCount' = LineCount /\ Starts' = Starts /\ Shown' = Shown
         /\ \A k : LinesUpTo(k)' = LinesUpTo(k)
         /\ \A k : Fit(k)' = Fit(k)
         /\ \A k : MayEnd(k)' = MayEnd(k)
<1>1. Ends' = Ends /\ Shown' = Shown
  BY DEF Ends, Shown
<1>2. LineCount' = LineCount /\ Starts' = Starts
  BY <1>1 DEF LineCount, Starts
<1>3. ASSUME NEW k PROVE LinesUpTo(k)' = LinesUpTo(k)
  BY <1>1 DEF LinesUpTo
<1>4. ASSUME NEW k PROVE Fit(k)' = Fit(k)
  BY <1>1, <1>2 DEF Fit, LinesUpTo
<1>5. ASSUME NEW k PROVE MayEnd(k)' = MayEnd(k)
  BY <1>1 DEF MayEnd
<1> QED
  BY <1>1, <1>2, <1>3, <1>4, <1>5

LEMMA ReadLineKeeps ==
  ASSUME ReadInv, ReadLine
  PROVE  ReadInv'
<1>1. Request /\ SeeksLine /\ pos < Len(file)
  BY DEF ReadInv, ReadLine, CopiesChars
<1>2. file' = file /\ line_number' = line_number /\ pos' = NextStop
  BY DEF ReadLine
<1>3. Request'
  BY <1>1, <1>2 DEF Request
<1>4. PICK q \in pos + 1 .. Len(file) :
        /\ q = NextStop /\ q \in MayEnd(pos)
        /\ \A j \in Ends : pos < j => q <= j
        /\ (\E j \in Ends : pos < j /\ j < pos + BufferSize) => q \in Ends
  BY <1>1, NextStopInLine DEF SeeksLine
<1>5. /\ file \in Seq(Chars) /\ Len(file) \in Nat /\ pos \in 0 .. Len(file) - 1
      /\ line_number \in Int /\ line_number > 0 /\ current_line \in Int
  BY <1>1, EndsType DEF Request, SeeksLine
<1>6. /\ q \in 1 .. Len(file) /\ pos < q
      /\ LinesUpTo(pos) \in Nat /\ LinesUpTo(q) \in Nat
  <2>1. q \in Int /\ pos \in Int /\ q \in 1 .. Len(file) /\ pos < q
    BY <1>5
  <2>2. LinesUpTo(pos) \in Nat /\ LinesUpTo(q) \in Nat
    BY <1>5, <2>1, LinesUpToType
  <2> QED
    BY <2>1, <2>2
<1>7. /\ LinesUpTo(q) <= LinesUpTo(pos) + 1
      /\ q \in Ends => LinesUpTo(q) = LinesUpTo(pos) + 1
  BY <1>4, <1>5, <1>6, LinesUpToNext
<1>8. PICK p \in 0 .. Len(file) - 1 : p = pos
  BY <1>5
<1>9. CASE IsTheLine
  <2>1. response' = Line(SubSeq(file, p + 1, q)) /\ state' = "done" /\ q \in MayEnd(p)
    BY <1>4, <1>8, <1>9 DEF ReadLine
  <2>2. Fit(line_number - 1) => p \in Starts /\ LinesUpTo(p) = line_number - 1
    BY <1>1, <1>8, <1>9 DEF SeeksLine, IsTheLine, Starts
  <2>3. Fit(line_number - 1)' = Fit(line_number - 1)
    BY <1>2 DEF Fit, Starts, LinesUpTo, Ends
  <2>4. Line(SubSeq(file, p + 1, q)) = Line(SubSeq(file, p + 1, q))'
    BY <1>2 DEF Line
  <2>5. /\ \E j \in MayEnd(p)' : response' = Line(SubSeq(file, p + 1, j))'
        /\ Fit(line_number - 1)' => p \in Starts' /\ LinesUpTo(p)' = line_number' - 1
        /\ p \in 0 .. Len(file') - 1 /\ line_number' > 0
    BY <1>2, <1>5, <2>1, <2>2, <2>3, <2>4, SameFile
  <2>6. AnswerIsTrue'
    BY <2>5 DEF AnswerIsTrue
  <2> QED
    BY <1>3, <2>1, <2>6 DEF ReadInv
<1>10. CASE ~IsTheLine
  <2>1. current_line' = current_line + 1 /\ response' = response /\ state' = state
    BY <1>10 DEF ReadLine
  <2>2. LinesUpTo(pos)' = LinesUpTo(q) /\ pos' = q
    BY <1>2, <1>4 DEF LinesUpTo, Ends
  <2>3. Fit(current_line - 1)' = Fit(current_line)
    <3>1. current_line' - 1 = current_line
      BY <1>5, <2>1
    <3> QED
      BY <1>2, <3>1 DEF Fit, Starts, LinesUpTo, Ends
  <2>4. ASSUME Fit(current_line) PROVE q \in Ends /\ LinesUpTo(q) = current_line
    <3>1. Fit(current_line - 1)
      BY <1>5, <2>4, FewerFit
    <3>2. p \in Starts /\ LinesUpTo(p) = current_line - 1
      BY <1>1, <1>8, <3>1 DEF SeeksLine, Starts
    <3>3. \E j \in Ends : p < j /\ j < p + BufferSize
      BY <1>5, <2>4, <3>2 DEF Fit
    <3> QED
      BY <1>4, <1>5, <1>7, <1>8, <3>2, <3>3
  <2>5. /\ current_line' \in Int /\ current_line' <= line_number'
        /\ LinesUpTo(pos)' < current_line'
    BY <1>1, <1>2, <1>5, <1>6, <1>7, <1>10, <2>1, <2>2 DEF SeeksLine, IsTheLine
  <2>6. Fit(current_line - 1)' =>
          pos' \in {0} \cup Ends' /\ LinesUpTo(pos)' = current_line' - 1
    BY <1>2, <1>5, <2>1, <2>2, <2>3, <2>4, SameFile
  <2>7. SeeksLine'
    BY <1>1, <1>2, <1>6, <2>1, <2>2, <2>5, <2>6 DEF SeeksLine, Nothing
  <2> QED
    BY <1>3, <2>7 DEF ReadInv
<1> QED
  BY <1>9, <1>10

LEMMA EndOfLinesKeeps ==
  ASSUME ReadInv, EndOfLines
  PROVE  ReadInv'
<1>1. Request /\ SeeksLine /\ pos = Len(file)
  BY DEF ReadInv, EndOfLines, CopiesChars
<1>2. /\ file' = file /\ line_number' = line_number /\ state' = "done"
      /\ response' = IF current_line < line_number THEN Only(LinesRead) ELSE response
  BY DEF EndOfLines
<1>3. Request' /\ LineCount' = LineCount
  BY <1>1, <1>2, SameFile DEF Request
<1>4. /\ LineCount \in Nat /\ LineCount < current_line
      /\ line_number \in Int /\ line_number > 0 /\ current_line \in Int
      /\ current_line <= line_number /\ response = Nothing
  BY <1>1, LinesUpToType, LinesUpToEnd DEF Request, SeeksLine
<1>5. Fit(LineCount) => current_line - 1 = LineCount
  <2> SUFFICES ASSUME Fit(LineCount) PROVE current_line - 1 = LineCount
    OBVIOUS
  <2>1. Fit(current_line - 1)
    BY <1>1, <1>4, FewerFit DEF Request
  <2> QED
    BY <1>1, <2>1, LinesUpToEnd DEF Request, SeeksLine
<1>6. Fit(LineCount)' = Fit(LineCount)
  BY <1>2, <1>3 DEF Fit, Starts, LinesUpTo, Ends
<1>7. PICK n \in Int : n = current_line - 1
  BY <1>4
<1>8. response' = Only(n)' \/ (response' = Nothing' /\ n = line_number' - 1)
  BY <1>2, <1>4, <1>7 DEF LinesRead, Only, Nothing
<1>9. n \in LineCount' .. line_number' - 1 /\ line_number' > LineCount'
  BY <1>2, <1>3, <1>4, <1>7
<1>10. Fit(LineCount)' => n = LineCount'
  BY <1>3, <1>5, <1>6, <1>7
<1>11. AnswerIsTrue'
  BY <1>8, <1>9, <1>10 DEF AnswerIsTrue
<1> QED
  BY <1>2, <1>3, <1>11 DEF ReadInv

LEMMA ReadCharKeeps ==
  ASSUME ReadInv, ReadChar
  PROVE  ReadInv'
<1>1. Request /\ CopiesChars /\ pos < Len(file) /\ file[pos + 1] # "255"
  BY DEF ReadInv, ReadChar, SeeksLine
<1>2. /\ UNCHANGED <<file, line_number, current_line, state>> /\ pos' = pos + 1
      /\ response' = [response EXCEPT !.text = Append(@, file[pos + 1])]
  BY DEF ReadChar
<1>3. file \in Seq(Chars) /\ pos \in Nat /\ Len(file) \in Nat
  BY <1>1, EndsType DEF Request, CopiesChars
<1>4. Append(SubSeq(file, 1, pos), file[pos + 1]) = SubSeq(file, 1, pos + 1)
  <2> DEFINE s == SubSeq(file, 1, pos)
             t == SubSeq(file, 1, pos + 1)
             c == file[pos + 1]
  <2>1. c \in Chars
    BY <1>1, <1>3
  <2>2. s \in Seq(Chars) /\ Len(s) = pos /\ \A i \in 1 .. pos : s[i] = file[i]
    BY <1>1, <1>3
  <2>3. t \in Seq(Chars) /\ Len(t) = pos + 1 /\ \A i \in 1 .. pos + 1 : t[i] = file[i]
    BY <1>1, <1>3
  <2>4. t[pos + 1] = c
    BY <1>3, <2>3
  <2> HIDE DEF s, t, c
  <2>5. /\ Append(s, c) \in Seq(Chars) /\ Len(Append(s, c)) = pos + 1
        /\ \A i \in 1 .. pos : Append(s, c)[i] = s[i]
        /\ Append(s, c)[pos + 1] = c
    BY <2>1, <2>2, AppendProperties
  <2>6. \A i \in 1 .. pos + 1 : Append(s, c)[i] = t[i]
    BY <1>3, <2>2, <2>3, <2>4, <2>5
  <2>7. Append(s, c) = t
    BY <2>3, <2>5, <2>6, SeqEqual
  <2> QED
    BY <2>7 DEF s, t, c
<1>5. response' = [says |-> "text", text |-> SubSeq(file, 1, pos + 1)]
  BY <1>1, <1>2, <1>4 DEF CopiesChars
<1>6. \A j \in 1 .. pos + 1 : file[j] # "255"
  BY <1>1, <1>3 DEF CopiesChars
<1>7. CopiesChars'
  <2>1. state' = "chars" /\ line_number' <= 0 /\ pos' \in 0 .. Len(file')
    BY <1>1, <1>2, <1>3 DEF CopiesChars
  <2>2. \A j \in 1 .. pos' : file'[j] # "255"
    BY <1>2, <1>6
  <2>3. response' = [says |-> "text", text |-> SubSeq(file', 1, pos')]
    BY <1>2, <1>5
  <2> QED
    BY <2>1, <2>2, <2>3 DEF CopiesChars
<1>8. Request'
  BY <1>1, <1>2 DEF Request
<1> QED
  BY <1>7, <1>8 DEF ReadInv

LEMMA EndOfCharsKeeps ==
  ASSUME ReadInv, EndOfChars
  PROVE  ReadInv'
<1>1. Request /\ CopiesChars /\ (pos < Len(file) => file[pos + 1] = "255")
  BY DEF ReadInv, EndOfChars, SeeksLine
<1>2. UNCHANGED <<file, line_number, current_line, pos, response>> /\ state' = "done"
  BY DEF EndOfChars
<1>3. Len(file) \in Nat /\ pos \in 0 .. Len(file) /\ \A j \in 1 .. pos : file[j] # "255"
  BY <1>1, EndsType DEF Request, CopiesChars
<1>4. \A j \in Shown : j <= pos
  <2> SUFFICES ASSUME NEW j \in Shown, pos < j PROVE FALSE
    BY <1>3 DEF Shown
  <2>1. pos + 1 \in 1 .. j /\ pos < Len(file)
    BY <1>3 DEF Shown
  <2> QED
    BY <1>1, <2>1 DEF Shown
<1>5. PICK n \in 0 .. Len(file) : n = pos
  BY <1>3
<1>6. /\ line_number' <= 0 /\ n \in 0 .. Len(file')
      /\ response' = [says |-> "text", text |-> SubSeq(file', 1, n)]
      /\ \A i \in Shown' : i <= n
  BY <1>1, <1>2, <1>4, <1>5, SameFile DEF CopiesChars
<1>7. AnswerIsTrue'
  BY <1>6 DEF AnswerIsTrue
<1>8. Request'
  BY <1>1, <1>2 DEF Request
<1> QED
  BY <1>2, <1>7, <1>8 DEF ReadInv

\* For a file of any length with lines of any length, and any BufferSize: what
\* readF() answers is true of the file (biboServer.c 199-250).
THEOREM ReadFIsTrue == ReadSpec => []AnswerIsTrue
<1>1. ReadInit => ReadInv
  <2> SUFFICES ASSUME ReadInit PROVE ReadInv
    OBVIOUS
  <2>1. file \in Seq(Chars) /\ Request
    BY ReadFAssumption DEF ReadInit, Request
  <2>2. CASE line_number > 0
    <3>1. {j \in Ends : j <= 0} = {}
      BY <2>1, EndsType
    <3>2. LinesUpTo(0) = 0
      BY <3>1, FS_EmptySet DEF LinesUpTo
    <3> QED
      BY <2>1, <2>2, <3>2, EndsType DEF ReadInit, ReadInv, SeeksLine, Request
  <2>3. CASE line_number <= 0
    <3>1. SubSeq(file, 1, 0) = <<>>
      BY SubSeqEmpty
    <3> QED
      BY <2>1, <2>3, <3>1, EndsType DEF ReadInit, ReadInv, CopiesChars, Nothing
  <2> QED
    BY <2>1, <2>2, <2>3 DEF Request
<1>2. ReadInv /\ [ReadNext]_readVars => ReadInv'
  <2> SUFFICES ASSUME ReadInv, [ReadNext]_readVars PROVE ReadInv'
    OBVIOUS
  <2>1. CASE UNCHANGED readVars
    <3>1. UNCHANGED <<file, line_number, current_line, pos, response, state>>
      BY <2>1 DEF readVars
    <3>2. Request' = Request
      BY <3>1 DEF Request
    <3>3. SeeksLine' = SeeksLine
      BY <3>1 DEF SeeksLine, Fit, Starts, LinesUpTo, Ends, Nothing
    <3>4. CopiesChars' = CopiesChars
      BY <3>1 DEF CopiesChars
    <3>5. AnswerIsTrue' = AnswerIsTrue
      BY <3>1 DEF AnswerIsTrue, Ends, Nothing, Line, Only, LineCount, LinesUpTo, Starts, Fit,
                  MayEnd, Shown
    <3> QED
      BY <3>1, <3>2, <3>3, <3>4, <3>5 DEF ReadInv
  <2> QED
    BY <2>1, ReadLineKeeps, EndOfLinesKeeps, ReadCharKeeps, EndOfCharsKeeps DEF ReadNext
<1>3. ReadInv => AnswerIsTrue
  BY DEF ReadInv, AnswerIsTrue, SeeksLine, CopiesChars
<1> QED
  BY <1>1, <1>2, <1>3, PTL DEF ReadSpec
=============================================================================
