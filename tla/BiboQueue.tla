----------------------------- MODULE BiboQueue -----------------------------
(***************************************************************************)
(* Midterm_HW3/biboServer.c, the queue of the clients that wait for a      *)
(* slot: an array that front and rear walk through from left to right, and *)
(* that starts over only when it runs empty.                               *)
(***************************************************************************)
EXTENDS Integers, Sequences

CONSTANTS
  MaxSize,   \* MAX_SIZE
  Data,      \* what is queued
  NoItem     \* the content of an array element never written

ASSUME QueueAssumption == MaxSize \in Nat \ {0} /\ NoItem \notin Data

VARIABLES items, front, rear

queueVars == <<items, front, rear>>

\* initializeQueue()
QueueInit ==
  /\ items = [i \in 0 .. MaxSize - 1 |-> NoItem]
  /\ front = -1 /\ rear = -1

isFull == rear = MaxSize - 1
isEmpty == front = -1 /\ rear = -1

NewFront_Always == 0
NewFront == IF isEmpty THEN 0 ELSE front

\* enqueue() of a queue that is not full, and of one that is.
Append_(data) ==
  /\ ~isFull
  /\ rear' = rear + 1
  /\ front' = NewFront
  /\ items' = [items EXCEPT ![rear + 1] = data]

Refuse(data) == isFull /\ UNCHANGED queueVars

enqueue(data) == Append_(data) \/ Refuse(data)

\* What dequeue() returns, and what it does: the last element resets both
\* indices.  dequeue() of an empty queue changes nothing.
Oldest == IF isEmpty THEN -1 ELSE items[front]

LastOne_Kept == FALSE
LastOne == front = rear

dequeue_Kept == UNCHANGED queueVars
dequeue ==
  /\ front' = IF isEmpty \/ LastOne THEN -1 ELSE front + 1
  /\ rear' = IF isEmpty \/ LastOne THEN -1 ELSE rear
  /\ UNCHANGED items

QueueNext == dequeue \/ \E data \in Data : enqueue(data)

QueueSpec == QueueInit /\ [][QueueNext]_queueVars

-----------------------------------------------------------------------------
(* Properties *)

\* Both indices are -1, or both are in the array and front is not behind rear.
QueueTypeOK ==
  /\ items \in [0 .. MaxSize - 1 -> Data \cup {NoItem}]
  /\ \/ isEmpty
     \/ front \in 0 .. MaxSize - 1 /\ rear \in front .. MaxSize - 1

\* The elements between front and rear, oldest first.
Contents == IF isEmpty THEN <<>>
            ELSE [i \in 1 .. rear - front + 1 |-> items[front + i - 1]]

\* The array implements a first-in first-out queue, which may refuse an element.
Abstract == INSTANCE Fifo WITH Capacity <- MaxSize, queue <- Contents
ImplementsFifo == Abstract!Spec
=============================================================================
