---------------------------- MODULE CopyPipeline ----------------------------
(***************************************************************************)
(* What the queue of HW5/program.c promises, without ring, indices, locks  *)
(* or condition variables: files pass one by one through a first-in        *)
(* first-out queue of bounded capacity, each exactly once.                 *)
(***************************************************************************)
EXTENDS Naturals, Sequences

CONSTANTS Files, Capacity

VARIABLES
  offered,  \* the file opened and not queued yet: at most one
  queue,    \* the files waiting, oldest first
  copying,  \* the file being copied: at most one
  closed    \* the files that were closed

vars == <<offered, queue, copying, closed>>

Waiting == {queue[i] : i \in DOMAIN queue}

Init == offered = {} /\ queue = <<>> /\ copying = {} /\ closed = {}

Open(f) ==
  /\ offered = {} /\ f \notin Waiting \cup copying \cup closed
  /\ offered' = {f}
  /\ UNCHANGED <<queue, copying, closed>>

Put(f) ==
  /\ f \in offered /\ Len(queue) < Capacity
  /\ queue' = Append(queue, f)
  /\ offered' = {}
  /\ UNCHANGED <<copying, closed>>

Take ==
  /\ copying = {} /\ queue # <<>>
  /\ copying' = {Head(queue)}
  /\ queue' = Tail(queue)
  /\ UNCHANGED <<offered, closed>>

Close(f) ==
  /\ f \in copying
  /\ copying' = {}
  /\ closed' = closed \cup {f}
  /\ UNCHANGED <<offered, queue>>

Next == Take \/ \E f \in Files : Open(f) \/ Put(f) \/ Close(f)

Spec == Init /\ [][Next]_vars
=============================================================================
