-------------------------------- MODULE Fifo --------------------------------
(***************************************************************************)
(* A first-in first-out queue of bounded capacity: what the array of       *)
(* Midterm_HW3/biboServer.c stands for.                                    *)
(***************************************************************************)
EXTENDS Naturals, Sequences

CONSTANTS Data, Capacity

VARIABLE queue

Init == queue = <<>>

Put(data) == Len(queue) < Capacity /\ queue' = Append(queue, data)

Take == queue # <<>> /\ queue' = Tail(queue)

Next == Take \/ \E data \in Data : Put(data)

Spec == Init /\ [][Next]_queue
=============================================================================
