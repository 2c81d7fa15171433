---------------------------- MODULE KeyCounters ----------------------------
(***************************************************************************)
(* One counter per key: what the hash table of HW5/program.c is for.       *)
(***************************************************************************)
EXTENDS Naturals

CONSTANTS Keys

VARIABLE counter

Init == counter = [k \in Keys |-> 0]

Increment(k) == counter' = [counter EXCEPT ![k] = @ + 1]

Next == \E k \in Keys : Increment(k)

Spec == Init /\ [][Next]_counter
=============================================================================
