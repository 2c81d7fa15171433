---------------------------- MODULE BiboServerMC ----------------------------
(***************************************************************************)
(* BiboServer for TLC: no action tells one client from another, so that    *)
(* they are symmetric in the runs that check invariants.                   *)
(***************************************************************************)
EXTENDS BiboServer, TLC

Symmetry == Permutations(Clients)
=============================================================================
