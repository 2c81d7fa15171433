---------------------------- MODULE BibakPoolMC ----------------------------
(***************************************************************************)
(* BibakPool for TLC: a file that takes two send()s, then an empty one.    *)
(***************************************************************************)
EXTENDS BibakPool

TwoFiles == <<2, 0>>
=============================================================================
