---------------------------- MODULE BibakSyncMC -----------------------------
(***************************************************************************)
(* The files that TLC gives the user: one, "l", may reach the server as     *)
(* another of them, or as none.                                            *)
(***************************************************************************)
EXTENDS BibakSync

CONSTANTS a, l, bare

MCNames == {a, l, bare}
MCLonger == [f \in MCNames |-> IF f = l THEN {bare, Junk} ELSE {}]

\* Two files whose names end where they should.
TwoNames == {a, l}
NoneLonger == [f \in TwoNames |-> {}]
=============================================================================
