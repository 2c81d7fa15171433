--------------------------- MODULE ParallelCopyMC ---------------------------
(***************************************************************************)
(* Model values for ParallelCopy: a root with two files around a directory *)
(* that holds a file and a FIFO.                                           *)
(***************************************************************************)
EXTENDS ParallelCopy, TLC

CONSTANTS f1, f2, f3, f4, root, sub, pipe

MCFiles == {f1, f2, f3}
MCListing == (root :> <<f1, sub, f2>>) @@ (sub :> <<f3, pipe>>)
MCDepth == (root :> 0) @@ (sub :> 1)
MCFileType == (f1 :> "c") @@ (f2 :> "fifo") @@ (f3 :> "c")
MCTypes == {"c", "fifo"}
MCSize == (f1 :> 3) @@ (f2 :> 0) @@ (f3 :> 1)

\* Four small files in a row: more than the ring of the runs can hold.
FlatFiles == {f1, f2, f3, f4}
FlatListing == root :> <<f1, f2, f3, f4>>
FlatDepth == root :> 0
FlatFileType == [f \in FlatFiles |-> "c"]
FlatSize == [f \in FlatFiles |-> 0]
=============================================================================
