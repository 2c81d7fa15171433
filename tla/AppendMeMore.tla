---------------------------- MODULE AppendMeMore ----------------------------
(***************************************************************************)
(* HW1/appendMeMore.c, run by several processes on one file: a byte is     *)
(* written with O_APPEND, or, with the argument "x", by an lseek() to the  *)
(* end and a write() there.  Bytes are told apart by who wrote them.       *)
(***************************************************************************)
EXTENDS Integers, Sequences, FiniteSets, Functions

CONSTANTS
  Writers,     \* the processes
  Before,      \* the byte of a file that was there before
  MaxBytes,    \* bound of the model: bytes written per process
  MaxInitial   \* bound of the model: bytes in the file before

ASSUME AppendAssumption ==
  IsFiniteSet(Writers) /\ Before \notin Writers /\ MaxBytes \in Nat /\ MaxInitial \in Nat

VARIABLES
  bytes,      \* the file
  initial,    \* its length before
  third_arg,  \* third_arg[p]: the argument "x" is given
  num_bytes,  \* num_bytes[p]: how many bytes p shall write
  at_,        \* at_[p]: the next call of p, or what write_bytes_to_file returned
  offset,     \* offset[p]: the file offset of p's descriptor
  written     \* written[p]: how many bytes p has written

appendVars == <<bytes, initial, third_arg, num_bytes, at_, offset, written>>
fixedVars == <<initial, third_arg, num_bytes>>

AppendInit ==
  /\ initial \in 0 .. MaxInitial
  /\ bytes = [b \in 1 .. initial |-> Before]
  /\ third_arg \in [Writers -> BOOLEAN]
  /\ num_bytes \in [Writers -> 0 .. MaxBytes]
  /\ at_ = [p \in Writers |-> "open"]
  /\ offset = [p \in Writers |-> 0]
  /\ written = [p \in Writers |-> 0]

\* The loop: close() after num_bytes bytes, lseek() before each with "x".
Loop(p, n) ==
  IF n >= num_bytes[p] THEN "close" ELSE IF third_arg[p] THEN "lseek" ELSE "write"

OpenFile(p) ==
  /\ at_[p] = "open"
  /\ at_' = [at_ EXCEPT ![p] = Loop(p, 0)]
  /\ UNCHANGED <<bytes, fixedVars, offset, written>>

SeekTo(p) == Len(bytes)

LseekEnd(p) ==
  /\ at_[p] = "lseek"
  /\ offset' = [offset EXCEPT ![p] = SeekTo(p)]
  /\ at_' = [at_ EXCEPT ![p] = "write"]
  /\ UNCHANGED <<bytes, fixedVars, written>>

\* With O_APPEND a write() is at the end, wherever the offset was.
Position_Offset(p) == offset[p]
Position(p) == IF third_arg[p] THEN offset[p] ELSE Len(bytes)

WriteByte(p) ==
  /\ at_[p] = "write"
  /\ bytes' = [b \in 1 .. Len(bytes) \cup {Position(p) + 1} |->
                 IF b = Position(p) + 1 THEN p ELSE bytes[b]]
  /\ offset' = [offset EXCEPT ![p] = Position(p) + 1]
  /\ written' = [written EXCEPT ![p] = @ + 1]
  /\ at_' = [at_ EXCEPT ![p] = Loop(p, written[p] + 1)]
  /\ UNCHANGED fixedVars

CloseFile(p) ==
  /\ at_[p] = "close"
  /\ at_' = [at_ EXCEPT ![p] = "0"]
  /\ UNCHANGED <<bytes, fixedVars, offset, written>>

\* Any of the calls fails; main() compares the 1 with -1 and returns 0.
CallFails(p) ==
  /\ at_[p] \in {"open", "lseek", "write", "close"}
  /\ at_' = [at_ EXCEPT ![p] = "1"]
  /\ UNCHANGED <<bytes, fixedVars, offset, written>>

AppendNext ==
  \E p \in Writers :
    OpenFile(p) \/ LseekEnd(p) \/ WriteByte(p) \/ CloseFile(p) \/ CallFails(p)

AppendSpec == AppendInit /\ [][AppendNext]_appendVars

-----------------------------------------------------------------------------
(* Properties *)

Total(S) == SumFunctionOnSet(written, S)
Appenders == {p \in Writers : ~third_arg[p]}

Alone(p) == \A q \in Writers \ {p} : written[q] = 0

\* What was in the file stays, and the file grows by every byte written with
\* O_APPEND, by at least as many as any one process has written, and by no
\* more than all: with lseek() another process may write in between and its
\* byte is written over.  Among processes without "x", and by a process that
\* writes alone, no byte is lost (lines 24-39).
OldBytesStay == \A b \in 1 .. initial : bytes[b] = Before
GrowsByAppenders == Len(bytes) - initial \in Total(Appenders) .. Total(Writers)
GrowsByEach == \A p \in Writers : written[p] <= Len(bytes) - initial
Of(p) == {b \in DOMAIN bytes : bytes[b] = p}
OwnBytesStay ==
  \A p \in Writers : Appenders = Writers \/ Alone(p) => Cardinality(Of(p)) = written[p]

BytesKept == OldBytesStay /\ GrowsByAppenders /\ GrowsByEach /\ OwnBytesStay
=============================================================================
