----------------------------- MODULE BiboReadF -----------------------------
(***************************************************************************)
(* Midterm_HW3/biboServer.c, readF(): the answer to "readF file" and to    *)
(* "readF file line", computed in one pass with fgets() or fgetc().  The    *)
(* file is any short text of ordinary characters, newlines and the         *)
(* character 255, which a signed char cannot tell from EOF.                *)
(***************************************************************************)
EXTENDS Integers, Sequences, FiniteSets

CONSTANTS
  MaxLength,  \* of the file
  MaxLine,    \* the highest line number asked for
  BufferSize  \* of the array that fgets() fills, its '\0' included

ASSUME ReadFAssumption == MaxLength \in Nat /\ MaxLine \in Nat /\ BufferSize \in Nat \ {0, 1}

Chars == {"x", "newline", "255"}

VARIABLES
  file, line_number,  \* the request; line_number is -1 when none is given
  current_line,
  pos,                \* how many characters are read
  response,           \* what the answer says
  state               \* "lines", "chars" or "done"

readVars == <<file, line_number, current_line, pos, response, state>>

Nothing   == [says |-> "text", text |-> <<>>]
Line(t)   == [says |-> "line", text |-> t]
Only(n)   == [says |-> "only", lines |-> n]

ReadInit ==
  /\ file \in UNION {[1 .. n -> Chars] : n \in 0 .. MaxLength}
  /\ line_number \in -1 .. MaxLine
  /\ current_line = 1
  /\ pos = 0
  /\ response = Nothing
  /\ state = IF line_number > 0 THEN "lines" ELSE "chars"

\* Where one fgets() stops: after a newline, with the array full, at the end.
Stops == {i \in pos + 1 .. Len(file) :
            file[i] = "newline" \/ i = pos + BufferSize - 1 \/ i = Len(file)}
NextStop == CHOOSE i \in Stops : \A j \in Stops : i <= j

IsTheLine == current_line = line_number

ReadLine ==
  /\ state = "lines" /\ pos < Len(file)
  /\ \/ /\ IsTheLine
        /\ response' = Line(SubSeq(file, pos + 1, NextStop))
        /\ state' = "done"
        /\ UNCHANGED current_line
     \/ /\ ~IsTheLine
        /\ current_line' = current_line + 1
        /\ UNCHANGED <<response, state>>
  /\ pos' = NextStop
  /\ UNCHANGED <<file, line_number>>

\* fgets() returned NULL: the number of lines, if the line asked for is beyond.
LinesRead_OffByOne == current_line
LinesRead == current_line - 1

EndOfLines ==
  /\ state = "lines" /\ pos = Len(file)
  /\ response' = IF current_line < line_number THEN Only(LinesRead) ELSE response
  /\ state' = "done"
  /\ UNCHANGED <<file, line_number, current_line, pos>>

ReadChar ==
  /\ state = "chars" /\ pos < Len(file) /\ file[pos + 1] # "255"
  /\ response' = [response EXCEPT !.text = Append(@, file[pos + 1])]
  /\ pos' = pos + 1
  /\ UNCHANGED <<file, line_number, current_line, state>>

EndOfChars ==
  /\ state = "chars" /\ (pos < Len(file) => file[pos + 1] = "255")
  /\ state' = "done"
  /\ UNCHANGED <<file, line_number, current_line, pos, response>>

ReadNext == ReadLine \/ EndOfLines \/ ReadChar \/ EndOfChars

ReadSpec == ReadInit /\ [][ReadNext]_readVars

-----------------------------------------------------------------------------
(* Properties *)

\* The reference: a line ends with a newline or with the file, and the next one
\* starts there.
Ends == {i \in 1 .. Len(file) : file[i] = "newline" \/ i = Len(file)}
LinesUpTo(i) == Cardinality({j \in Ends : j <= i})
LineCount == Cardinality(Ends)
Starts == {i \in {0} \cup Ends : i < Len(file)}

\* The first k lines fit the array that fgets() fills, its '\0' included.
Fit(k) == \A i \in Starts : LinesUpTo(i) < k => \E j \in Ends : i < j /\ j < i + BufferSize

\* Where what is shown of a line from position i on may end: with the line, or
\* when as much is shown as the array holds.
MayEnd(i) ==
  {j \in i + 1 .. Len(file) :
     /\ \A m \in i + 1 .. j - 1 : file[m] # "newline"
     /\ j \in Ends \/ j >= i + BufferSize - 1}

\* The characters before the first 255.
Shown == {i \in 0 .. Len(file) : \A j \in 1 .. i : file[j] # "255"}

\* What readF says of the file is true of it (lines 199-250).  The whole file is
\* shown from its start, and at least up to a character 255.  An answer to line
\* k is a piece of one line, and of line k, from its start, if the lines before
\* it fit the array.  That the file is shorter is said only if it is, and with
\* the number of its lines if they fit; an empty answer may stand for it.
AnswerIsTrue ==
  state = "done" =>
    \/ /\ line_number <= 0
       /\ \E n \in 0 .. Len(file) : /\ response = [says |-> "text", text |-> SubSeq(file, 1, n)]
                                   /\ \A i \in Shown : i <= n
    \/ /\ line_number > 0
       /\ \E i \in 0 .. Len(file) - 1 :
            /\ \E j \in MayEnd(i) : response = Line(SubSeq(file, i + 1, j))
            /\ Fit(line_number - 1) => i \in Starts /\ LinesUpTo(i) = line_number - 1
    \/ /\ line_number > LineCount
       /\ \E n \in LineCount .. line_number - 1 :
            /\ response = Only(n) \/ (response = Nothing /\ n = line_number - 1)
            /\ Fit(LineCount) => n = LineCount
=============================================================================
