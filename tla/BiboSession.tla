---------------------------- MODULE BiboSession ----------------------------
(***************************************************************************)
(* Midterm_HW3: one session, the loop of handle_client() in biboServer.c   *)
(* against the loop of main() in biboClient.c.                             *)
(*                                                                         *)
(* A request is two write() calls, its length and its text; so is an       *)
(* answer.  A text of at most PIPE_BUF bytes goes into the pipe at once: it *)
(* is one unit here.  A longer one goes in unit by unit, and read() returns *)
(* what it finds there, which may be a part of it: partly remembers that    *)
(* this has happened, for the properties, and no action depends on it.      *)
(***************************************************************************)
EXTENDS Integers, Sequences

CONSTANTS
  Units,       \* Units[r]: the units of the answer to request r
  Capacity,    \* of each of the two pipes
  Interrupts   \* does the user press Ctrl+C?

Answered == {"help", "help_command", "list", "readF", "empty", "unknown", "quit"}
Requests == Answered \cup {"readF_missing", "killServer"}
MaxUnits == Capacity + 1

ASSUME SessionAssumption ==
  /\ Units \in [Answered -> Nat] /\ \A r \in Answered : Units[r] <= MaxUnits
  /\ Capacity \in Nat \ {0, 1} /\ Interrupts \in BOOLEAN

VARIABLES
  client,    \* where the client is
  request,   \* its last request
  len,       \* the length it read
  screen,    \* what it printed last, unit by unit: the requests they answer
  child,     \* where the child is
  message,   \* the request it handles
  left,      \* how many units of the answer it has yet to write
  c2s, s2c,  \* the two FIFOs
  serverUp,  \* the server has SERVER_TO_CLIENT open for writing, too
  partly     \* has a read() of an answer returned a part of it?

clientVars == <<client, request, len, screen, partly>>
childVars  == <<child, message, left>>
sessionVars == <<clientVars, childVars, c2s, s2c, serverUp>>

LengthOf(r) == [part |-> "length", of |-> r]
UnitOf(r)   == [part |-> "unit", of |-> r]

SessionInit ==
  /\ client = "prompt" /\ request = "help" /\ len = 0 /\ screen = <<>>
  /\ child = "length" /\ message = "help" /\ left = 0
  /\ c2s = <<>> /\ s2c = <<>>
  /\ serverUp = TRUE /\ partly = FALSE

NoWriter == child = "exited" /\ ~serverUp

-----------------------------------------------------------------------------
(* The client *)

\* Without a reader of the FIFO a write() ends the client with SIGPIPE.
Send(part, next) ==
  \/ child = "exited" /\ client' = "gone" /\ UNCHANGED c2s
  \/ child # "exited" /\ Len(c2s) < Capacity /\ client' = next /\ c2s' = Append(c2s, part)

SendLength ==
  /\ client = "prompt"
  /\ \E r \in Requests : request' = r /\ Send(LengthOf(r), "text")
  /\ UNCHANGED <<len, screen, partly, childVars, s2c, serverUp>>

\* After "quit" the client only waits for a last message.
SendText ==
  /\ client = "text"
  /\ Send(UnitOf(request), IF request = "quit" THEN "bye" ELSE "length")
  /\ UNCHANGED <<request, len, screen, partly, childVars, s2c, serverUp>>

\* handle_response(): four bytes are taken for a length, and four characters of
\* an answer are a large one; at the end of the file len is uninitialised.
ReadLength ==
  /\ client = "length"
  /\ \/ /\ s2c # <<>>
        /\ len' = IF Head(s2c).part = "length" THEN Head(s2c).units ELSE MaxUnits
        /\ s2c' = Tail(s2c)
     \/ s2c = <<>> /\ NoWriter /\ len' \in 0 .. MaxUnits /\ UNCHANGED s2c
  /\ client' = "body"
  /\ UNCHANGED <<request, screen, partly, childVars, c2s, serverUp>>

\* read() of len bytes returns at most what the pipe holds; of none, at once.
BodyThere_NeverEmpty == s2c # <<>> \/ NoWriter
BodyThere == len = 0 \/ s2c # <<>> \/ NoWriter

ReadBody ==
  LET n == IF len < Len(s2c) THEN len ELSE Len(s2c)
  IN  /\ client = "body" /\ BodyThere
      /\ partly' = (partly \/ (0 < n /\ n < len))
      /\ screen' = [i \in 1 .. n |-> s2c[i].of]
      /\ s2c' = SubSeq(s2c, n + 1, Len(s2c))
      /\ client' = "prompt"
      /\ UNCHANGED <<request, len, childVars, c2s, serverUp>>

\* The loop after "quit": the length and the text of the last message.
ReadBye ==
  /\ client = "bye" /\ Len(s2c) > 1
  /\ client' = "gone"
  /\ s2c' = Tail(Tail(s2c))
  /\ UNCHANGED <<request, len, screen, partly, childVars, c2s, serverUp>>

\* Ctrl+C, between any two steps.
Interrupt ==
  /\ Interrupts /\ client # "gone"
  /\ client' = "gone"
  /\ UNCHANGED <<request, len, screen, partly, childVars, c2s, s2c, serverUp>>

Client == SendLength \/ SendText \/ ReadLength \/ ReadBody \/ ReadBye

-----------------------------------------------------------------------------
(* The child *)

\* read() of the length; with nobody left to write one the loop spins.
ChildReadLength ==
  /\ child = "length" /\ c2s # <<>>
  /\ c2s' = Tail(c2s)
  /\ child' = "text"
  /\ UNCHANGED <<clientVars, message, left, s2c, serverUp>>

\* read() of the text.  When the client is gone between its two write() calls
\* nothing is read, and the array holds whatever was on the stack.
ChildReadText ==
  /\ child = "text"
  /\ \/ c2s # <<>> /\ message' = Head(c2s).of /\ c2s' = Tail(c2s)
     \/ c2s = <<>> /\ client = "gone" /\ message' \in Requests /\ UNCHANGED c2s
  /\ child' = "answer"
  /\ UNCHANGED <<clientVars, left, s2c, serverUp>>

\* The length that an answer announces: strlen() of its text.
Announced_Short(r) == Units[r] - 1
Announced(r) == Units[r]

\* A write() that nobody can read any more ends the child with SIGPIPE.
Write(unit, next) ==
  \/ client = "gone" /\ child' = "exited" /\ UNCHANGED s2c
  \/ /\ client # "gone" /\ Len(s2c) < Capacity
     /\ s2c' = Append(s2c, unit)
     /\ child' = next

AfterUnits(n, r) == IF n > 0 THEN "body" ELSE IF r = "quit" THEN "exited" ELSE "length"

\* help(), list(), readF(), quit() and the three answers of the loop itself.
AnswerLength ==
  /\ child = "answer" /\ message \in Answered
  /\ Write([part |-> "length", of |-> message, units |-> Announced(message)],
           AfterUnits(Units[message], message))
  /\ left' = Units[message]
  /\ UNCHANGED <<clientVars, message, c2s, serverUp>>

AnswerUnit ==
  /\ child = "body"
  /\ Write(UnitOf(message), AfterUnits(left - 1, message))
  /\ left' = left - 1
  /\ UNCHANGED <<clientVars, message, c2s, serverUp>>

\* readF() of a file that cannot be opened, or without memory for the answer: a
\* message on the server's terminal.
AnswerNothing ==
  /\ child = "answer" /\ message \in {"readF", "readF_missing"}
  /\ child' = "length"
  /\ UNCHANGED <<clientVars, message, left, c2s, s2c, serverUp>>

\* list(): without a pipe to ls the child exits; of an empty output it takes the
\* strlen() of NULL.
ListFails ==
  /\ child = "answer" /\ message = "list"
  /\ child' = "exited"
  /\ UNCHANGED <<clientVars, message, left, c2s, s2c, serverUp>>

\* killServer: the child exits and the server ends, whose handler sends SIGTERM
\* to the clients it finds in its slots.
KillServer ==
  /\ child = "answer" /\ message = "killServer"
  /\ child' = "exited"
  /\ serverUp' = FALSE
  /\ client' \in {client, "gone"}
  /\ UNCHANGED <<request, len, screen, partly, message, left, c2s, s2c>>

Child ==
  \/ ChildReadLength \/ ChildReadText \/ AnswerLength \/ AnswerUnit \/ AnswerNothing
  \/ ListFails \/ KillServer

SessionNext == Client \/ Child \/ Interrupt

SessionSpec == SessionInit /\ [][SessionNext]_sessionVars

\* Both processes run; the user answers the prompt, but need not.
ClientRuns == SendText \/ ReadLength \/ ReadBody \/ ReadBye

FairSession == SessionSpec /\ WF_sessionVars(ClientRuns) /\ WF_sessionVars(Child)

-----------------------------------------------------------------------------
(* Properties *)

\* The two loops run in step until a read() returns a part of an answer, as it
\* may of one longer than PIPE_BUF: while the user is prompted, no request and
\* no part of an answer is under way, so that the next answer is the answer to
\* the next request, and what was printed is all of the answer to the last one
\* (biboServer.c 314-370, biboClient.c 66-81, 175-194).
InStep ==
  client = "prompt" /\ ~partly =>
    /\ c2s = <<>> /\ s2c = <<>> /\ (child = "length" \/ NoWriter)
    /\ screen # <<>> => screen = [i \in 1 .. Units[request] |-> request]

\* The two requests that the child may leave without an answer.  Once the loops
\* are out of step the client may wait for the answer's text instead.
Unanswered ==
  /\ client = "length" \/ (client = "body" /\ partly)
  /\ s2c = <<>>
  /\ \/ child = "length" /\ c2s = <<>> /\ message \in {"readF", "readF_missing"}
     \/ child = "exited" /\ serverUp /\ message = "list"

\* A request brings the prompt back, also when a part of an answer is still
\* under way and the child waits for room in the pipe; only readF() and list()
\* may return without an answer (160-163, 178, 206-215), and then the client
\* waits.  After "quit" the client and the child that answered it are gone,
\* if the loops are in step when it is sent.
PromptReturns ==
  /\ client = "length" ~> client \in {"prompt", "gone"} \/ Unanswered
  /\ client = "bye" /\ ~partly ~> client = "gone" /\ child = "exited"
=============================================================================
