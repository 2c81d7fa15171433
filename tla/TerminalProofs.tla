--------------------------- MODULE TerminalProofs ---------------------------
(***************************************************************************)
(* HW2/terminal.c, for every number of forks and of commands: which pipe   *)
(* ends are still open, and how many children the shell leaves behind.     *)
(***************************************************************************)
EXTENDS Terminal, FiniteSetTheorems, TLAPS

\* What the loops of main() have done, by the place the shell is at.
LineInv ==
  /\ shell = "prompt" => number_of_commands = 0
  /\ shell = "fork" =>
       /\ i = 1
       /\ Len(children) < number_of_commands
       /\ forked + number_of_commands - Len(children) <= MaxForks
  /\ shell \in {"close", "wait", "waited"} =>
       /\ Len(children) = number_of_commands
       /\ i \in 1 .. number_of_commands
  /\ \A p \in Procs : p > forked => proc[p] = "none"

ControlInv == TypeOK /\ LineInv

-----------------------------------------------------------------------------
(* Lemmas about what actions have in common *)

LEMMA ReapType ==
  ASSUME TypeOK, NEW p, Reap(p)
  PROVE  /\ proc' \in [Procs -> {"none", "setup", "run", "zombie", "reaped"}]
         /\ \A q \in Procs : (proc'[q] = proc[q] \/ (proc[q] = "zombie" /\ proc'[q] = "reaped"))
BY DEF TypeOK, Reap

LEMMA StartKeeps ==
  ASSUME ControlInv, shell = "prompt", NEW n \in 1 .. MaxCommands, Start(n)
  PROVE  /\ shell' = "fork" /\ i' = 1 /\ children' = <<>>
         /\ number_of_commands' = n /\ forked + n <= MaxForks
         /\ readers' \in [Procs -> SUBSET Holders]
         /\ writers' \in [Procs -> SUBSET Holders]
BY TerminalAssumption DEF ControlInv, TypeOK, LineInv, Start, Holders

\* One word, or any number of them: in any case a number of commands.
LEMMA RerunStarts ==
  ASSUME Rerun
  PROVE  \E n \in 1 .. MaxCommands : Start(n)
BY TerminalAssumption DEF Rerun

LEMMA ExitType ==
  ASSUME TypeOK, NEW p \in Procs, Exit(p)
  PROVE  TypeOK'
<1>1. pending' \in Procs \cup {Nobody}
  BY DEF TypeOK, Exit, Pending
<1>2. /\ proc' \in [Procs -> {"none", "setup", "run", "zombie", "reaped"}]
      /\ readers' \in [Procs -> SUBSET Holders] /\ writers' \in [Procs -> SUBSET Holders]
  BY DEF TypeOK, Exit
<1> QED
  BY <1>1, <1>2 DEF TypeOK, Exit, lineVars

-----------------------------------------------------------------------------
(* The invariant of the control *)

LEMMA ControlInit == Init => ControlInv
<1> SUFFICES ASSUME Init PROVE ControlInv
  OBVIOUS
<1>1. TypeOK
  <2>1. children \in Seq(Procs)
    BY DEF Init
  <2>2. readers \in [Procs -> SUBSET Holders] /\ writers \in [Procs -> SUBSET Holders]
    BY DEF Init
  <2>3. proc \in [Procs -> {"none", "setup", "run", "zombie", "reaped"}]
    BY DEF Init
  <2>4. forked \in 0 .. MaxForks /\ number_of_commands \in 0 .. MaxCommands /\ i \in Nat
    BY TerminalAssumption DEF Init
  <2> QED
    BY <2>1, <2>2, <2>3, <2>4 DEF Init, TypeOK
<1>2. LineInv
  BY DEF Init, LineInv
<1> QED
  BY <1>1, <1>2 DEF ControlInv

LEMMA StartControl ==
  ASSUME ControlInv, shell = "prompt", NEW n \in 1 .. MaxCommands, Start(n),
         UNCHANGED forked, pending' \in Procs \cup {Nobody}, eof' \in BOOLEAN,
         proc' \in [Procs -> {"none", "setup", "run", "zombie", "reaped"}],
         \A p \in Procs : proc[p] = "none" => proc'[p] = "none"
  PROVE  ControlInv'
<1>1. TypeOK'
  <2>1. children' \in Seq(Procs)
    <3>1. children' = <<>>
      BY StartKeeps
    <3> QED
      BY <3>1
  <2>2. shell' = "fork" /\ i' = 1 /\ number_of_commands' = n
    BY StartKeeps
  <2>3. number_of_commands' \in 0 .. MaxCommands
    BY <2>2, TerminalAssumption
  <2>4. forked' \in 0 .. MaxForks
    BY DEF TypeOK, ControlInv
  <2>5. i' \in Nat
    BY <2>2
  <2>6. readers' \in [Procs -> SUBSET Holders] /\ writers' \in [Procs -> SUBSET Holders]
    BY StartKeeps
  <2> QED
    BY <2>1, <2>2, <2>3, <2>4, <2>5, <2>6 DEF TypeOK
<1>2. LineInv'
  BY StartKeeps, TerminalAssumption DEF TypeOK, ControlInv, LineInv
<1> QED
  BY <1>1, <1>2 DEF ControlInv

LEMMA ForkControl ==
  ASSUME ControlInv, Fork
  PROVE  /\ ControlInv'
         /\ forked + 1 \in Procs
<1> DEFINE p == forked + 1
<1>1. p \in Procs
  BY TerminalAssumption DEF ControlInv, TypeOK, LineInv, Fork, Procs
<1>2. children' = Append(children, p) /\ children' \in Seq(Procs) /\ Len(children') = Len(children) + 1
  BY <1>1 DEF Fork, ControlInv, TypeOK
<1>3. proc' \in [Procs -> {"none", "setup", "run", "zombie", "reaped"}]
  BY <1>1 DEF Fork, ControlInv, TypeOK
<1>4. readers' \in [Procs -> SUBSET Holders] /\ writers' \in [Procs -> SUBSET Holders]
  BY <1>1 DEF Fork, ControlInv, TypeOK, Inherit, Holders
<1>5. TypeOK'
  BY <1>1, <1>2, <1>3, <1>4 DEF Fork, ControlInv, TypeOK, Procs
<1>6. \A q \in Procs : q > forked' => proc'[q] = "none"
  BY <1>1, TerminalAssumption DEF Fork, ControlInv, TypeOK, LineInv, Procs
<1>7. LineInv'
  BY <1>1, <1>2, <1>6, TerminalAssumption DEF Fork, ControlInv, TypeOK, LineInv, Procs
<1> QED
  BY <1>1, <1>5, <1>7 DEF ControlInv

LEMMA ContinueControl ==
  ASSUME ControlInv, Continue
  PROVE  ControlInv'
<1>1. CASE i < number_of_commands /\ i' = i + 1 /\ shell' = "wait" /\ UNCHANGED number_of_commands
  BY <1>1 DEF Continue, ControlInv, TypeOK, LineInv, pipeVars
<1>2. CASE i = number_of_commands /\ shell' = "prompt" /\ ResetCommands /\ UNCHANGED i
  BY <1>2, TerminalAssumption DEF Continue, ControlInv, TypeOK, LineInv, pipeVars, ResetCommands
<1> QED
  BY <1>1, <1>2 DEF Continue

LEMMA HandledControl ==
  ASSUME ControlInv, Handled
  PROVE  /\ proc' \in [Procs -> {"none", "setup", "run", "zombie", "reaped"}]
         /\ \A q \in Procs : proc[q] = "none" => proc'[q] = "none"
         /\ pending' \in Procs \cup {Nobody} /\ UNCHANGED <<forked, eof>>
BY ReapType DEF Handled, ControlInv

LEMMA ControlStep == ControlInv /\ [Next]_vars => ControlInv'
<1> SUFFICES ASSUME ControlInv, [Next]_vars PROVE ControlInv'
  OBVIOUS
<1> USE DEF ControlInv
<1>1. CASE ReadLine
  BY <1>1, StartControl DEF ReadLine, TypeOK
<1>2. CASE EndOfInput
  BY <1>2, RerunStarts, StartControl DEF EndOfInput, TypeOK
<1>3. CASE Quit \/ ForkFails
  BY <1>3, TerminalAssumption DEF Quit, ForkFails, Exits, TypeOK, LineInv, lineVars
<1>4. CASE Fork
  BY <1>4, ForkControl
<1>5. CASE Close
  <2>1. readers' \in [Procs -> SUBSET Holders] /\ writers' \in [Procs -> SUBSET Holders]
    BY <1>5 DEF Close, TypeOK
  <2> QED
    BY <1>5, <2>1 DEF Close, TypeOK, LineInv, lineVars
<1>6. CASE WaitPid
  BY <1>6, ReapType DEF WaitPid, TypeOK, LineInv, lineVars, pipeVars
<1>7. CASE Continue
  BY <1>7, ContinueControl
<1>8. CASE HandleSigchld
  BY <1>8, HandledControl DEF HandleSigchld, TypeOK, LineInv, lineVars, pipeVars
<1>9. CASE InterruptWait
  BY <1>9, HandledControl DEF InterruptWait, TypeOK, LineInv, lineVars, pipeVars
<1>10. CASE InterruptFgets
  BY <1>10, HandledControl, RerunStarts, StartControl DEF InterruptFgets, TypeOK
<1>11. ASSUME NEW p \in Procs, Child(p) PROVE ControlInv'
  <2>1. CASE Exec(p)
    <3>1. readers' \in [Procs -> SUBSET Holders] /\ writers' \in [Procs -> SUBSET Holders]
      BY <2>1 DEF Exec, TypeOK
    <3> QED
      BY <2>1, <3>1 DEF Exec, TypeOK, LineInv, lineVars
  <2>2. CASE ExecFails(p) \/ End(p)
    <3>1. TypeOK'
      BY <2>2, ExitType DEF ExecFails, End
    <3>2. LineInv'
      BY <2>2 DEF ExecFails, End, Exit, TypeOK, LineInv, lineVars
    <3> QED
      BY <3>1, <3>2
  <2> QED
    BY <1>11, <2>1, <2>2 DEF Child
<1>12. CASE UNCHANGED vars
  BY <1>12 DEF vars, lineVars, pipeVars, TypeOK, LineInv
<1> QED
  BY <1>1, <1>2, <1>3, <1>4, <1>5, <1>6, <1>7, <1>8, <1>9, <1>10, <1>11, <1>12 DEF Next

LEMMA ControlInvariant == Spec => []ControlInv
BY ControlInit, ControlStep, PTL DEF Spec

\* The shell's variables keep their types: in particular children[] and the
\* number of commands never exceed what one line brings, whatever the handler
\* interrupts (lines 86-150, 275).
THEOREM TypeCorrect == Spec => []TypeOK
BY ControlInvariant, PTL DEF ControlInv

-----------------------------------------------------------------------------
(* Which ends of the pipes are open *)

Running == {p \in Procs : proc[p] = "run"}

LEMMA ReapRunning ==
  ASSUME TypeOK, NEW p, Reap(p)
  PROVE  Running' = Running
BY ReapType DEF Running, TypeOK

\* An action after which the same programs run, that gives nobody an end of a
\* pipe, and leaves the shell where it held none.
LEMMA EndsStay ==
  ASSUME PipeEndsClosed, Running' \subseteq Running,
         \A q \in Procs : readers'[q] \subseteq readers[q] /\ writers'[q] \subseteq writers[q],
         shell' \in {"wait", "waited", "prompt"} => shell \in {"wait", "waited", "prompt"}
  PROVE  PipeEndsClosed'
BY DEF PipeEndsClosed, Running

LEMMA StartEnds ==
  ASSUME ControlInv, PipeEndsClosed, shell = "prompt", NEW n \in 1 .. MaxCommands, Start(n),
         Running' \subseteq Running
  PROVE  PipeEndsClosed'
<1>1. Shell \notin Running'
  BY TerminalAssumption DEF Running
<1>2. \A q \in Procs : /\ readers'[q] \in {{Shell}, readers[q]}
                       /\ writers'[q] \in {{Shell}, writers[q]}
  BY DEF Start
<1>3. shell' = "fork"
  BY DEF Start
<1> QED
  BY <1>1, <1>2, <1>3 DEF PipeEndsClosed, Running

LEMMA ForkEnds ==
  ASSUME ControlInv, PipeEndsClosed, Fork
  PROVE  PipeEndsClosed'
<1> DEFINE p == forked + 1
<1>1. p \in Procs
  BY ForkControl
<1>2. Running' \subseteq Running \ {p}
  BY <1>1 DEF Fork, Running, ControlInv, TypeOK
<1>3. \A q \in Procs : readers'[q] \subseteq readers[q] \cup {p} /\ writers'[q] \subseteq writers[q] \cup {p}
  BY DEF Fork, Inherit
<1>4. shell' \in {"fork", "close"}
  BY DEF Fork
<1> QED
  BY <1>2, <1>3, <1>4 DEF PipeEndsClosed, Running

LEMMA ExecEnds ==
  ASSUME ControlInv, PipeEndsClosed, NEW p \in Procs, Exec(p)
  PROVE  PipeEndsClosed'
<1>1. Running' \subseteq Running \cup {p}
  BY DEF Exec, Running, ControlInv, TypeOK
<1>2. \A q \in Procs : /\ readers'[q] \subseteq readers[q] /\ writers'[q] \subseteq writers[q]
                       /\ p \in writers'[q] => q = p
                       /\ p \in readers'[q] => q = p - 1
  BY DEF Exec, KeepsRead, KeepsWrite
<1>3. shell' = shell
  BY DEF Exec
<1> QED
  BY <1>1, <1>2, <1>3 DEF PipeEndsClosed, Running, Procs

LEMMA ExitEnds ==
  ASSUME ControlInv, PipeEndsClosed, NEW p \in Procs, Exit(p)
  PROVE  PipeEndsClosed'
<1>1. Running' \subseteq Running
  BY DEF Exit, Running, ControlInv, TypeOK
<1>2. \A q \in Procs : readers'[q] \subseteq readers[q] /\ writers'[q] \subseteq writers[q]
  BY DEF Exit
<1>3. shell' = shell
  BY DEF Exit
<1> QED
  BY <1>1, <1>2, <1>3, EndsStay

LEMMA PipeEndsStep == ControlInv /\ PipeEndsClosed /\ [Next]_vars => PipeEndsClosed'
<1> SUFFICES ASSUME ControlInv, PipeEndsClosed, [Next]_vars PROVE PipeEndsClosed'
  OBVIOUS
<1>1. CASE ReadLine
  BY <1>1, StartEnds DEF ReadLine, Running
<1>2. CASE EndOfInput
  BY <1>2, RerunStarts, StartEnds DEF EndOfInput, Running
<1>3. CASE Quit \/ ForkFails
  BY <1>3, EndsStay DEF Quit, ForkFails, Exits, Running
<1>4. CASE Fork
  BY <1>4, ForkEnds
<1>5. CASE Close
  <2>1. \A q \in Procs : /\ Shell \notin readers'[q] \cup writers'[q]
                         /\ readers'[q] \subseteq readers[q] /\ writers'[q] \subseteq writers[q]
    BY <1>5 DEF Close, ShellKeeps
  <2> QED
    BY <1>5, <2>1 DEF Close, PipeEndsClosed
<1>6. CASE WaitPid
  BY <1>6, ReapRunning, EndsStay DEF WaitPid, ControlInv, pipeVars
<1>7. CASE Continue
  BY <1>7, EndsStay DEF Continue, Running, pipeVars
<1>8. CASE HandleSigchld
  BY <1>8, ReapRunning, EndsStay DEF HandleSigchld, Handled, ControlInv, pipeVars
<1>9. CASE InterruptWait
  BY <1>9, ReapRunning, EndsStay DEF InterruptWait, Handled, ControlInv, pipeVars
<1>10. CASE InterruptFgets
  BY <1>10, ReapRunning, RerunStarts, StartEnds DEF InterruptFgets, Handled, ControlInv
<1>11. ASSUME NEW p \in Procs, Child(p) PROVE PipeEndsClosed'
  BY <1>11, ExecEnds, ExitEnds DEF Child, ExecFails, End
<1>12. CASE UNCHANGED vars
  BY <1>12, EndsStay DEF vars, pipeVars, Running
<1> QED
  BY <1>1, <1>2, <1>3, <1>4, <1>5, <1>6, <1>7, <1>8, <1>9, <1>10, <1>11, <1>12 DEF Next

\* For every number of commands and of lines, and whatever the handler does:
\* a program holds at most the two ends it reads and writes, and the shell
\* none while it waits, so that no end of file is kept back (lines 142-169,
\* 255-259).
THEOREM NoEndIsKept == Spec => []PipeEndsClosed
<1>1. Init => PipeEndsClosed
  BY DEF Init, PipeEndsClosed
<1> QED
  BY <1>1, ControlInvariant, PipeEndsStep, PTL DEF Spec

-----------------------------------------------------------------------------
(* Which children the shell leaves behind *)

EndedSet == {p \in Procs : Ended(p)}
Behind == Cardinality(LeftBehind) + (IF pending = Nobody THEN 0 ELSE 1)

\* LeftBehindBound with names for its two sides.
LEMMA BoundNamed == LeftBehindBound <=> (shell # "exited" => Behind <= Cardinality(EndedSet))
BY DEF LeftBehindBound, Behind, EndedSet

LEMMA ProcsFinite ==
  /\ IsFiniteSet(Procs)
  /\ \A S \in SUBSET Procs : IsFiniteSet(S) /\ Cardinality(S) \in Nat
<1>1. IsFiniteSet(Procs)
  BY FS_Interval, TerminalAssumption DEF Procs
<1> QED
  BY <1>1, FS_Subset, FS_CardinalityType

LEMMA BehindNat ==
  /\ LeftBehind \in SUBSET Procs /\ IsFiniteSet(LeftBehind)
  /\ EndedSet \in SUBSET Procs /\ IsFiniteSet(EndedSet)
  /\ Cardinality(LeftBehind) \in Nat /\ Cardinality(EndedSet) \in Nat
<1>1. LeftBehind \in SUBSET Procs /\ EndedSet \in SUBSET Procs
  BY DEF LeftBehind, EndedSet
<1> QED
  BY <1>1, ProcsFinite

LEMMA BehindNatNext ==
  /\ LeftBehind' \in SUBSET Procs /\ IsFiniteSet(LeftBehind')
  /\ EndedSet' \in SUBSET Procs /\ IsFiniteSet(EndedSet')
  /\ Cardinality(LeftBehind)' \in Nat /\ Cardinality(EndedSet)' \in Nat
<1>1. LeftBehind' \in SUBSET Procs /\ EndedSet' \in SUBSET Procs
  BY DEF LeftBehind, EndedSet
<1> QED
  BY <1>1, ProcsFinite

\* Nobody new is left behind, no SIGCHLD is new, and nobody comes back to life.
LEMMA NobodyNew ==
  ASSUME LeftBehindBound, shell # "exited",
         LeftBehind' \subseteq LeftBehind, EndedSet \subseteq EndedSet',
         pending' # Nobody => pending # Nobody
  PROVE  LeftBehindBound'
<1>1. Cardinality(LeftBehind)' <= Cardinality(LeftBehind)
  BY BehindNat, FS_Subset
<1>2. Cardinality(EndedSet) <= Cardinality(EndedSet)'
  BY BehindNatNext, FS_Subset
<1>3. Behind <= Cardinality(EndedSet)
  BY BoundNamed
<1>4. Behind' <= Cardinality(EndedSet)'
  BY <1>1, <1>2, <1>3, BehindNat, BehindNatNext DEF Behind
<1> QED
  BY <1>4 DEF LeftBehindBound, Behind, EndedSet

\* One child is passed over for one SIGCHLD that is handled.
LEMMA OneForOne ==
  ASSUME LeftBehindBound, shell # "exited", NEW p,
         LeftBehind' \subseteq LeftBehind \cup {p}, EndedSet \subseteq EndedSet',
         pending # Nobody, pending' = Nobody
  PROVE  LeftBehindBound'
<1>1. Cardinality(LeftBehind)' <= Cardinality(LeftBehind) + 1
  <2>1. /\ IsFiniteSet(LeftBehind \cup {p})
        /\ Cardinality(LeftBehind \cup {p}) \in {Cardinality(LeftBehind), Cardinality(LeftBehind) + 1}
    BY BehindNat, FS_AddElement
  <2>2. Cardinality(LeftBehind)' <= Cardinality(LeftBehind \cup {p})
    BY <2>1, FS_Subset
  <2> QED
    BY <2>1, <2>2, BehindNat, BehindNatNext
<1>2. Cardinality(EndedSet) <= Cardinality(EndedSet)'
  BY BehindNatNext, FS_Subset
<1>3. Behind <= Cardinality(EndedSet)
  BY BoundNamed
<1>4. Behind' <= Cardinality(EndedSet)'
  BY <1>1, <1>2, <1>3, BehindNat, BehindNatNext DEF Behind
<1> QED
  BY <1>4 DEF LeftBehindBound, Behind, EndedSet

LEMMA StartBehind ==
  ASSUME ControlInv, shell = "prompt", NEW n \in 1 .. MaxCommands, Start(n),
         \A p \in Procs : Alive(p)' => Alive(p)
  PROVE  LeftBehind' \subseteq LeftBehind
BY DEF LeftBehind, Awaiting

LEMMA ReapBehind ==
  ASSUME TypeOK, NEW p, Reap(p)
  PROVE  /\ \A q \in Procs : (Alive(q)' <=> Alive(q)) /\ (Ended(q) <=> Ended(q)')
         /\ EndedSet \subseteq EndedSet'
BY ReapType DEF Alive, Ended, EndedSet

\* The child of a fork() is one the shell will wait for.
LEMMA ForkBehind ==
  ASSUME ControlInv, Fork
  PROVE  LeftBehind' \subseteq LeftBehind /\ EndedSet \subseteq EndedSet'
<1> DEFINE p == forked + 1
<1>1. p \in Procs /\ proc[p] = "none" /\ i = 1 /\ shell = "fork"
  BY ForkControl DEF ControlInv, TypeOK, LineInv, Fork
<1>2. /\ \A q \in Procs \ {p} : proc'[q] = proc[q]
      /\ proc'[p] = "setup"
  BY <1>1 DEF Fork, ControlInv, TypeOK
<1>3. EndedSet \subseteq EndedSet'
  BY <1>1, <1>2 DEF EndedSet, Ended
<1>4. Awaiting = {children[k] : k \in 1 .. Len(children)}
  BY <1>1 DEF Awaiting
<1>5. children' = Append(children, p) /\ i' = 1 /\ shell' \in {"fork", "close"}
  BY <1>1 DEF Fork
<1>6. Awaiting' = {children'[k] : k \in 1 .. Len(children')}
  BY <1>5 DEF Awaiting
<1>7. children \in Seq(Procs)
  BY DEF ControlInv, TypeOK
<1>8. /\ Len(children') = Len(children) + 1 /\ children'[Len(children) + 1] = p
      /\ \A k \in 1 .. Len(children) : children'[k] = children[k]
  BY <1>1, <1>5, <1>7
<1>9. Awaiting \cup {p} \subseteq Awaiting'
  BY <1>4, <1>6, <1>7, <1>8
<1> QED
  BY <1>2, <1>3, <1>9 DEF LeftBehind, Alive

\* The end of a child: one SIGCHLD more at most, one that has ended more.
LEMMA ExitBehind ==
  ASSUME ControlInv, LeftBehindBound, NEW p \in Procs, Alive(p), Exit(p)
  PROVE  LeftBehindBound'
<1>1. CASE shell = "exited"
  BY <1>1 DEF Exit, LeftBehindBound
<1>2. CASE shell # "exited"
  <2>1. /\ proc'[p] = "zombie"
        /\ \A q \in Procs \ {p} : proc'[q] = proc[q]
    BY DEF Exit, ControlInv, TypeOK
  <2>2. p \notin EndedSet /\ EndedSet' = EndedSet \cup {p}
    BY <2>1 DEF EndedSet, Ended, Alive
  <2>3. Cardinality(EndedSet)' = Cardinality(EndedSet) + 1
    BY <2>2, BehindNat, FS_AddElement
  <2>4. LeftBehind' \subseteq LeftBehind
    BY <2>1 DEF LeftBehind, Alive, Awaiting, Exit, lineVars
  <2>5. Cardinality(LeftBehind)' <= Cardinality(LeftBehind)
    BY <2>4, BehindNat, FS_Subset
  <2>6. Behind <= Cardinality(EndedSet)
    BY <1>2, BoundNamed
  <2>7. Behind' <= Cardinality(EndedSet)'
    BY <2>3, <2>5, <2>6, BehindNat, BehindNatNext DEF Behind
  <2> QED
    BY <2>7 DEF LeftBehindBound, Behind, EndedSet
<1> QED
  BY <1>1, <1>2

LEMMA BehindStep == ControlInv /\ LeftBehindBound /\ [Next]_vars => LeftBehindBound'
<1> SUFFICES ASSUME ControlInv, LeftBehindBound, [Next]_vars PROVE LeftBehindBound'
  OBVIOUS
<1> USE DEF ControlInv
<1>1. CASE ReadLine
  <2>1. LeftBehind' \subseteq LeftBehind
    BY <1>1, StartBehind DEF ReadLine, Alive
  <2> QED
    BY <1>1, <2>1, NobodyNew DEF ReadLine, EndedSet, Ended
<1>2. CASE EndOfInput
  <2>1. LeftBehind' \subseteq LeftBehind
    BY <1>2, RerunStarts, StartBehind DEF EndOfInput, Alive
  <2> QED
    BY <1>2, <2>1, NobodyNew DEF EndOfInput, EndedSet, Ended
<1>3. CASE Quit \/ ForkFails
  BY <1>3 DEF Quit, ForkFails, Exits, LeftBehindBound
<1>4. CASE Fork
  BY <1>4, ForkBehind, NobodyNew DEF Fork
<1>5. CASE Close
  <2>1. LeftBehind' = LeftBehind
    BY <1>5 DEF Close, LeftBehind, Awaiting, Alive, lineVars
  <2> QED
    BY <1>5, <2>1, NobodyNew DEF Close, EndedSet, Ended
<1>6. CASE WaitPid
  <2>1. Awaiting \subseteq Awaiting' \cup {Awaited}
    <3>1. children \in Seq(Procs) /\ i \in Nat
      BY DEF TypeOK
    <3> QED
      BY <1>6, <3>1 DEF WaitPid, Awaiting, Awaited, lineVars
  <2>2. \A q \in Procs : (Alive(q)' <=> Alive(q)) /\ (Alive(q) => q # Awaited)
    BY <1>6, ReapBehind DEF WaitPid, Waitable, Alive, Ended
  <2>3. LeftBehind' \subseteq LeftBehind
    BY <2>1, <2>2 DEF LeftBehind
  <2> QED
    BY <1>6, <2>3, ReapBehind, NobodyNew DEF WaitPid
<1>7. CASE Continue
  <2>1. Awaiting' = Awaiting
    <3>1. CASE i < number_of_commands /\ i' = i + 1 /\ shell' = "wait"
      BY <1>7, <3>1 DEF Continue, Awaiting
    <3>2. CASE i = number_of_commands /\ shell' = "prompt"
      <4>1. Len(children) = i /\ i \in Nat
        BY <1>7, <3>2 DEF Continue, LineInv, TypeOK
      <4> QED
        BY <1>7, <3>2, <4>1 DEF Continue, Awaiting
    <3> QED
      BY <1>7, <3>1, <3>2 DEF Continue
  <2>2. LeftBehind' \subseteq LeftBehind
    BY <1>7, <2>1 DEF Continue, LeftBehind, Alive
  <2> QED
    BY <1>7, <2>2, NobodyNew DEF Continue, EndedSet, Ended
<1>8. CASE HandleSigchld
  <2>1. LeftBehind' \subseteq LeftBehind /\ EndedSet \subseteq EndedSet'
    BY <1>8, ReapBehind DEF HandleSigchld, Handled, LeftBehind, Awaiting, lineVars
  <2> QED
    BY <1>8, <2>1, NobodyNew DEF HandleSigchld, Handled
<1>9. CASE InterruptWait
  <2>1. Awaiting \subseteq Awaiting' \cup {Awaited}
    <3>1. children \in Seq(Procs) /\ i \in Nat
      BY DEF TypeOK
    <3> QED
      BY <1>9, <3>1 DEF InterruptWait, Awaiting, Awaited, lineVars
  <2>2. LeftBehind' \subseteq LeftBehind \cup {Awaited} /\ EndedSet \subseteq EndedSet'
    BY <1>9, <2>1, ReapBehind DEF InterruptWait, Handled, LeftBehind
  <2> QED
    BY <1>9, <2>2, OneForOne DEF InterruptWait, Handled
<1>10. CASE InterruptFgets
  <2>1. LeftBehind' \subseteq LeftBehind /\ EndedSet \subseteq EndedSet'
    BY <1>10, RerunStarts, ReapBehind, StartBehind DEF InterruptFgets, Handled
  <2> QED
    BY <1>10, <2>1, NobodyNew DEF InterruptFgets, Handled
<1>11. ASSUME NEW p \in Procs, Child(p) PROVE LeftBehindBound'
  <2>1. CASE Exec(p)
    <3>1. /\ proc[p] = "setup" /\ proc'[p] = "run"
          /\ \A q \in Procs \ {p} : proc'[q] = proc[q]
      BY <2>1 DEF Exec, TypeOK
    <3>2. LeftBehind' \subseteq LeftBehind /\ EndedSet \subseteq EndedSet'
      BY <2>1, <3>1 DEF Exec, LeftBehind, EndedSet, Ended, Alive, Awaiting, lineVars
    <3>3. CASE shell = "exited"
      BY <2>1, <3>3 DEF Exec, LeftBehindBound
    <3> QED
      BY <2>1, <3>2, <3>3, NobodyNew DEF Exec
  <2>2. CASE ExecFails(p) \/ End(p)
    BY <2>2, ExitBehind DEF ExecFails, End, Alive
  <2> QED
    BY <1>11, <2>1, <2>2 DEF Child
<1>12. CASE UNCHANGED vars
  BY <1>12 DEF vars, lineVars, LeftBehindBound, LeftBehind, Alive, Awaiting, Ended
<1> QED
  BY <1>1, <1>2, <1>3, <1>4, <1>5, <1>6, <1>7, <1>8, <1>9, <1>10, <1>11, <1>12 DEF Next

\* For every number of commands and of lines: the shell passes over a running
\* child only for another one that has ended, once for each that has, wherever
\* SIGCHLD meets it (lines 15-25, 262-272).
THEOREM FewLeftBehind == Spec => []LeftBehindBound
<1>1. Init => LeftBehindBound
  <2> SUFFICES ASSUME Init PROVE LeftBehindBound
    OBVIOUS
  <2>1. LeftBehind = {} /\ pending = Nobody
    BY DEF Init, LeftBehind, Alive
  <2>2. Behind = 0
    BY <2>1, FS_EmptySet DEF Behind
  <2> QED
    BY <2>2, BoundNamed, BehindNat
<1> QED
  BY <1>1, ControlInvariant, BehindStep, PTL DEF Spec

=============================================================================
