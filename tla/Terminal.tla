------------------------------ MODULE Terminal ------------------------------
(***************************************************************************)
(* HW2/terminal.c: a shell that runs the commands of a line in children    *)
(* joined by pipes and waits for them, while a handler of SIGCHLD waits    *)
(* for them, too.                                                          *)
(*                                                                         *)
(* A process is named by the order of the forks, and the pipe between two  *)
(* commands by the process that writes into it.  Programs are filters:     *)
(* they may end at any time, and must when their input has ended or their  *)
(* output has no reader.  What they write is left out.                     *)
(***************************************************************************)
EXTENDS Integers, Sequences, FiniteSets

CONSTANTS
  MaxForks,     \* bound of the model: how many children are forked in all
  MaxCommands,  \* bound of the model: commands in one line, below MAX_ARGS
  Shell, Nobody

Procs == 1 .. MaxForks
Holders == Procs \cup {Shell}

ASSUME TerminalAssumption ==
  /\ MaxForks \in Nat \ {0} /\ MaxCommands \in Nat \ {0}
  /\ Shell \notin Procs /\ Nobody \notin Procs \cup {Shell}

VARIABLES
  shell,     \* where main() is
  forked,    \* how many children were forked so far
  children,  \* children[]: the processes of the line
  number_of_commands,
  i,         \* the loop variable of the second loop: children[i] is awaited
  pending,   \* si_pid of the SIGCHLD that is pending, or Nobody
  eof,       \* standard input has ended
  proc,      \* proc[p]: where child p is
  readers,   \* readers[q]: who holds the read end of pipe q
  writers    \* writers[q]: who holds its write end

lineVars == <<children, number_of_commands, i>>
pipeVars == <<readers, writers>>
vars == <<shell, forked, lineVars, pending, eof, proc, pipeVars>>

Alive(p) == proc[p] \in {"setup", "run"}
Ended(p) == proc[p] \in {"zombie", "reaped"}

\* waitpid(p) takes a zombie away and has no effect on anything else.
Reap(p) == proc' = [proc EXCEPT ![p] = IF @ = "zombie" THEN "reaped" ELSE @]

Init ==
  /\ shell = "prompt" /\ forked = 0
  /\ children = <<>> /\ number_of_commands = 0 /\ i = 1
  /\ pending = Nobody /\ eof = FALSE
  /\ proc = [p \in Procs |-> "none"]
  /\ readers = [q \in Procs |-> {}] /\ writers = [q \in Procs |-> {}]

-----------------------------------------------------------------------------
(* The shell *)

\* A line of n commands is parsed and pipe() is called n - 1 times.  Nobody looks
\* whether it failed: the two numbers of that pipe are then no descriptors, which
\* every close() and dup2() of them passes over.
Start(n) ==
  /\ forked + n <= MaxForks
  /\ number_of_commands' = number_of_commands + n /\ children' = <<>> /\ i' = 1
  /\ \E made \in SUBSET (forked + 1 .. forked + n - 1) :
       /\ readers' = [q \in Procs |-> IF q \in made THEN {Shell} ELSE readers[q]]
       /\ writers' = [q \in Procs |-> IF q \in made THEN {Shell} ELSE writers[q]]
  /\ shell' = "fork"

\* fgets() returns a line.
ReadLine ==
  /\ shell = "prompt" /\ ~eof /\ pending = Nobody
  /\ \E n \in 1 .. MaxCommands : Start(n)
  /\ UNCHANGED <<forked, pending, eof, proc>>

\* fgets() returns NULL and nobody looks: command[] holds what the strtok()
\* calls left of the last line, its first word; before the first line,
\* anything.
Rerun == \E n \in IF forked = 0 THEN 1 .. MaxCommands ELSE {1} : Start(n)

EndOfInput ==
  /\ shell = "prompt" /\ pending = Nobody
  /\ eof' = TRUE
  /\ Rerun
  /\ UNCHANGED <<forked, pending, proc>>

\* ":q", or fork() failed: exit() closes what the shell holds.
Exits ==
  /\ shell' = "exited"
  /\ readers' = [q \in Procs |-> readers[q] \ {Shell}]
  /\ writers' = [q \in Procs |-> writers[q] \ {Shell}]
  /\ UNCHANGED <<forked, lineVars, pending, eof, proc>>

Quit == shell = "prompt" /\ ~eof /\ pending = Nobody /\ Exits

ForkFails == shell = "fork" /\ pending = Nobody /\ Exits

\* One turn of the first loop: the child has a copy of every descriptor.
Inherit(holders, p) == IF Shell \in holders THEN holders \cup {p} ELSE holders

Fork ==
  LET p == forked + 1
  IN  /\ shell = "fork" /\ pending = Nobody
      /\ forked' = p
      /\ children' = Append(children, p)
      /\ proc' = [proc EXCEPT ![p] = "setup"]
      /\ readers' = [q \in Procs |-> Inherit(readers[q], p)]
      /\ writers' = [q \in Procs |-> Inherit(writers[q], p)]
      /\ shell' = IF Len(children) + 1 = number_of_commands THEN "close" ELSE "fork"
      /\ UNCHANGED <<number_of_commands, i, pending, eof>>

\* The pipes are closed in the parent.
ShellKeeps_WriteEnd(end) == end = "write"
ShellKeeps(end) == FALSE

Close ==
  /\ shell = "close" /\ pending = Nobody
  /\ readers' = [q \in Procs |-> IF ShellKeeps("read") THEN readers[q] ELSE readers[q] \ {Shell}]
  /\ writers' = [q \in Procs |-> IF ShellKeeps("write") THEN writers[q] ELSE writers[q] \ {Shell}]
  /\ shell' = "wait"
  /\ UNCHANGED <<forked, lineVars, pending, eof, proc>>

\* waitpid(children[i]): the child is a zombie, or it was reaped by the handler
\* and there is nothing to wait for.  Otherwise the call blocks.
Awaited == children[i]
Waitable_NoHang == TRUE
Waitable_ZombieOnly == proc[Awaited] = "zombie"
Waitable == Ended(Awaited)

WaitPid ==
  /\ shell = "wait" /\ Waitable
  /\ Reap(Awaited)
  /\ shell' = "waited"
  /\ UNCHANGED <<forked, lineVars, pending, eof, pipeVars>>

\* The status, of whomever it is, is printed, and the loop goes on.  A signal
\* that is pending when a system call returns is handled first.
ResetCommands_Forgotten == UNCHANGED number_of_commands
ResetCommands == number_of_commands' = 0

Continue ==
  /\ shell = "waited" /\ pending = Nobody
  /\ \/ /\ i < number_of_commands
        /\ i' = i + 1 /\ shell' = "wait"
        /\ UNCHANGED number_of_commands
     \/ /\ i = number_of_commands
        /\ shell' = "prompt"
        /\ ResetCommands
        /\ UNCHANGED i
  /\ UNCHANGED <<forked, children, pending, eof, proc, pipeVars>>

-----------------------------------------------------------------------------
(* handle_sigchld() *)

\* waitpid(si_pid, WNOHANG), wherever the shell is.  The SIGTERM it sends to
\* the shell after a SIGKILL is one that main() ignores.
Handled ==
  /\ pending # Nobody /\ shell # "exited"
  /\ Reap(pending)
  /\ pending' = Nobody
  /\ UNCHANGED <<forked, eof>>

HandleSigchld == Handled /\ UNCHANGED <<shell, lineVars, pipeVars>>

\* The handler was set up without SA_RESTART: a call of waitpid() that blocks
\* returns -1, and the loop goes on to print and to the next child.
Blocks == Alive(Awaited)

InterruptWait ==
  /\ shell = "wait" /\ Blocks
  /\ Handled
  /\ shell' = "waited"
  /\ UNCHANGED <<lineVars, pipeVars>>

\* So does fgets(), with NULL.
InterruptFgets == shell = "prompt" /\ ~eof /\ Handled /\ Rerun

-----------------------------------------------------------------------------
(* The children *)

\* A process that ends closes what it holds and becomes a zombie.  SIGCHLD is
\* not queued: while one is pending a second is lost.
Pending(p) == IF pending = Nobody THEN p ELSE pending

Exit(p) ==
  /\ proc' = [proc EXCEPT ![p] = "zombie"]
  /\ readers' = [q \in Procs |-> readers[q] \ {p}]
  /\ writers' = [q \in Procs |-> writers[q] \ {p}]
  /\ pending' = IF shell = "exited" THEN pending ELSE Pending(p)
  /\ UNCHANGED <<shell, forked, lineVars, eof>>

\* Which ends a child keeps: it reads from the pipe of the command before it
\* and writes into its own, unless "<" or ">" put a file in its place.
KeepsRead(p, q, in) == q = p - 1 /\ ~in
KeepsWrite_All(p, q, out) == ~out
KeepsWrite(p, q, out) == q = p /\ ~out

\* close(), dup2(), the redirections, the log file and execvp().
Exec(p) ==
  /\ proc[p] = "setup"
  /\ proc' = [proc EXCEPT ![p] = "run"]
  /\ \E in, out \in BOOLEAN :
       /\ readers' = [q \in Procs |-> IF KeepsRead(p, q, in) THEN readers[q] ELSE readers[q] \ {p}]
       /\ writers' = [q \in Procs |-> IF KeepsWrite(p, q, out) THEN writers[q] ELSE writers[q] \ {p}]
  /\ UNCHANGED <<shell, forked, lineVars, pending, eof>>

\* A redirection, the log file or execvp() failed.
ExecFails(p) == proc[p] = "setup" /\ Exit(p)

\* The program ends, by itself or by a signal.
End(p) == proc[p] = "run" /\ Exit(p)

\* Its input has ended, or nobody reads its output.
MustEnd(p) ==
  \/ \E q \in Procs : p \in readers[q] /\ writers[q] = {}
  \/ \E q \in Procs : p \in writers[q] /\ readers[q] = {}

Child(p) == Exec(p) \/ ExecFails(p) \/ End(p)

Next ==
  \/ ReadLine \/ EndOfInput \/ Quit \/ Fork \/ ForkFails \/ Close \/ WaitPid \/ Continue
  \/ HandleSigchld \/ InterruptWait \/ InterruptFgets
  \/ \E p \in Procs : Child(p)

Spec == Init /\ [][Next]_vars

\* The shell runs, signals are delivered, children start, and filters end with
\* their input or their reader.  Nothing is assumed of the user.
FairSpec ==
  /\ Spec
  /\ WF_vars(Fork \/ ForkFails \/ Close \/ WaitPid \/ Continue)
  /\ WF_vars(HandleSigchld \/ InterruptWait \/ InterruptFgets)
  /\ \A p \in Procs : WF_vars(Exec(p) \/ ExecFails(p)) /\ WF_vars(MustEnd(p) /\ End(p))

-----------------------------------------------------------------------------
(* Properties *)

\* Every variable has the type its declaration gives it.
TypeOK ==
  /\ shell \in {"prompt", "fork", "close", "wait", "waited", "exited"}
  /\ forked \in 0 .. MaxForks
  /\ children \in Seq(Procs)
  /\ number_of_commands \in 0 .. MaxCommands
  /\ i \in Nat
  /\ pending \in Procs \cup {Nobody} /\ eof \in BOOLEAN
  /\ proc \in [Procs -> {"none", "setup", "run", "zombie", "reaped"}]
  /\ readers \in [Procs -> SUBSET Holders] /\ writers \in [Procs -> SUBSET Holders]

\* The children the shell may still wait for, and those it has passed over.
Awaiting ==
  IF shell \in {"fork", "close", "wait"} THEN {children[k] : k \in i .. Len(children)}
  ELSE IF shell = "waited" THEN {children[k] : k \in i + 1 .. Len(children)}
  ELSE {}
LeftBehind == {p \in Procs : Alive(p)} \ Awaiting

\* A child is left running only for another one that ended meanwhile: when the
\* shell prompts, at most as many children run as have ended (lines 15-25,
\* 262-272).
LeftBehindBound ==
  shell # "exited"
    => Cardinality(LeftBehind) + (IF pending = Nobody THEN 0 ELSE 1)
         <= Cardinality({p \in Procs : Ended(p)})

\* Once the shell waits, a program holds no pipe end but that of its own input
\* and output, and neither does the shell: an end that was kept would keep a
\* reader from its end of file (lines 142-169, 256-259).
PipeEndsClosed ==
  \A q \in Procs :
    /\ shell \in {"wait", "waited", "prompt"} => Shell \notin readers[q] \cup writers[q]
    /\ {p \in Procs : proc[p] = "run"} \cap writers[q] \subseteq {q}
    /\ {p \in Procs : proc[p] = "run"} \cap readers[q] \subseteq {q + 1}

\* The end of a command spreads through its line: who reads from it ends, and
\* who writes to it, whatever the shell and the handler do meanwhile.
EndSpreads ==
  \A p \in 1 .. MaxForks - 1 :
    /\ Ended(p) /\ p + 1 \in readers[p] ~> p + 1 \notin readers[p]
    /\ Ended(p + 1) /\ p \in writers[p] ~> p \notin writers[p]

\* Once all commands of the line have ended the prompt comes back, whoever
\* reaped them and whatever signals were lost.
PromptReturns ==
  shell = "wait" /\ (\A k \in DOMAIN children : Ended(children[k])) ~> shell \in {"prompt", "exited"}

=============================================================================
