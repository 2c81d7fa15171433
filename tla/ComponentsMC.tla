---------------------------- MODULE ComponentsMC ----------------------------
(***************************************************************************)
(* The components that share no state, checked side by side: one of them   *)
(* runs, whichever, and the others stay as they are at first.              *)
(***************************************************************************)
EXTENDS HashTable, BiboQueue, BiboReadF, BiboSession, MyDup, AppendMeMore

VARIABLE running

vars == <<running, tableVars, queueVars, readVars, sessionVars, dupVars, appendVars>>

\* Four keys, three of them in one chain; a chain stays empty.
MCKeys == {"c", "h", "txt", "fifo"}
MCHash == [k \in MCKeys |-> IF k \in {"c", "h", "fifo"} THEN 0 ELSE 1]

\* One answer is empty, and one is longer than the pipe.
MCUnits == [r \in Answered |-> IF r = "readF" THEN 0 ELSE IF r = "list" THEN 3 ELSE 1]

\* A component that does not run starts in one of its initial states.
Idle ==
  /\ running # "readF" => file = <<>> /\ line_number = -1
  /\ running # "mydup" => inherited = [f \in Fds |-> Closed]
  /\ running # "append" => /\ initial = 0
                           /\ third_arg = [p \in Writers |-> FALSE]
                           /\ num_bytes = [p \in Writers |-> 0]

Init ==
  /\ running \in {"table", "queue", "readF", "session", "mydup", "append"}
  /\ Idle
  /\ TableInit /\ QueueInit /\ ReadInit /\ SessionInit /\ DupInit /\ AppendInit

Table ==
  /\ running = "table" /\ TableNext
  /\ UNCHANGED <<running, queueVars, readVars, sessionVars, dupVars, appendVars>>

Queue ==
  /\ running = "queue" /\ QueueNext
  /\ UNCHANGED <<running, tableVars, readVars, sessionVars, dupVars, appendVars>>

Read ==
  /\ running = "readF" /\ ReadNext
  /\ UNCHANGED <<running, tableVars, queueVars, sessionVars, dupVars, appendVars>>

InSession(step) ==
  /\ running = "session" /\ step
  /\ UNCHANGED <<running, tableVars, queueVars, readVars, dupVars, appendVars>>

Dups ==
  /\ running = "mydup" /\ DupNext
  /\ UNCHANGED <<running, tableVars, queueVars, readVars, sessionVars, appendVars>>

Appends ==
  /\ running = "append" /\ AppendNext
  /\ UNCHANGED <<running, tableVars, queueVars, readVars, sessionVars, dupVars>>

Next == Table \/ Queue \/ Read \/ InSession(SessionNext) \/ Dups \/ Appends

\* The fairness of FairSession, when it is the session that runs.
Spec == Init /\ [][Next]_vars /\ WF_vars(InSession(ClientRuns)) /\ WF_vars(InSession(Child))
=============================================================================
