SPECIFICATION FairSpec
CONSTANTS
  MaxForks = 5
  MaxCommands = 3
  Shell = Shell
  Nobody = Nobody
CHECK_DEADLOCK FALSE
INVARIANTS
  TypeOK LeftBehindBound PipeEndsClosed
PROPERTIES
  EndSpreads PromptReturns
