SPECIFICATION Spec
CONSTANTS
  Clients = {c1, c2, c3}
  threadSize = 2
  Files = 2
  Found <- TwoFiles
  MaxSize = 2
  MaxChanges = 1
CHECK_DEADLOCK FALSE
INVARIANTS
  SlotsForEver EndsOnlyBy DownloadTrue
PROPERTIES
  ComesThrough
