SPECIFICATION FairSpec
CONSTANTS
  Clients = {c1, c2}
  MaxClients = 1
  MaxSize = 2
  Interrupts = FALSE
  Junk = Junk
CHECK_DEADLOCK FALSE
PROPERTIES
  QueuedIsServed
