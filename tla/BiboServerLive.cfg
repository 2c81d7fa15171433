SPECIFICATION FairSpec
CONSTANTS
  Clients = {c1, c2}
  MaxClients = 1
  MaxSize = 1
  Interrupts = FALSE
  Junk = Junk
CHECK_DEADLOCK FALSE
PROPERTIES
  RequestAnswered ConnectedIsServed
