SPECIFICATION Spec
CONSTANTS
  Clients = {c1, c2, c3}
  MaxClients = 2
  MaxSize = 2
  Interrupts = TRUE
  Junk = Junk
CHECK_DEADLOCK FALSE
SYMMETRY Symmetry
INVARIANTS
  TypeOK FramesWhole OnePlace NobodyForgotten SlotsTruthful CountNotUnderstated
