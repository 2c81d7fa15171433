SPECIFICATION Spec
CONSTANTS
  a = a
  l = l
  bare = bare
  Names <- MCNames
  Extensionless = {l, bare}
  Longer <- MCLonger
  Junk = Junk
  NoName = NoName
  MaxSize = 2
  MaxEdits = 2
CHECK_DEADLOCK FALSE
INVARIANTS
  LostByRace
PROPERTIES
  Converges NoWrongDelete
