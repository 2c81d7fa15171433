SPECIFICATION Spec
CONSTANTS
  a = a
  l = l
  bare = bare
  Names <- TwoNames
  Extensionless = {}
  Longer <- NoneLonger
  Junk = Junk
  NoName = NoName
  MaxSize = 2
  MaxEdits = 2
CHECK_DEADLOCK FALSE
INVARIANTS
  OnlyFileData
