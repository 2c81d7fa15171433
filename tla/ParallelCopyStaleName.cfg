SPECIFICATION Spec
CONSTANTS
  f1 = f1  f2 = f2  f3 = f3  f4 = f4  root = root  sub = sub  pipe = pipe
  None = None
  Files <- FlatFiles
  Dirs = {root}
  Fifos = {}
  Root = root
  Listing <- FlatListing
  Depth <- FlatDepth
  FileType <- FlatFileType
  Size <- FlatSize
  Types <- MCTypes
  FifoType = "fifo"
  ChunkSize = 2
  Workers = {w1}
  BufSize = 2
  SpuriousWakeups = FALSE
  ShortWrites = FALSE
CHECK_DEADLOCK FALSE
INVARIANTS
  TaskNamesItsFile
