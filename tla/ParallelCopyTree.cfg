SPECIFICATION Spec
CONSTANTS
  f1 = f1  f2 = f2  f3 = f3  f4 = f4  root = root  sub = sub  pipe = pipe
  None = None
  Files <- MCFiles
  Dirs = {root, sub}
  Fifos = {pipe}
  Root = root
  Listing <- MCListing
  Depth <- MCDepth
  FileType <- MCFileType
  Size <- MCSize
  Types <- MCTypes
  FifoType = "fifo"
  ChunkSize = 2
  Workers = {w1, w2}
  BufSize = 3
  SpuriousWakeups = TRUE
  ShortWrites = TRUE
CHECK_DEADLOCK FALSE
INVARIANTS
  TypeOK TaskOwnership OneTraverser NoSignalLost
  FinalReport CompleteOrReported
PROPERTIES
  DrainsAfterDone ImplementsPipeline
