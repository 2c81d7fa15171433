SPECIFICATION Spec
CONSTANTS
  Keys <- MCKeys
  TABLE_SIZE = 3
  hash <- MCHash
  MaxCount = 4
  MaxSize = 4
  Data = {a, b, c}
  NoItem = NoItem
  MaxLength = 5
  MaxLine = 4
  BufferSize = 4
  Units <- MCUnits
  Capacity = 2
  Interrupts = TRUE
  OPEN_MAX = 8
  tempfd = 3
  invalidfd = 5
  invalidfd2 = 6
  invalidfd3 = 7
  Closed = Closed
  Inherited = Inherited
  File = File
  Writers = {p, q}
  Before = Before
  MaxBytes = 2
  MaxInitial = 1
CHECK_DEADLOCK FALSE
INVARIANTS
  OneNodePerKey QueueTypeOK AnswerIsTrue
  InStep Dup2Agrees OthersAsBefore BytesKept
PROPERTIES
  ImplementsCounters ImplementsFifo PromptReturns
