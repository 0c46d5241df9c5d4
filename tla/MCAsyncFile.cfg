CONSTANTS
  MaxBlocks = 3
  NumSlots = 3
  QueueDepth = 4
  MinQueueDepth = 2
  WritesMayFail = TRUE
  SubmitMayFail = FALSE
  CompletionsMayBeLate = FALSE
  SharedQueueRaces = FALSE
SPECIFICATION FairSpec
INVARIANTS
  TypeOK
  SuccessMeansWritten
  BuffersStayValid
  CallbackOnce
