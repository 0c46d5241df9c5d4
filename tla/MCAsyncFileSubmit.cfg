CONSTANTS
  MaxBlocks = 3
  NumSlots = 2
  QueueDepth = 2
  MinQueueDepth = 2
  WritesMayFail = FALSE
  SubmitMayFail = TRUE
  CompletionsMayBeLate = FALSE
  SharedQueueRaces = FALSE
SPECIFICATION WatchedSpec
INVARIANTS
  SuccessMeansWritten
