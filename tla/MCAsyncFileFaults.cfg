CONSTANTS
  MaxBlocks = 2
  NumSlots = 2
  QueueDepth = 2
  MinQueueDepth = 2
  WritesMayFail = TRUE
  SubmitMayFail = TRUE
  CompletionsMayBeLate = TRUE
  SharedQueueRaces = TRUE
SPECIFICATION WatchedSpec
PROPERTIES
  TransferEnds
