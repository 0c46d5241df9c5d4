SPECIFICATION FairSpec
CONSTANTS
  Chunks = 3
  RingSlots = 1
  HashKnown = TRUE
  NetworkMayFail = TRUE
  StallsHappen = TRUE
  DeviceMayFail = TRUE
  ArchiveMayBeBad = TRUE
  ShortSource = TRUE
  EmptySource = FALSE
  AsyncMayFail = FALSE
  CustomiseMayFail = FALSE
INVARIANTS TypeOK SuccessMeansWritten TableComesLast EndIsGenuine AnswerAtTheEnd
PROPERTIES CancelledNeverSucceeds ExtractionEnds
