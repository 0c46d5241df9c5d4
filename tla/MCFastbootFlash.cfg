CONSTANTS
  Blocks = 2
  Extra = 2
  CompressedSlots = 1
  WriteSlots = 1
SPECIFICATION FairSpec
INVARIANTS
  TypeOK
  SuccessMeansFlashed
PROPERTIES
  CancelEnds
  EveryFlashIsAnswered
CHECK_DEADLOCK FALSE
