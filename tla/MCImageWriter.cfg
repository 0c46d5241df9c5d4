SPECIFICATION FairSpec
CONSTANTS
  Writes = 2
  Presses = 1
  Backlog = 1
INVARIANTS
  TypeOK
  SingleWriter
PROPERTIES
  LetGoIsSilent
  SuccessIsClean
  CancelIsAnswered
