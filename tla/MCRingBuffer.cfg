CONSTANTS
  NumSlots = 3
  StallTimeout = 2
  MaxChunks = 4
SPECIFICATION FairSpec
INVARIANTS
  TypeOK
  SlotOwnership
PROPERTIES
  CommittedIsDrained
  NobodyHangs
  ImplementsChannel
