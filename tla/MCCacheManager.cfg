CONSTANTS
  Images = {a, b}
  Packed = {a}
  NoImage = none
  MaxWrites = 2
  MaxRuns = 2
SPECIFICATION FairSpec
INVARIANTS
  TypeOK
  SourceIsWhole
PROPERTIES
  GoodCopyIsKept
  CheckEnds
