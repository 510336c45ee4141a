CHECK_DEADLOCK FALSE
SPECIFICATION FairSpec
CONSTANTS
  Size = 5
  FileLen = 2
  MaxLen = 3
INVARIANTS
  TypeOK
  RecordsDisjoint
  HaltsOnlyOnEmpty
  TruthfulWhenWhole
  MissesOnlyBehind
  SameWithinRecords
PROPERTIES
  CallEnds
