CHECK_DEADLOCK FALSE
SPECIFICATION FairSpec
CONSTANTS
  Lengths = {0, 1, 2, 3, 4, 5, 6, 7, 8, 9, 15, 16, 17, 31, 32, 33, 63, 64, 65,
             95, 96, 97, 127, 128, 129, 255, 256, 257, 258, 288, 300, 400}
  Misalignments = {0, 1, 31}
  DifferSets <- MCDifferSets
INVARIANTS
  TypeOK
  ReportsFirstDifference
  EqualReturnsZeroButShort
  LoadsInBounds
PROPERTY Terminates
