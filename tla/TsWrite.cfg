CHECK_DEADLOCK FALSE
SPECIFICATION Spec
CONSTANTS
  Fns = {"write", "fwrite"}
  PAGESIZE = 3
  MaxLen = 6
  MaxRun = 2
  INT_MAX = 7
  ULONG_MAX = 63
INVARIANTS
  TypeOK
  FwriteSameWithinWrite
  WriteMissesNoRecord
  NotFoundBound
