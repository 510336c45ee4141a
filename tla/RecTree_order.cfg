SPECIFICATION Spec
CONSTANTS
  MEMRECPERENTRY = 2
  Unwritten = Unwritten
  Pages = {1, 2}
  PAGESIZE = 4
  Fds = {f1}
  RECTREENODEPOOLSIZE = 5
  RECTREENODETHRESHOLDRATIO = 6
  RECBLOCKENTRYPOOLSIZE = 1
  MaxBlocks = 2
INVARIANTS
  TypeOK
  PageOrdered
PROPERTY ImplementsPageLog
