CHECK_DEADLOCK FALSE
SPECIFICATION Spec
CONSTANTS
  MEMRECPERENTRY = 2
  Unwritten = Unwritten
  Pages = {1, 2}
  PAGESIZE = 3
  Fds = {f1}
  RECTREENODEPOOLSIZE = 1
  RECTREENODETHRESHOLDRATIO = 6
  RECBLOCKENTRYPOOLSIZE = 1
  MaxBlocks = 2
PROPERTY SweepKeepsMapped
