CHECK_DEADLOCK FALSE
SPECIFICATION FairReallocSpec
CONSTANTS
  MEMRECPERENTRY = 2
  Unwritten = Unwritten
  Pages = {1, 2, 4, 5}
  FilledPages = {1, 2}
  Calls = {}
  Reallocs <- MCAligned
  PAGESIZE = 2
  Fds = {f1}
  RECTREENODEPOOLSIZE = 4
  RECTREENODETHRESHOLDRATIO = 0
  RECBLOCKENTRYPOOLSIZE = 8
  MaxBlocks = 2
PROPERTY ReallocEnds
