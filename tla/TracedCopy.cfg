CHECK_DEADLOCK FALSE
SPECIFICATION ReallocSpec
CONSTANTS
  MEMRECPERENTRY = 2
  Unwritten = Unwritten
  Pages = {1, 2, 4, 5, 6}
  FilledPages = {1, 2}
  Calls <- MCCalls
  Reallocs <- MCReallocs
  PAGESIZE = 3
  Fds = {f1}
  RECTREENODEPOOLSIZE = 5
  RECTREENODETHRESHOLDRATIO = 0
  RECBLOCKENTRYPOOLSIZE = 8
  MaxBlocks = 3
CONSTRAINT OnePageFills
VIEW ContentsView
INVARIANTS ShortPagesMove PrefixStays ReallocTypeOK ReallocMoves ReallocFailsOnlyThere
