CHECK_DEADLOCK FALSE
SPECIFICATION Spec
CONSTANTS
  MEMRECPERENTRY = 2
  Unwritten = Unwritten
  Pages = {1, 2, 3}
  PAGESIZE = 3
  Fds = {f1, f2}
  RECTREENODEPOOLSIZE = 2
  RECTREENODETHRESHOLDRATIO = 10
  RECBLOCKENTRYPOOLSIZE = 1
  MaxBlocks = 2
SYMMETRY FdSymmetry
CONSTRAINT OnePageGrows
INVARIANTS FillingNewest SweepReadsWritten PoolsBalanced
PROPERTY ShortMappedPageKept
