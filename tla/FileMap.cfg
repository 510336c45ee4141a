CHECK_DEADLOCK FALSE
SPECIFICATION Spec
CONSTANTS
  Files = {A}
  Fds = {1, 2}
  Names = {1, 2}
  CallerPath = 0
  Starts = {0, 1}
  MapLen = 1
  MAP_FAILED = 9
  MAX_FILE_NUM = 2
  FILEMAPTREENODEPOOLSIZE = 2
  NameTreeBound = 2
  None = None
VIEW View
INVARIANTS
  TypeOK
  AddressTreeLive
  EntriesLive
  EntryMeansMapped
  NameTreeLive
  ReadsStayMapped
  NamesAllocated
  LookupTouches
