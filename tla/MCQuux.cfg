SPECIFICATION Spec
CONSTANTS
  MainWords = 8
  PageWords = 4
  LineWords = 2
  Ways = 2
  Sets = 1
  VirtualWords = 8
  HitNs = 1
  ReadNs = 5
  WriteNs = 7
  PortCycleNs = 2
  PortFinishNs = 1
  Reaches = {"none", "line", "page"}
  PortPrograms <- MCPortPrograms
  Pages = {0, 1}
  MaxTransfers = 1
  VhdBlocks = 2
  VhdSectors = 4
  Blocks = 4
  MemoryPages = 3
  ClpCount = 2
  UnboxedTag = 5
  BlockNs = 1
  Jobs <- MCJobs
  MaxJobs = 3
  MaxCuts = 1
  SeqCount = 3
  MaxRequests = 4
  MaxRuns = 2
  rw = rw
  ro = ro
  bare = bare
  na = na
  nb = nb
  nc = nc
  Paths <- MCPaths
  Named = {ro}
  Defaults = {rw, bare}
  ReadOnly = {ro, bare}
  Names <- MCNames
  MaxHandles = 2
  MaxLen = 2
  TempIds = {t1, t2}
  MovesOpen = FALSE
SYMMETRY MCSymmetry
INVARIANTS PortKept DiskKept WindowKept StoreKept
PROPERTY NeverOverwrites
CHECK_DEADLOCK FALSE
