SPECIFICATION FairSpec
CONSTANTS
  Cylinders = 2
  Heads = 2
  BlocksPerTrack = 2
  Pages <- MCPages
  Units = {0, 1, 2}
  Online = {0, 1}
  ReadOnly = {1}
  MemSize = 3
  ClpWrap = 2
  Timed = TRUE
  Polite = TRUE
  IoErrors = TRUE
  Codes = {"Read", "ReadCompare", "Write", "Seek", "AtEase", "Recalibrate", "FaultClear", "OffsetClear", "Reset", "Reserved", "ReadAll", "WriteAll", "WriteReversed", "WriteAllReversed", "ReadAllReversed"}
  Seeks <- MCSeeks
  Lists <- MCLists
  Laid <- MCLaid
  Memories <- MCMemories
  Pack <- MCPack
  MaxOps = 4
INVARIANTS Inv TimeoutIsAHangs
PROPERTIES DaNamesTheBlock TransferSafe TransferEnds
CHECK_DEADLOCK FALSE
