SPECIFICATION Spec
CONSTANTS
  InputBacklog = 2
  Backlog = 3
  FifoWords = 2
  WordBits = 2
  MaxKeys = 6
  CountMod = 4
  PointerBacklog = 2
  Places = {0, 3}
  StepTicks = 2
  HalfMod = 2
  QuietTicks = 2
  IntervalTicks = 2
  MaxMoves = 3
  MaxTicks = 5
  DataBits = 1
  ClockTicks = 2
  ClocksPerBit = 1
  Framings <- MCFramings
  Commands <- MCCommands
  SerialBacklog = 1
  SerialOps = 2
  SerialCalls = 1
  SerialTypes = 1
  SerialCalling = 2
  SerialTime = 13
  TermRows = 2
  TermWords = {0, 1}
  TermMaps = {1, 2}
  Asked <- MCParts
  MaxViewers = 1
  MaxStream = 2
  MaxSent = 2
  MaxDrawn = 2
  MaxTermCalls = 2
  SyncProm <- MCProm
  SyncPrograms <- MCPrograms
  InstructionTicks <- MCTicks
  MostInstructions = 20
  CountIsZero = 2
  TvOps = 3
  TvTime = 12
INVARIANTS KeysKept MouseKept SerialKept ViewersKept SyncKept
CHECK_DEADLOCK FALSE
