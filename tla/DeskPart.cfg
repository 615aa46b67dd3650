SPECIFICATION Spec
CONSTANTS
  InputBacklog = 2
  Backlog = 3
  FifoWords = 2
  WordBits = 2
  MaxKeys = 2
  CountMod = 4
  PointerBacklog = 2
  Places = {0, 3}
  StepTicks = 2
  HalfMod = 2
  QuietTicks = 2
  IntervalTicks = 2
  MaxMoves = 2
  MaxTicks = 2
  DataBits = 1
  ClockTicks = 2
  ClocksPerBit = 1
  Framings <- MCFramings
  Commands <- MCCommands
  SerialBacklog = 1
  SerialOps = 1
  SerialCalls = 1
  SerialTypes = 1
  SerialCalling = 2
  SerialTime = 2
  TermRows = 2
  TermWords = {0, 1}
  TermMaps = {1, 2}
  Asked <- MCParts
  MaxViewers = 1
  MaxStream = 2
  MaxSent = 3
  MaxDrawn = 2
  MaxTermCalls = 1
  SyncProm <- MCProm
  SyncPrograms <- MCPrograms
  InstructionTicks <- MCTicks
  MostInstructions = 20
  CountIsZero = 2
  TvOps = 1
  TvTime = 4
INVARIANTS PartsAreTold
CHECK_DEADLOCK FALSE
