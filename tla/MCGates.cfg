CONSTANTS
  Width = 2
  MaxUnknown = 3
  Boards <- MCBoards
  SweepLimit = 8
  UpdateRounds = 8
  Recent = 2
  Quiet = 3
  FarEvery = 3
  MaxTime = 18
  MaxPokes = 1
  ByteBits = 1
  Operands <- MCOperands
  FifoDepth = 2
  MaxWords = 4
  MaxMessage = 5
  Polynomials <- MCPolynomials
  PciBits = 2
  PciOver = 4
  PciDivisor = 2
  PciStops = 3
  PciParities <- MCParities
  PciSends = 2
  PciTurns = 2
  ClkCycles = 2
  ClkHold = 2
  ByteValues = 4
  MinZeroRun = 2
  MaxBody = 30
  MaxGroups = 5
  Fields <- MCFields
  MaxFields = 3
SPECIFICATION Spec
INVARIANTS EngineKept ClockedAsOne ArithmeticKept PartsAndCharacters CycleKept CheckpointKept
CHECK_DEADLOCK FALSE
