SPECIFICATION Spec
CONSTANTS
  b1 = b1
  Boards = {b1}
  SetupNs = 2
  XbusAckNs = 1
  UnibusSelectNs = 4
  UnibusAddressNs = 2
  UnibusAckNs = 3
  UnibusStrobeNs = 2
  DiagnosticNs = 5
  RegisterStrobeNs = 3
  UbXbusRequestNs = 2
  UbXbusReadAckNs = 2
  UbMdAckNs = 2
  MfinishdNs = 1
  GrantWithdrawNs = 2
  DebugSelectNs = 2
  DebugMsynNs = 2
  DebugReleaseNs = 2
  DebugOutRequestNs = 2
  IdleOutPromiseNs = 9
  FastCycleNs = 3
  HalfVcoNs = 2
  NxmIntervals = 2
  DebugIntervals = 8
  CrystalNs = 1
  CycleStages = 5
  BusyStages = 6
  TriggerStages = 1
  ReleaseStages = 3
  PowerOnEdge = 1
  RefreshNs = 20
  FirstUsecNs = 2
  UsecNs = 6
  StraightNs = 5
  UsecLowNs = 6
  CycleNs = 3
  LongNs = 4
  RdFinishNs = 3
  SlackNs = 4
  Programs <- MCPrograms
  Scripts <- MCScripts
  Addresses = {"keyboard", "noUnibus", "map"}
  Mapped = {"mapBuffer", "mapXbus", "mapRefused", "mapMd"}
  Ahead = {0, 1}
  Horizon = 45
  InboxFrames = 4
  Alone = 4
  Attended = 60
  Cases <- MCCases
INVARIANTS CycleWhole TimesKept OneUnibusMaster ResumesTheSame LashupKept
