CONSTANTS
  Addrs = 4
  Depth = 3
  LcSize = 8
  Codes <- MCCodes
  Rules <- AllRules
SPECIFICATION Spec
INVARIANTS SameInstruction SameStack SameRead SameStream
