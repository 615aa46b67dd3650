SPECIFICATION FairSpec
CONSTANTS
  Me = me
  Peers = {p1}
  Others = {}
  Broadcast = bcast
  Nowhere = nowhere
  DefaultPeer = FALSE
  Drain = 2
  TransmitTries = 2
  LostCounts = 2
  MaxOps = 3
  MaxDatagrams = 2
  MaxResumes = 1
INVARIANT IndInv
PROPERTIES StartIsAnswered NodeDrains BufferKept NoSilentLoss InboundInOrder OutboundInOrder
CHECK_DEADLOCK FALSE
