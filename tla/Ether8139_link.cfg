SPECIFICATION FairSpec
CONSTANTS
  NConn = 2
  Config <- Table
  Closed = Closed
  Frame <- Frames
  Loads <- Both
  NBlock = 4
  InLimit = 1
  OqLimit = 2
  w1 = w1
  b1 = b1
  Writer = {w1}
  Bridge = {b1}
  MaxPackets = 4
  Free = Free
  NoBlock = NoBlock
  Ntd = 2
  RxSlots = 1
INVARIANTS TypeOK BlocksHaveOneOwner OutputInOrder
PROPERTIES EveryoneHears QueuedIsSent
CHECK_DEADLOCK FALSE
