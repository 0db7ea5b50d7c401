SPECIFICATION FairSpec
CONSTANTS
  CPUs = {c1, c2}
  Vcnt = 1
  Ranges = {low}
  Types = {wc}
  HighRanges = {}
  Free = Free
  NoOp = NoOp
  NoCPU = NoCPU
PROPERTY OperationIsDone
CHECK_DEADLOCK FALSE
