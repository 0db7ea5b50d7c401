SPECIFICATION Spec
CONSTANTS
  CPUs = {c1}
  Vcnt = 1
  Ranges = {low}
  Types = {wc}
  HighRanges = {}
  Free = Free
  NoOp = NoOp
  NoCPU = NoCPU
INVARIANT OperationIsThere
