SPECIFICATION Spec
CONSTANTS
  CPUs = {c1, c2, c3}
  Vcnt = 2
  Ranges = {low, high}
  Types = {wc, uc}
  HighRanges = {high}
  Free = Free
  NoOp = NoOp
  NoCPU = NoCPU
SYMMETRY Symmetry
INVARIANTS TypeOK SetupTogether SameEverywhere
CHECK_DEADLOCK FALSE
