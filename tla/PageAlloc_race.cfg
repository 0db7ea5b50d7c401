SPECIFICATION Spec
CONSTANTS
  Procs = {t1, t2, t3}
  KProcs = {t3}
  Pages = {p1, p2}
  Slots = {s1, s2}
  Names = {n1, n2}
  NoText = {n2}
  HighWater = 1
  DupRetries = 0
  DupMore = 1
  DupLimit = 1
  NoPage = NoPage
  NoProc = NoProc
  NoName = NoName
  NoSlot = NoSlot
SYMMETRY Symmetry
INVARIANTS TypeOK OnlyContentionPanics RefExact FreeIsUnused WritableIsPrivate NoLockCycle
