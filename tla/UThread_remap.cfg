SPECIFICATION FairSpec
CONSTANTS
  Threads = {u0, u1}
  First = u0
  Vas = {v1, v2, v3}
  Pas = {f1, f2, f3}
  NoMap = NoMap
  NoRegs = NoRegs
INVARIANTS TypeOK UserIsConfined NoThreadExits
PROPERTIES EntersUserCodeAtomically RemapCompletes
CHECK_DEADLOCK FALSE
