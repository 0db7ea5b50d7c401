SPECIFICATION Spec
CONSTANTS
  c1 = c1
  c2 = c2
  Chan = {c1, c2}
  Loads <- KeyLoads
  Remaps <- MapWrites
  MaxRemaps = 1
INVARIANTS TypeOK ModifiersMatchKeys KbinIsExclusive
PROPERTY OnlyCtrlAltDelExits
CHECK_DEADLOCK FALSE
