SPECIFICATION FairSpec
CONSTANTS
  d1 = d1
  d2 = d2
  d3 = d3
  Device = {d1, d2, d3}
  Loads <- DeviceLoads
INVARIANTS TypeOK MaskMatchesTable NothingInService
PROPERTY EventIsServed
CHECK_DEADLOCK FALSE
