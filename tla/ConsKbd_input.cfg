SPECIFICATION FairSpec
CONSTANTS
  NUL = NUL
  BS = BS
  KILL = KILL
  NL = NL
  EOT = EOT
  CTLT = CTLT
  CTLP = CTLP
  c1 = c1
  NoProc = NoProc
  r1 = r1
  o1 = o1
  o2 = o2
  Byte = {c1, BS, KILL, NL, EOT, CTLT, CTLP}
  Escapes = {c1}
  CpuServer = TRUE
  RingSize = 3
  KbdqLimit = 2
  LineqLimit = 2
  LineSize = 2
  Readers = {r1}
  Openers = {o1, o2}
  Loads <- Input
INVARIANTS TypeOK LinesAreDelivered RawOffWhenUnused
PROPERTIES StagingIsAPipe EverythingIsEchoed RawLineIsSent
CHECK_DEADLOCK FALSE
