SPECIFICATION Spec
CONSTANTS
  NUL = NUL
  BS = BS
  KILL = KILL
  NL = NL
  EOT = EOT
  CTLT = CTLT
  CTLP = CTLP
  c1 = c1
  NoProc = NoProc
  r1 = r1
  o1 = o1
  o2 = o2
  Byte = {c1}
  Escapes = {}
  CpuServer = TRUE
  RingSize = 2
  KbdqLimit = 2
  LineqLimit = 2
  LineSize = 2
  Readers = {}
  Openers = {o1, o2}
  Loads <- Closing
INVARIANT RawUntilLastClose
