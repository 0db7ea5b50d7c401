SPECIFICATION FairSpec
CONSTANTS
  r1 = r1
  r2 = r2
  Readers = {r1, r2}
  Size = 3
  Samples = 2
  Counts = {1, 4}
INVARIANTS TypeOK EachByteOnce NoMissedWakeup
PROPERTY ReadsEnd
