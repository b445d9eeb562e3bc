SPECIFICATION FairCrashSpec
CONSTANTS
  Procs = {p1, p2, p3, p4}
  Foreign = {}
  Inodes = {i1, i2}
  None = None
INVARIANTS TypeOK OnePrimary
PROPERTIES OnlyTheDeadKeepTheName Converges
CHECK_DEADLOCK FALSE
