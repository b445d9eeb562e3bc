SPECIFICATION FairSpec
CONSTANTS
  Procs = {p1, p2, p3}
  Foreign = {p3}
  Inodes = {i1, i2, i3, i4}
  None = None
INVARIANT PrimaryOwnsName
PROPERTY StartResolves
CHECK_DEADLOCK FALSE
