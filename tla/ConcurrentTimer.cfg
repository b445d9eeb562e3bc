SPECIFICATION MCSpec
CONSTANTS
  Guards = {g1, g2, g3}
  None = None
  Timeouts = {0, 2}
  Jumps = {1, 2}
  MaxStarts = 2
  MaxAdjusts = 1
  Entries = {e1, e2, e3}
  MaxUps = 5
  Classes <- MCClasses
  ParentOf <- MCParentOf
  NoParent = "none"
  Overrides <- MCOverrides
  DefaultCall = DefaultCall
  MaxDispatches = 2
  NumberNames = {n1, n2}
  Words = {0, 1, 3}
  MaxAbs = 4
  QObjects = {"o1", "o2", "o3"}
  Unique = {"u1", "u2"}
  Scoped = {"p1", "p2"}
  Weak = {"w"}
  Null = "null"
  Members = {"m1", "m2"}
  NotThere = "notThere"
  NoMember = "none"
  MaxBytes = 3
  MaxSteps = 5
  Icons = {"i1", "i2"}
  NoIcon = "none"
  MaxDeaths = 1
  Allocators = {"m1", "m2"}
  NoThread = "none"
  EntrySizes = {1, 2, 3}
  BufferSize = 4
  MaxEntries = 3
INVARIANTS TypeOK GuardCellsSafe LookupsFit
PROPERTIES FiresOnlyWhenOwed NeverEarly TimerIsServed OneOwnerDeletes FilesAreWhole
CHECK_DEADLOCK FALSE
