SPECIFICATION Spec
CONSTANTS
  Threads = {"t1", "t2"}
  On = {}
  Back = {}
  MaxCounter = 4
  MaxIds = 4
  MinStartId = 0
  MaxStartId = 0
INVARIANT UniqueIds
CHECK_DEADLOCK FALSE
