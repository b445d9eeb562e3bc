SPECIFICATION MCSpec
CONSTANTS
  Nothing = Nothing
  Slots = {"s1", "s2", "s3"}
  Trackers = {"a1", "a2", "a3"}
  None = "none"
  Threads = {"t1", "t2"}
  Times = {5, 2, 8}
  ForcedTimes = {10, 20}
  HttpTimes = {100}
  MaxUpdates = 2
  On = {0, 9}
  Back = {9}
  MaxCounter = 2
  MaxIds = 3
  MinStartId = 20
  MaxStartId = 24
  Types = {"A", "B"}
  Users = {"u1", "u2"}
  Composers = {"o1"}
  IndexLimit = 4
  Contents = {0, 1}
  Initial = 0
  MaxThrows = 1
  Crashing = {"c1"}
  MainThread = "main"
  Signals = {"SEGV", "ABRT"}
  Nobody = "nobody"
  MaxRuns = 2
  MaxFlips = 4
  MaxHolders = 2
INVARIANTS TypesOK TrackersSafe ValidIffCurrent LatestPrevails
PROPERTIES IdsIncrease LayoutsHold CrashIsReported
CHECK_DEADLOCK FALSE
