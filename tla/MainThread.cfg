SPECIFICATION MCSpec
CONSTANTS
  Names = {"toggle", "number"}
  Unknown = "unknown"
  Json <- MCJson
  kindOf <- MCKindOf
  kind <- MCKind
  default <- MCDefault
  Zero = "zero"
  Absent = Absent
  Broken = Broken
  Items = {1, 2, 3, 4}
  MaxPassed = 1
  MapKeys = {1, 2, 3}
  Values = {a, b}
  Default = a
  None = None
  MaxSize = 4
  MaxList = 3
  Callers = {"c1", "c2", "c3"}
  TimerTimeouts = {0, 2}
  Sleeps = {1, 3}
  MaxTicks = 5
  MaxSleeps = 1
  Calls = {"d1", "d2"}
  Ids = {"id1", "id2"}
  NoId = "none"
  ShowDuration = 6
  Fuzz = 4
  Senders = {"s1", "s2"}
  MaxSends = 2
  MaxReplies = 2
  Launches = {"l1", "l2"}
  Waits = {"l2"}
  Windows = {"w1"}
  NoWindow = "none"
  Protocols = {"p", "q"}
  MaxHooks = 2
  PlainKeys = {1}
  PairedKeys = {1}
  MaxTaps = 2
INVARIANTS TypesOK Saved ContainersSorted EventsAreTrue DesktopIsServed
PROPERTIES ContainersImplement WorkEnds
CHECK_DEADLOCK FALSE
