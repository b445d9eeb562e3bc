SPECIFICATION MCSpec
CONSTANTS
  b1 = b1  b2 = b2  b3 = b3  b4 = b4  w1 = w1  w2 = w2  d1 = d1  d2 = d2
  Blockers = {b1, b2, b3, b4}
  Descriptions = {d1, d2}
  Windows = {w1, w2}
  None = None
  desc <- MCDesc
  win <- MCWin
  MainOnly = TRUE
  MaxCalls = 3
  N = 2
  SettingNames = {"s1", "s2"}
  Subscribers = {"k1", "k2"}
  MaxSerial = 2
  MaxNotifies = 2
  MaxSignals = 2
  MaxGenerations = 2
  Loops = {"None", "Track"}
  UnknownLoop = "other"
  Volumes = {0, 1}
  Names = {"n1"}
  Times = {0, 1, 4}
  Factor = 2
  Half = 8
  Commands = {"next"}
  Durations = {0, 1}
  Rates = {1, 2}
  Thumbnails = {"t1"}
  NoThumbnail = "none"
  MaxPosted = 2
  MaxPresses = 2
  MaxStores = 3
  MaxInits = 2
INVARIANTS PowerSaveTypeOK BlockedWhileNeeded RequestSound NothingLeaks DesktopIsKnown
PROPERTIES Ends PlayerIsShown
CHECK_DEADLOCK FALSE
