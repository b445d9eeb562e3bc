SPECIFICATION MCSpec
CONSTANTS
  keyA = keyA  keyB = keyB  keyC = keyC
  shortcutAB = shortcutAB  shortcutBC = shortcutBC
  Keys = {keyA, keyB, keyC}
  Shortcuts = {shortcutAB, shortcutBC}
  KeysOf <- MCKeysOf
  ShortcutLimit = 3
  MaxEvents = 3
  HookKeys = {"k1", "k2"}
  MaxReplies = 2
  MaxInReply = 2
  XcbUsers = {"x1", "x2"}
  Bits = {"property", "structure"}
  PropertyChange = "property"
  MaxWire = 1
  MaxMasks = 2
INVARIANTS TypesOK AssertsHold PressedAreHeld EventsReachUsers
PROPERTIES EndsAreTold
CHECK_DEADLOCK FALSE
