SPECIFICATION Spec
CONSTANTS
  Items = {1, 2, 3, 4}
  MaxSize = 4
  MaxList = 2
  MaxPassed = 4
INVARIANT FlatSetSorted
