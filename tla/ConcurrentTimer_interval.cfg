SPECIFICATION Spec
CONSTANTS
  Guards = {g1, g2}
  None = None
  Timeouts = {1}
  Jumps = {1}
  MaxStarts = 1
  MaxAdjusts = 0
INVARIANTS IntervalStaysActive
CHECK_DEADLOCK FALSE
