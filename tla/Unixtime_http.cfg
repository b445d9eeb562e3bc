SPECIFICATION Spec
CONSTANTS
  Threads = {"t1", "t2"}
  Times = {5, 2, 8}
  ForcedTimes = {10, 20}
  HttpTimes = {100}
  MaxUpdates = 2
INVARIANT HttpNowIsHttp
