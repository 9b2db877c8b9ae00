CONSTANTS
  k1 = k1
  v1 = v1
  Keys <- MCKeys
  Values <- MCValues
  Deadlines <- MCDeadlines
  Offered <- WriteCommand
  Threads = {t1}
  None = None
  MsPerSecond = 2
  Torn = Torn
  MaxTime = 1
  MaxWrites = 3
  MaxCrashes = 2

SPECIFICATION Spec
PROPERTY ReplayTimeInvariant
