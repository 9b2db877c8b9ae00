CONSTANTS
  k1 = k1
  v1 = v1
  v2 = v2
  Keys <- MCKeys
  Values <- MCValues
  Deadlines <- MCDeadlines
  Offered <- MCOffered
  Threads = {t1, t2}
  None = None
  MsPerSecond = 2
  MaxTime = 3
SPECIFICATION CacheSpec
INVARIANT TypeOK
PROPERTY LiveEntriesSurvive
PROPERTY OnlyWritesRevive
PROPERTY ExpiredReclaimed
PROPERTY ImplementsMap
