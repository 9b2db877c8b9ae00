CONSTANTS
  k1 = k1
  v1 = v1
  Keys <- MCKeys
  Values <- MCValues
  Deadlines <- MCDeadlines
  Offered <- RaceCommands
  Threads = {t1, t2}
  None = None
  MsPerSecond = 2
  Torn = Torn
  MaxTime = 1
  MaxWrites = 2
  MaxCrashes = 1
SYMMETRY ThreadSymmetry
SPECIFICATION Spec
INVARIANT DurableTypeOK
INVARIANT AckedDurable
INVARIANT DiskAgrees
INVARIANT PlaceInv
INVARIANT EntryInv
PROPERTY RecoveryFaithful
