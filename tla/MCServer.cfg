CONSTANTS
  c1 = c1
  ChannelIds <- MCChannelIds
  Requests <- MCRequests
  Sessions = {s1, s2}
  IdLimit = 2
  None = None
  Knock = Knock
  MaxQueue = 1
  MaxMoves = 2
SPECIFICATION ServerSpec
INVARIANT ServerTypeOK
INVARIANT KnockFindsFlag
INVARIANT CleanExit
PROPERTY SessionEnds
PROPERTY ShutdownCompletes
CHECK_DEADLOCK FALSE
