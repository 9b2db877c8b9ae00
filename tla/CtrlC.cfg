CONSTANTS
  c1 = c1
  ChannelIds <- MCChannelIds
  Requests <- MCRequests
  Sessions = {s1}
  IdLimit = 2
  None = None
  Knock = Knock
  MaxQueue = 1
  MaxMoves = 2
SPECIFICATION ServerSpec
PROPERTY FlagBoundsShutdown
CHECK_DEADLOCK FALSE
