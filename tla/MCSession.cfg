CONSTANTS
  c1 = c1
  c2 = c2
  ChannelIds <- MCChannelIds
  Requests <- MCRequests
  Sessions = {s1, s2}
  IdLimit = 2
  None = None
  MaxQueue = 1
SPECIFICATION SessionSpec
SYMMETRY SymmetricSessions
INVARIANT SessionTypeOK
INVARIANT RegistryAgrees
INVARIANT OnlyLiveChannels
PROPERTY ImplementsBroadcast
