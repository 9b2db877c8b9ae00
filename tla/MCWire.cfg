CONSTANTS
  MaxU64 = 15
  MaxI64 = 7
  MsPerSecond = 3
  MaxTime = 2
  ReadSize = 20
  None = None
  Letters <- MCLetters
  Values <- MCValues
  Streams <- MCStreams
SPECIFICATION WireSpec
CHECK_DEADLOCK FALSE
INVARIANT WireTypeOK
INVARIANT SplitIndependent
INVARIANT LogReplays
INVARIANT RepliesReadable
INVARIANT DeadlinesAgree
 
