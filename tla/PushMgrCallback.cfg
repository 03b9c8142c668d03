SPECIFICATION FairSpec
CONSTANTS
  t1 = t1
  t2 = t2
  Threads <- MCThreads
  MaxIds = 2
  MaxConnections = 2
  AppCalls = {"query", "send"}
  MuxerCalls = {"query"}
PROPERTY CloseEnds
\* After UnInitialize no call is made.
CHECK_DEADLOCK FALSE
