SPECIFICATION FairSpec
CONSTANTS
  t1 = t1
  t2 = t2
  Threads <- MCThreads
  MaxIds = 3
  MaxConnections = 2
  AppCalls = {"send"}
  MuxerCalls = {"connect", "query"}
INVARIANT TypeOK
INVARIANT WithinLimit
INVARIANT WorksOnAlive
INVARIANT NothingLeft
PROPERTY CloseEndsUnlessCalled
\* After UnInitialize no call is made.
CHECK_DEADLOCK FALSE
