SPECIFICATION FairSpec
CONSTANTS
  NChannels = 2
  MaxIds = 2
  Triggered = {1}
  FlaggedInTime = TRUE
  LeavesInTime = TRUE
  QuickConnect = TRUE
INVARIANT TypeOK
INVARIANT NoOrphan
INVARIANT AllClosed
INVARIANT FlaggedIsLive
PROPERTY MediaAfterStart
PROPERTY Retries
PROPERTY Ends
\* The program may be stopped.
CHECK_DEADLOCK FALSE
