SPECIFICATION FairSpec
CONSTANTS
  NChannels = 1
  MaxIds = 2
  Triggered = {1}
  FlaggedInTime = TRUE
  LeavesInTime = TRUE
  QuickConnect = TRUE
PROPERTY ResumedSends
\* The program may be stopped.
CHECK_DEADLOCK FALSE
