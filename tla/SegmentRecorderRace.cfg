SPECIFICATION Spec
CONSTANTS
  u1 = u1
  NoUrl = NoUrl
  Urls <- MCUrls
  MaxRecorders = 3
  MaxPackets = 3
  MaxSegments = 2
  MaxQueue = 3
  Careful = FALSE
  FileOpens = TRUE
\* A deleted connection takes no further step.
CHECK_DEADLOCK FALSE
INVARIANT OneInside
