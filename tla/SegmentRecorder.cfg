SPECIFICATION FairSpec
CONSTANTS
  u1 = u1
  NoUrl = NoUrl
  Urls <- MCUrls
  MaxRecorders = 3
  MaxPackets = 3
  MaxSegments = 2
  MaxQueue = 3
  Careful = TRUE
  FileOpens = TRUE
INVARIANT TypeOK
INVARIANT OneInside
INVARIANT NoneLost
INVARIANT WholeSegment
INVARIANT TellsLastPicture
PROPERTY RecordingEnds
\* A deleted connection takes no further step.
CHECK_DEADLOCK FALSE
