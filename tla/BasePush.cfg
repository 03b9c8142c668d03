SPECIFICATION FairSpec
CONSTANTS
  MaxFrames = 3
  MaxBytes = 4
  StartsInTime = FALSE
  Sizes <- MCSizes
INVARIANT TypeOK
INVARIANT EndsBeforeDeletion
INVARIANT SkippedBehindRefused
INVARIANT SegmentEndSettled
INVARIANT EndTellsWhy
PROPERTY ChannelSpec
PROPERTY CloseReturns
PROPERTY FramesMoveOn
PROPERTY FullIsResumed
PROPERTY ErrorIsTold
\* A deleted connection takes no further step.
CHECK_DEADLOCK FALSE
