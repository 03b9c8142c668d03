SPECIFICATION Spec
CONSTANTS
  p1 = p1
  p2 = p2
  f1 = f1
  f2 = f2
  f3 = f3
  f4 = f4
  f5 = f5
  NoFrame = NoFrame
  Producers <- MCProducers
  Frames <- MCFrames
  Sizes <- MCSizes
  MaxCount = 4
  MaxBytes = 4
SYMMETRY MCSymmetry
INVARIANT TypeOK
INVARIANT SinglePlace
INVARIANT ByteAccounting
INVARIANT CountAccounting
INVARIANT OnlyLimitAborts
INVARIANT CountNeverRefuses
PROPERTY FifoSpec
\* An aborted process and a deleted queue take no further step.
CHECK_DEADLOCK FALSE
