SPECIFICATION Spec
CONSTANTS
  MaxFrames = 1
  MaxBytes = 4
  StartsInTime = TRUE
  Sizes <- MCSizes
INVARIANT NoThreadOutlives
\* A deleted connection takes no further step.
CHECK_DEADLOCK FALSE
