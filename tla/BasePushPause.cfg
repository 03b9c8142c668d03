SPECIFICATION Spec
CONSTANTS
  MaxFrames = 3
  MaxBytes = 4
  StartsInTime = TRUE
  Sizes <- MCSizes
INVARIANT PausedIsResumed
\* A deleted connection takes no further step.
CHECK_DEADLOCK FALSE
