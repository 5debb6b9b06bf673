CONSTANTS
  NumDesc = 3
  MaxLen = 1
  MaxBytes = 1
  MaxFrames = 3

SPECIFICATION Spec

INVARIANT OkMeansSent

CHECK_DEADLOCK FALSE
