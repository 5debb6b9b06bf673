CONSTANTS
  NumDesc = 3
  MaxLen = 2
  MaxBytes = 6
  MaxFrames = 3

SPECIFICATION FairSpec

INVARIANTS
  TypeOK
  WriteOwned
  CountsAgree
  NothingStranded
  OkMeansSent

PROPERTIES
  FramesInOrder
  AcceptedIsSent

CHECK_DEADLOCK FALSE
