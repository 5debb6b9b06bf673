CONSTANTS
  NumDesc = 3
  MaxSegs = 3
  MaxFrames = 4

SPECIFICATION FairSpec

INVARIANTS
  TypeOK
  FifoInv
  CopyOwned
  CursorSync
  SuspensionFlagged

PROPERTIES
  FramesInOrder
  EveryFrameHandled
  ArrivalCompletes

CHECK_DEADLOCK FALSE
