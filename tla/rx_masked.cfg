CONSTANTS
  NumDesc = 3
  MaxSegs = 2
  MaxFrames = 3
  Preemptible = FALSE

SPECIFICATION FairSpec

INVARIANTS
  TypeOK
  PbufIsReceivedPacket

PROPERTIES
  FramesInOrder
  EveryFrameHandled

CHECK_DEADLOCK FALSE
