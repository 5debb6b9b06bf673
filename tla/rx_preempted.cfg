CONSTANTS
  NumDesc = 3
  MaxSegs = 2
  MaxFrames = 4
  Preemptible = TRUE

SPECIFICATION Spec

INVARIANT PbufIsReceivedPacket

CHECK_DEADLOCK FALSE
