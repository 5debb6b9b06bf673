CONSTANTS
  NumStreams = 3
  DESCRIPTORS_SIZE_BUF = 3
  MaxAdds = 5
  OneStream = FALSE

SPECIFICATION Spec

INVARIANT
  SentIsAdded

CHECK_DEADLOCK FALSE
