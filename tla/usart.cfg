CONSTANTS
  NumStreams = 3
  DESCRIPTORS_SIZE_BUF = 3
  MaxAdds = 5
  OneStream = TRUE
  HeapStart = 2
  HeapEnd = 6
  Word = 12
  MaxIncr = 3
  Depth = 3

SPECIFICATION HelloSpec

INVARIANTS
  TypeOK
  SentIsAdded
  GrantsAreOwn
  NothingLost

PROPERTY HelloIsSent
