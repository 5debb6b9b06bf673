CONSTANTS
  Conns = {c1, c2}
  Blocks = {b1, b2, b3}
  MAX_NAME_SIZE = 4
  Letters = {x, y}
  MaxPacket = 2
  ResetsAfterClose = FALSE
  NULL = NULL

SYMMETRY Symmetry

SPECIFICATION Spec

INVARIANTS
  TypeOK
  NameIsOwn
  OnlyNoPcbLeaks
  ReplyIsTyped
