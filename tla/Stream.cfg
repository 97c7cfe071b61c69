SPECIFICATION FairSpec
CONSTANTS
  Heads = {1, 2, 3, 5}
  Bodies = {0, 1, 2, 4}
  Ends <- AnyEnd
  SendBuff = 3
  PosValues = 64
  MaxVersion = 3
INVARIANTS
  StreamTypeOK
  InOrder
PROPERTIES
  Streamed
  ResponseEnds
