SPECIFICATION Spec
CONSTANTS
  HeadEnds = {1, 2, 4}
  Lengths <- AnyLength
  MaxStream = 9
  MaxBody = 2
  PosValues = 64
  DirFails = TRUE
INVARIANTS
  ParserTypeOK
  ChunkIndependent
