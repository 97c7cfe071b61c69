SPECIFICATION Spec
CONSTANTS
  w1 = w1
  w2 = w2
  a1 = a1
  Workers = {w1, w2}
  Apps = {a1}
  MaxServers = 1
  MaxLinks = 2
  MaxOps = 2
  AcceptNum = 2
  OutOfMemory = TRUE
  AcceptErrors = TRUE
  StaleReads = {"intact", "garbage", "reused"}
  Relock = {"grant"}
SYMMETRY WorkerSymmetry
INVARIANTS
  TypeOK
  NoStaleRelation
  NoOrphanLink
  MutexDiscipline
  OnlyOrphansStray
PROPERTIES
  SlotsLostToErrorsOnly
