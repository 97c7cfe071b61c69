SPECIFICATION HttpSpec
CONSTANTS
  w1 = w1
  w2 = w2
  a1 = a1
  Workers = {w1, w2}
  Apps = {a1}
  MaxServers = 1
  MaxLinks = 2
  MaxOps = 2
  AcceptNum = 1
  OutOfMemory = TRUE
  AcceptErrors = FALSE
  StaleReads = {"intact"}
  Relock = {"grant"}
  CloseServers = TRUE
SYMMETRY WorkerSymmetry
INVARIANTS
  HttpTypeOK
  NoHttpLeak
  SerialService
