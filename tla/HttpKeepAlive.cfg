SPECIFICATION HttpSpec
CONSTANTS
  w1 = w1
  w2 = w2
  a1 = a1
  Workers = {w1, w2}
  Apps = {a1}
  MaxServers = 1
  MaxLinks = 1
  MaxOps = 4
  AcceptNum = 1
  OutOfMemory = TRUE
  AcceptErrors = FALSE
  StaleReads = {"garbage"}
  Relock = {"grant"}
  CloseServers = FALSE
SYMMETRY WorkerSymmetry
INVARIANTS
  RequestAtHand
  BoundRequests
  NoHttpLeak
PROPERTIES
  TcpRespected
