SPECIFICATION FairSpec
CONSTANTS
  w1 = w1
  w2 = w2
  a1 = a1
  Workers = {w1, w2}
  Apps = {a1}
  MaxServers = 1
  MaxLinks = 1
  MaxOps = 2
  AcceptNum = 1
  OutOfMemory = FALSE
  AcceptErrors = FALSE
  StaleReads = {"intact", "garbage"}
  Relock = {"grant"}
PROPERTIES
  OperationsAnswered
