SPECIFICATION Spec
CONSTANTS
  w1 = w1
  w2 = w2
  u1 = u1
  u2 = u2
  none = none
  Workers = {w1, w2}
  Users = {u1, u2}
  Nobody = none
  MaxEntries = 1
  Further = FALSE
  Requests = {"create", "save", "publish", "vote", "delete"}
  DbErrors = TRUE
SYMMETRY NewsSymmetry
INVARIANTS
  NewsTypeOK
  VotesCounted
  PublishedNamed
CHECK_DEADLOCK FALSE
