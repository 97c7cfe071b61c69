SPECIFICATION Spec
CONSTANTS
  w1 = w1
  w2 = w2
  u1 = u1
  none = none
  Workers = {w1, w2}
  Users = {u1}
  Nobody = none
  MaxEntries = 3
  Further = FALSE
  Requests = {"create", "publish", "comment", "remove", "delete"}
  DbErrors = TRUE
SYMMETRY NewsSymmetry
INVARIANTS
  CommentsCounted
CHECK_DEADLOCK FALSE
