SPECIFICATION PagesSpec
CONSTANTS
  w1 = w1
  w2 = w2
  u1 = u1
  none = none
  k1 = k1
  k2 = k2
  Workers = {w1, w2}
  Users = {u1}
  Nobody = none
  MaxEntries = 1
  Further = FALSE
  Requests = {"create", "vote"}
  DbErrors = TRUE
  Me = u1
  Shown = 1
  Connections = {k1, k2}
  NoConnection = none
  MaxTexts = 1
  Nameless = {0}
SYMMETRY PageSymmetry
INVARIANTS
  PageTypeOK
  PageAgrees
  EditTypeOK
  EditorAgrees
PROPERTIES
  DraftsOnly
CHECK_DEADLOCK FALSE
