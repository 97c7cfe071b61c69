SPECIFICATION Spec
CONSTANTS
  w1 = w1
  w2 = w2
  admin = admin
  u1 = u1
  none = none
  Workers = {w1, w2}
  Names = {admin, u1}
  Admin = admin
  NoName = none
  Levels = {0, 3}
  MaxSessions = 2
  DbErrors = TRUE
SYMMETRY WorkerSymmetry
INVARIANTS
  AccountsTypeOK
  AdminKept
  ActsAsSelf
  ClosedWithAccount
PROPERTIES
  ClosedForGood
