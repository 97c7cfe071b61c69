SPECIFICATION Spec
CONSTANTS
  Workers = {w1, w2}
  Handlers <- ShippedHandlers
  Pages <- SomePages
  Protected <- SomeProtected
  Requests <- SomeRequests
  Windows = {9}
  MaxVersion = 1
  MaxTimed = 1
  None = None
SYMMETRY Symmetry
INVARIANTS WebTypeOK MapsReleased NoMisuse Checked FormRead PagesAgree
