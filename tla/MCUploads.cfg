CONSTANTS
  Client = {c1}
  Desk = Desk
  Id = {u1, u2, u3}
  MaxActive = 2
  MaxSize = 2
  MaxReport = 1
  Sizes = {1, 3}
  None = None
SPECIFICATION Spec
CONSTRAINT Bounds
SYMMETRY Symmetry
INVARIANTS
  Governed
  ReportOnce
  NoSilentEnd
PROPERTIES
  ReportWhole
  ImplementsTransfer
