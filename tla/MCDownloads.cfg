CONSTANTS
  Client = {c1, c2}
  Id = {u1, u2, u3}
  MaxActive = 2
  MaxSize = 1
  Sizes = {0}
  None = None
SPECIFICATION Spec
SYMMETRY Symmetry
CONSTRAINT Bounds
INVARIANTS
  Governed
  Solicited
  NoSilentEnd
PROPERTY ImplementsTransfer
