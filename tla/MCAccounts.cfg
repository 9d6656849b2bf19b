CONSTANTS
  User = {u1, u2}
  Device = {d1}
  Conn = {c1, c2}
  Endpoint = {e1, e2}
  File = {f1, f2}
  MaxClients = 2
  MaxReports = 2
  ListLimit = 1
  None = None
SPECIFICATION Spec
CONSTRAINT Apart
SYMMETRY Symmetry
INVARIANTS
  NoOrphans
  KeysSurvive
  RevokedNotServed
  RenewalSurvives
  ReportsServed
