CONSTANTS
  Conn = {c1, c2, c3}
  Device = {d1}
  Caps = {k1, k2}
  MaxClients = 2
  Disciplined = FALSE
  DesktopId = DesktopId
  None = None
  NotTold = NotTold
  Offline = Offline
SPECIFICATION Spec
SYMMETRY Symmetry
CHECK_DEADLOCK FALSE
INVARIANTS
  ClientTable
  StatusAgrees
  LatestDesktopStays
  FanOutComplete
  OnlineDesktopIsConnected
PROPERTIES
  ImplementsPresence
