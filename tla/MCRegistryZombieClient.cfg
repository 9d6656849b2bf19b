CONSTANTS
  Conn = {c1, c2}
  Device = {d1}
  Caps = {k1}
  MaxClients = 2
  Disciplined = TRUE
  DesktopId = DesktopId
  None = None
  NotTold = NotTold
  Offline = Offline
SPECIFICATION Spec

CHECK_DEADLOCK FALSE
INVARIANT ClientsConnected
