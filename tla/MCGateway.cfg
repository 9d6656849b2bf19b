SPECIFICATION Spec
CONSTANTS
  Conn = {c1, c2}
  User = {u1, u2}
  Guessed = {u1}
  MaxFailures = 2
  LockTicks = 1
  None = None
  IdLen = 2
  MaxPayload = 2
INVARIANTS Isolated GuessesBounded FramesRoundTrip
PROPERTIES LockRunsOut
SYMMETRY Sockets
CHECK_DEADLOCK FALSE
