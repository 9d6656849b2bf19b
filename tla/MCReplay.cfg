CONSTANTS
  Conn = {c1, c2}
  Desk = {d1, d2}
  None = None
  MaxQueue = 1
  MaxRequests = 3
SPECIFICATION FairReplaySpec
CHECK_DEADLOCK FALSE
INVARIANTS
  ReplayTypeOK
  BurstsEnd
  RequesterOnly
PROPERTY Answered
