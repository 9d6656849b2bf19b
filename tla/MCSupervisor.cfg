CONSTANTS
  Client = {c1, c2}
  Id = {q1, q2}
  MaxPending = 1
  None = None
SPECIFICATION FairSpec
INVARIANTS
  TypeOK
  ParkedOwnerGone
PROPERTIES
  ReplyAccounted
  RetryReachesDesktop
