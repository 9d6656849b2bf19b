CONSTANTS
  Req = {r1, r2, r3}
  Ip = {a1, a2}
  Workers = 2
  MaxTotal = 1
  Limit = 1
  Window = 2
  MaxMisses = 1
  MaxTime = 3
SPECIFICATION FairSpec
CHECK_DEADLOCK FALSE
INVARIANTS
  SlotsAccounted
  OvershootBounded
  RateLimited
PROPERTY SilentDropped
