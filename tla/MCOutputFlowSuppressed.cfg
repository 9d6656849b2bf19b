CONSTANTS
  Sender = {s1}
  Budget = 1
  MaxQueued = 2
  MaxNudges = 1
SPECIFICATION FairSpec
PROPERTY DirtyConverges
