CONSTANTS
  Sender = {s1, s2}
  Budget = 1
  MaxQueued = 2
  MaxNudges = 2
SPECIFICATION FairSpec
INVARIANTS
  Accounting
  NoSilentGap
  OutputBounded
PROPERTIES
  NudgedConverges
