CONSTANTS
  GroupKey = {g1, g2}
  Writer = {w1}
  Worker = {k1, k2}
  NoOne = NoOne
  MaxLocal = 1
  MaxAway = 1
  MaxCrashes = 1
SPECIFICATION FairSpec
INVARIANTS
  TaskAccounting
PROPERTIES
  FullGetsReady
CHECK_DEADLOCK FALSE
