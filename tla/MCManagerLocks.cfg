CONSTANTS
  GroupKey = {g1, g2}
  Writer = {w1, w2}
  Worker = {k1}
  NoOne = NoOne
  MaxLocal = 1
  MaxAway = 1
  MaxCrashes = 0
SYMMETRY Symmetry
SPECIFICATION Spec
INVARIANTS
  NoLockCycle
CHECK_DEADLOCK FALSE
