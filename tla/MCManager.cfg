CONSTANTS
  GroupKey = {g1, g2, g3}
  Writer = {w1, w2}
  Worker = {k1}
  NoOne = NoOne
  MaxLocal = 1
  MaxAway = 1
  MaxCrashes = 1
SYMMETRY Symmetry
SPECIFICATION Spec
INVARIANTS
  TypeOK
  OneWritable
  LocalBounded
  FlushCommits
CHECK_DEADLOCK FALSE
