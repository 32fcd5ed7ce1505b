CONSTANTS
  Block = {b1}
  Putter = {p1, p2}
  Flusher = {f1, f2}
  QueueCap = 1
  MaxQueued = 1
  MaxUnflushed = 1
  MaxFlushes = 2
  MaxFails = 1
SYMMETRY Symmetry
SPECIFICATION Spec
INVARIANTS
  FlushGuarantee
CHECK_DEADLOCK FALSE
