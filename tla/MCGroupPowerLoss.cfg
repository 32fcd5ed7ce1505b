CONSTANTS
  Block = {b1, b2}
  None = None
  Torn = Torn
  Top = Top
  MaxLen = 5
  Staged = TRUE
  MaxGroupSize = 3
  MaxGroupBlocks = 3
  MaxBatch = 2
  MaxStops = 1
  PowerLoss = TRUE
SYMMETRY Symmetry
SPECIFICATION Spec
INVARIANTS
  CommittedReadable
CHECK_DEADLOCK FALSE
