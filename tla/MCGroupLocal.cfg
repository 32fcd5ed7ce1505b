CONSTANTS
  Block = {b1, b2}
  None = None
  Torn = Torn
  Top = Top
  MaxLen = 5
  Staged = FALSE
  MaxGroupSize = 3
  MaxGroupBlocks = 2
  MaxBatch = 2
  MaxStops = 2
  PowerLoss = FALSE
SYMMETRY Symmetry
SPECIFICATION Spec
INVARIANTS
  IInv
  IndexSound
  GroupFits
CHECK_DEADLOCK FALSE
