CONSTANTS
  Block = {b1, b2}
  None = None
  Torn = Torn
  Top = Top
  MaxLen = 4
  Staged = TRUE
  MaxGroupSize = 3
  MaxGroupBlocks = 2
  MaxBatch = 2
  MaxStops = 2
  PowerLoss = FALSE
SPECIFICATION FairSpec
PROPERTIES
  ImplementsBlockStore
  FullGetsReady
  FollowsGroupLife
INVARIANTS
  CommittedReadable
  OpenSucceeds
  CommittedListed
  VRCARHasLayers
CHECK_DEADLOCK FALSE
