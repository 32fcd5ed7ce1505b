CONSTANTS
  Call = {c1}
  MaxRetries = 3
  MaxReconnects = 2
  MaxInstances = 4
  MaxFaults = 2
SPECIFICATION FairSpec
INVARIANTS
  ReplacedOnce
  OkMeansConnected
  CallAccounting
PROPERTIES
  Recovers
  CallsSettle
CHECK_DEADLOCK FALSE
