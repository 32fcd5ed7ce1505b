CONSTANTS
  GroupKey = {1, 2}
  Fetch = {f1, f2}
  MaxVersion = 1
  StateOf <- MCStateOf
  WritableAge = 1
  OtherAge = 1
  OffloadedAge = 2
  Cid = {b1}
  NoCid = NoCid
  Find = {s1, s2}
  Result <- MCResult
SPECIFICATION FairSpec
INVARIANTS
  PanelInv
  ShownTogether
  StuckAfterFailure
  PanelOfEntry
PROPERTIES
  Freshens
  NeverBack
CHECK_DEADLOCK FALSE
