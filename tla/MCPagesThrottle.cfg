CONSTANTS
  GroupKey = {1, 2}
  Fetch = {f1, f2}
  MaxVersion = 1
  StateOf <- MCStateOf
  WritableAge = 1
  OtherAge = 1
  OffloadedAge = 2
  Cid = {b1}
  NoCid = NoCid
  Find = {s1}
  Result <- MCResult
SPECIFICATION PagesSpec
PROPERTY OffloadedThrottled
CHECK_DEADLOCK FALSE
