CONSTANTS
  Fetch = {f1, f2}
  MaxFaults = 1
  MaxResets = 1
  Page <- MCPage
  MaxVersion <- MCMaxVersion
  MaxElapsed = 2
  BytesAt <- MCBytesAt
  TotalAt <- MCTotalAt
  Input <- MCInput
SPECIFICATION FairSpec
INVARIANTS
  SetTogether
  RatesSound
  GlobalRateHeals
  FormatsReadBack
  ViewsComplete
PROPERTIES
  ForwardUnlessOverlap
  GlobalOncePerAnswer
  BecomesCurrent
CHECK_DEADLOCK FALSE
