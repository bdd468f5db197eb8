\* Either kernel ends first, or both end at the same time.
CONSTANTS
  Cap = 2
  Limits <- AnyEnds
SPECIFICATION FairEndSpec
INVARIANT UsedLive
INVARIANT EndInv
PROPERTY BothEnd
