\* Three calls: up to four threads follow, or run beside, each other.
CONSTANTS
  Calls = 3
  Works = 2
SPECIFICATION FairSpec
INVARIANT OneCopy
PROPERTY ThreadsEnd
