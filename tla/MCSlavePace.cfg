CONSTANTS
  Gaps = {10}
  Timeout = 50
  Skew = 2
  MaxAge = 1
  InputCapacity = 5
  MaxLag = 12
  MaxLead = 24
SPECIFICATION FairSpec
INVARIANT KeepsPace
CHECK_DEADLOCK FALSE
