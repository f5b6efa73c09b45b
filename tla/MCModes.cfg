CONSTANTS
  Multiply = 3
  Divide = 2
  Timeout = 2
  Skew = 1
  Ppqn = 4
  Beats = 2
  Positions = {5}
  Gaps = {2, 5, 13}
  SlaveTimeout = 11
  SlaveSkew = 2
  SlaveCapacity = 4
  MaxAge = 3
  MaxLag = 8
  MaxLead = 0
  Inputs = 2
  Outputs = {"a", "b"}
  Playable <- MCPlayable
  Routes <- MCRoutes
  MaxPlayed = 2
  InputCapacity = 2
  CommandCapacity = 1
  EventCapacity = 1
  Threshold = 2
SPECIFICATION ModesSpec
INVARIANTS
  RatioKept
  FollowersInStep
  FreeRunIsBounded
  LinesKept
  Faithful
PROPERTY LocksOn
CHECK_DEADLOCK FALSE
