CONSTANTS
  EventCapacity = 1
  Threshold = 2
  Ppqn = 4
  Beats = 2
  Intervals = {1}
  IdleSleep = 1
  MaxLag = 0
  Burst = 1
  Positions = {5}
  CommandCapacity = 1
  InputCapacity = 1
  Sent <- AllCommands
  Received = {"Stop", "position"}
  AllowNormalPriority = TRUE
  SendTransport = TRUE
SPECIFICATION Spec
CHECK_DEADLOCK FALSE
INVARIANTS
  FramesFollow
  StoppedIsSilent
  FollowersInStep
  ReportsAreHonest
