CONSTANTS
  EventCapacity = 1
  Threshold = 1
  Ppqn = 4
  Beats = 1
  Intervals = {1}
  IdleSleep = 1
  MaxLag = 1
  Burst = 2
  Positions = {5}
  CommandCapacity = 1
  InputCapacity = 1
  Sent <- LifeCommands
  Received = {"clock", "note", "Stop"}
  AllowNormalPriority = FALSE
  SendTransport = TRUE
SPECIFICATION Spec
CHECK_DEADLOCK FALSE
PROPERTIES
  CallsReturn
