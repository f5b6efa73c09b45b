CONSTANTS
  Minute = 10
  MinTempo = 2
  MaxTempo = 12
  MaxPpqn = 2
  MaxWidth = 2
  Asked <- MCAsked
  DefaultConfig <- MCDefaultConfig
  Cycle = 4
  MaxFrequency = 3
  NonFinite = 99
  Sine <- MCSine
  DefaultLfo <- MCDefaultLfo
  AskedLfo <- MCAskedLfo
  Voltages = {99, 2}
  Texts = {"a"}
  PatchFiles <- MCPatchFiles
SPECIFICATION Spec
INVARIANTS
  TempoHeld
  NoticesTell
PROPERTIES
  PulsesSeparated
  SyncAligns
CHECK_DEADLOCK FALSE
