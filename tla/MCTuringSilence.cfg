CONSTANTS
  Octave = 4
  MaxNote = 8
  DacBits = 3
  Width = 4
  Lengths <- LoopLengths
  Full = 1
  MidRange <- Middle
  Modulations <- Turns
  Values <- Offered
  Seeded <- Registered
  MaxChanges = 1
  Hosts = {"midi"}
  Channels = {0, 1}
SPECIFICATION HostSpec
INVARIANT AllNotesOffSilences
