CONSTANTS
  None = None
  Bad = Bad
  Notes = {n1, n2}
  Names = {1, 2}
  NumChannels = 2
  MaxSinks = 2
  Patches <- MCPatches
  MaxRequest = 2
  MaxSamples = 2
  MaxLives = 2
SPECIFICATION Spec
SYMMETRY NoteSymmetry
INVARIANTS
  VoicesAgree
  VoicesRecoverable
  SilenceNeverRefused
PROPERTIES
  FaultIsTerminal
CHECK_DEADLOCK FALSE
