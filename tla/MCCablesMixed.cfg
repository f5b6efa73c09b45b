CONSTANTS
  Modules = {1, 2, 3}
  Ports = {1, 2, 3, 4, 5, 6}
  Owner <- MCOwner
  Direction <- MCDirection
  Kind <- MCKind
  Policy <- MCPolicy
  Silence = Silence
  Patches <- MixedPatches
  Offered = {"none", "unipolar"}
  MaxSpawns = 3
SPECIFICATION Spec
INVARIANTS
  MergesOneKind
CHECK_DEADLOCK FALSE
