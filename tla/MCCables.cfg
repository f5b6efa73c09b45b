CONSTANTS
  Modules = {1, 2, 3}
  Ports = {1, 2, 3, 4, 5, 6}
  Owner <- MCOwner
  Direction <- MCDirection
  Kind <- MCKind
  Policy <- MCPolicy
  Silence = Silence
  Patches <- MCPatches
  Offered = {"none", "unipolar"}
  MaxSpawns = 3
SPECIFICATION Spec
INVARIANTS
  OrderNeverStale
  RemovalNeverRefused
  RestartNeverRefused
  GraphIsLegal
  MergesOneKind
PROPERTIES
  ImplementsPatchbay
CHECK_DEADLOCK FALSE
