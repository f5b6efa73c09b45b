CONSTANTS
  Modules = {1, 2, 3}
  Ports = {1, 2, 3, 4, 5}
  Owner <- GraphOwner
  Direction <- GraphDirection
  Kind <- GraphKind
  Policy <- GraphPolicy
  Silence = Silence
  Patches <- GraphPatches
  Offered = {"none"}
  MaxSpawns = 3
  MaxWires = 0
SPECIFICATION BothSpec
INVARIANT MaintenanceNeverPanics
CHECK_DEADLOCK FALSE
