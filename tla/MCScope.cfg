CONSTANTS
  Names = {a, b}
  Scalars = {"out"}
  Others = {"midi"}
  Capacities = {0, 1, 3}
  MaxSelectors = 2
  MaxSamples = 2
  MaxLives = 2
  None = None
SPECIFICATION Spec
SYMMETRY NameSymmetry
INVARIANTS
  NewestKept
  NoPortDisappears
  EverySampleOnce
