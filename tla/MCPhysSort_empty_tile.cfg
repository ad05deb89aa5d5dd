SPECIFICATION Spec
CONSTANTS
  Particle = {p1, p2, p3}
  Empty = Empty
  NCell = 2
  VL = 2
  LastStep = 2
  MaxArrive = 3
  Injecting = FALSE
  EmptyMoves = TRUE
INVARIANTS CollectsInitialized
SYMMETRY Symmetry
CHECK_DEADLOCK FALSE
