SPECIFICATION Spec
CONSTANTS
  Particle = {p1, p2, p3}
  Empty = Empty
  NCell = 2
  VL = 2
  LastStep = 1
  MaxArrive = 3
  Injecting = TRUE
  EmptyMoves = FALSE
INVARIANTS InjectedKept
SYMMETRY Symmetry
CHECK_DEADLOCK FALSE
