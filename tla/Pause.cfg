SPECIFICATION Spec
CONSTANTS
  Pausers = {p1, p2}
  Pids = {1, 2, 3}
  MaxExecs = 2
  Wraps = FALSE
  MayClose = TRUE
SYMMETRY MCSymmetry
INVARIANTS
  NobodyLeftStopped
  PausedWhole
CHECK_DEADLOCK FALSE
