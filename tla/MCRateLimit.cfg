SPECIFICATION LimiterSpec
CONSTANTS
  Hitters = {h1, h2}
  Limit = 2
  Window = 3
  MaxTime = 8
  MaxCount = 4
SYMMETRY Symmetry
CHECK_DEADLOCK FALSE
INVARIANTS
  WindowEnds
  TwicePerWindow
