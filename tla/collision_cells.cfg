SPECIFICATION Spec
CONSTANTS
  Spheres = {0, 1, 2}
  CellCount = 4
  Capacity = 2
  Purposes = {"step", "energy"}
  Positions = {0, 1, 4, 6}
  Radii = {1, 2}
  Moves <- BackAndForth
  Bends <- Backward
  Conversions = {"wraps", "saturates"}
INVARIANTS
  OverlapsAreCandidates
  EachActsOnce
CHECK_DEADLOCK FALSE
