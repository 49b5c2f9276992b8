SPECIFICATION Spec
CONSTANTS
  Spheres = {0, 1, 2}
  CellCount = 8
  Capacity = 3
  Purposes = {"step"}
  Positions = {0, 1, 6}
  Radii = {1}
  Moves <- Still
  Bends <- Still
  Conversions = {"wraps", "saturates"}
INVARIANT
  OverlapsAreAlwaysCandidates
CHECK_DEADLOCK FALSE
