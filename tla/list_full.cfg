SPECIFICATION Spec
CONSTANTS
  Spheres = {0, 1, 2}
  CellCount = 4
  Capacity = 1
  Purposes = {"step"}
  Positions = {0, 1, 4, 6}
  Radii = {1, 2}
  Moves <- Still
  Bends <- Still
  Conversions = {"wraps"}
INVARIANT
  FullMeansNoRoom
CHECK_DEADLOCK FALSE
