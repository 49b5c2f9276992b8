\* The energy of a pair of overlapping spheres is counted twice.
SPECIFICATION Spec
CONSTANTS
  Spheres = {0, 1, 2}
  CellCount = 4
  Capacity = 2
  Purposes = {"energy"}
  Positions = {0, 1, 4, 6}
  Radii = {1}
  Moves <- Still
  Bends <- Still
  Conversions = {"wraps"}
INVARIANT
  PairEnergyCountedOnce
CHECK_DEADLOCK FALSE
