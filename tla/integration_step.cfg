SPECIFICATION FairSpec
CONSTANTS
  Counts = {1, 3}
  MaxDivision = 2
  Threads = 2
  FlagSets = {{"collisionDetection"}, {"lennardJonesPotential"}, {"gravityCalculation", "periodicBoundaryConditions"}}
  MaxSteps = 2
INVARIANTS
  PartsTileTheStep
  AccIsOfTheFirstTrial
  ForcesSeeOneInstant
PROPERTY
  StepEnds
CHECK_DEADLOCK FALSE
