SPECIFICATION FairSpec
CONSTANTS
  Counts = {0, 1}
  MaxDivision = 0
  Threads = 1
  FlagSets = {{"collisionDetection"}}
  MaxSteps = 2
INVARIANT
  PopReportsNewCalculations
CHECK_DEADLOCK FALSE
