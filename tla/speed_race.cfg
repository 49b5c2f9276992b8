SPECIFICATION FairSpec
CONSTANTS
  Counts = {2}
  MaxDivision = 1
  Threads = 2
  FlagSets = {{"collisionDetection"}}
  MaxSteps = 1
INVARIANT
  OthersMoveAsAtBegin
CHECK_DEADLOCK FALSE
