SPECIFICATION FairSpec
CONSTANTS
  ClientCalls = {"start"}
  StepCounts = {1}
  MaxCalls = 1
  MaxCounted = 1
PROPERTY
  StartingEnds
CHECK_DEADLOCK FALSE
