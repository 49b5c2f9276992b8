SPECIFICATION FairSpec
CONSTANTS
  ClientCalls = {"steps", "start", "pop"}
  StepCounts = {1, 2}
  MaxCalls = 3
  MaxCounted = 6
INVARIANTS
  TypeOK
  QuietMeansNotSimulating
  StepsAreConserved
PROPERTY
  PollingEnds
CHECK_DEADLOCK FALSE
