SPECIFICATION Spec
CONSTANTS
  ClientCalls = {"steps", "pop"}
  StepCounts = {1, 2}
  MaxCalls = 3
  MaxCounted = 6
INVARIANT
  FlagTellsRunning
CHECK_DEADLOCK FALSE
