SPECIFICATION FairSpec
CONSTANTS
  Ops = {"addSphere", "getTotalEnergy", "updateSphere"}
  Slots = {"getTotalEnergy"}
  MaxCalls = 4
INVARIANT
  ReplyAnswersItsCall
CHECK_DEADLOCK FALSE
