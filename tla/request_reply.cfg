SPECIFICATION FairSpec
CONSTANTS
  Ops = {"addSphere", "removeLastSphere", "addSomeSpheres", "removeSomeLastSpheres", "getTotalEnergy", "updateSphere"}
  Slots = {"updateSphere"}
  MaxCalls = 5
INVARIANTS
  TypeOK
  ReplyAnswersItsCall
  EveryoneAgreesOnCount
PROPERTY
  EveryCallReturns
CHECK_DEADLOCK FALSE
