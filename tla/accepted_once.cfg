SPECIFICATION FairSpec
CONSTANTS
  Clients = {1}
  BeatPeriod = 2
  CheckPeriod = 10
  Late = 0
  Lossy = {"clientAccepted"}
  MaxLost = 1
PROPERTY
  RunningClientConnects
CHECK_DEADLOCK FALSE
