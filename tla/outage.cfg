SPECIFICATION FairSpec
CONSTANTS
  Clients = {1}
  BeatPeriod = 2
  CheckPeriod = 10
  Late = 0
  Lossy = {"heartbeat"}
  MaxLost = 8
INVARIANT
  ReadyMeansReady
CHECK_DEADLOCK FALSE
