SPECIFICATION FairSpec
CONSTANTS
  Clients = {1, 3}
  BeatPeriod = 2
  CheckPeriod = 10
  Late = 1
  Lossy = {"heartbeat"}
  MaxLost = 2
INVARIANTS
  TypeOK
  RequestsMeetTheirSystem
PROPERTIES
  RunningClientStays
  GoneClientIsForgotten
  RunningClientConnects
CHECK_DEADLOCK FALSE
