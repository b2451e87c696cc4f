SPECIFICATION FairSpec
CONSTANTS
  SensorTimeout = 1
  Warmup = 1
  TimeLimit = 2
  Stops = 1
  Patience = 10
  Delivery = 1
  Late = 1
  Lease = 4
  MaxEvents = 1
INVARIANTS
  TypeOK
  NoBlindMotion
  ObstacleStops
  MovesOnRequest
  RecoveredMeansMoved
PROPERTY
  RecoveryEnds
