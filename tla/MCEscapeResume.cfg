SPECIFICATION Spec
CONSTANTS
  SensorTimeout = 1
  Warmup = 1
  TimeLimit = 2
  Stops = 1
  Patience = 9
  Delivery = 1
  Late = 1
  Lease = 2
  MaxEvents = 1
INVARIANT
  NoMotionAfterRelease
