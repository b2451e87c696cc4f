SPECIFICATION Spec
CONSTANTS
  Lease = 5
  Period = 2
  Jitter = 1
  Horizon = 13
INVARIANTS
  TypeOK
  LatchedMotionIsOwners
  DeadManBound
  StopRevokesLeases
PROPERTIES
  HandoverThroughZero
  NoPreemptionFromBelow
