SPECIFICATION PathSpec
CONSTANTS
  Twists <- Ahead
  Requests <- Ahead
  CommandTimeout = 1
  TelemetryTimeout = 2
  CommandPeriod = 1
  ReopenDelay = 0
  StallGuard = FALSE
  StallTimeout = 1
  EnableMotors = FALSE
  Watchdog = 1
  Control = 1
  Latency = 0
  ImuLimit = 1
  Transit = 0
  Preempt = 0
  LineDepth = 1
  FrameDepth = 1
  Turnings <- Rolling
  Faults = {"port","imu","reset","restart"}
INVARIANTS
  TypeOK
  HeldBaseStops
  FaultHoldsDrive
  WatchdogBound
PROPERTIES
  LeaseKept
