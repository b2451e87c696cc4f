SPECIFICATION PathSpec
CONSTANTS
  Twists <- AheadOrBack
  Requests <- AheadOrBack
  CommandTimeout = 1
  TelemetryTimeout = 2
  CommandPeriod = 1
  ReopenDelay = 1
  StallGuard = TRUE
  StallTimeout = 2
  EnableMotors = TRUE
  Watchdog = 1
  Control = 1
  Latency = 0
  ImuLimit = 1
  Transit = 0
  Preempt = 1
  LineDepth = 2
  FrameDepth = 1
  Turnings <- RollingOrStuck
  Faults = {"reader"}
INVARIANTS
  HeldBaseStops
