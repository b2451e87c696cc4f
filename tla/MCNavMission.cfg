SPECIFICATION FairSpec
CONSTANTS
  c1 = c1  c2 = c2  t1 = t1  t2 = t2  None = None
  Command = {c1, c2}
  Task = {t1, t2}
  TaskOf <- TwoTasks
  MaxAttempts = 1
  MotionRecovery = TRUE
  StallGuard = FALSE
  MaxCopies = 2
  MaxStops = 0
  MaxOperations = 0
  MaxInterventions = 0
INVARIANTS
  TypeOK
  RecoveriesBounded
  OneReport
  OneMission
  ConfirmedCancelIsFinal
PROPERTIES
  EveryCommandAnswered
  EveryCancelAnswered
CHECK_DEADLOCK FALSE
