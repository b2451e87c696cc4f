SPECIFICATION Spec
CONSTANTS
  c1 = c1  c2 = c2  t1 = t1  t2 = t2  None = None
  Command = {c1}
  Task = {t1}
  TaskOf <- OneCommand
  MaxAttempts = 1
  MotionRecovery = TRUE
  StallGuard = TRUE
  MaxCopies = 2
  MaxStops = 1
  MaxOperations = 1
  MaxInterventions = 1
INVARIANTS
  ActiveIsWorking
  OneRobotOperation
CHECK_DEADLOCK FALSE
