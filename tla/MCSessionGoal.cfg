SPECIFICATION Spec
CONSTANTS
  m1 = m1
  m2 = m2
  m3 = m3
  None = None
  Map = {m1, m2, m3}
  BootMap = m1
  Stored = {m1, m2}
  Hold = 2
  SpinLimit = 1
  MaxInbox = 2
  MaxEvents = 4
INVARIANT
  GoalOnItsMap
CHECK_DEADLOCK FALSE
