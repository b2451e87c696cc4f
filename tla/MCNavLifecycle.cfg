SPECIFICATION FairSpec
CONSTANTS
  Attempts = 2
  SaveEnds = {"activate", "restore"}
  MaxEvents = 3
INVARIANTS
  TypeOK
  SlamIsSoleAuthority
  OneTransition
  BrokenContractStaysPaused
PROPERTIES
  DiscardRestores
  OperationsEnd
CHECK_DEADLOCK FALSE
