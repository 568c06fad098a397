SPECIFICATION FairSpec
CONSTANTS
  Jobs = {1, 3}
  UniqueJobs = {}
  MaxAttempts = 1
  Limit = 1
  KindLimit = 1
  Governed = FALSE
  Controls = {"defer"}
  Execs = {1}
  MaxRetries = 0
  MaxDowns = 2
  MaxFaults = 1
  KindOf <- MCKindOf
  TargetOf <- MCTargetOf
  Priority <- MCPriority
CHECK_DEADLOCK FALSE
INVARIANTS
  CrashesAreCharged
PROPERTIES
  WaitingIsServed
  ShutdownCompletes
