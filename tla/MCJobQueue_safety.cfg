SPECIFICATION Spec
CONSTANTS
  Jobs = {1, 2}
  UniqueJobs = {1, 2}
  MaxAttempts = 2
  Limit = 2
  KindLimit = 1
  Governed = TRUE
  Controls = {"defer", "retry", "remove", "pause"}
  Execs = {1, 2}
  MaxRetries = 1
  MaxDowns = 1
  MaxFaults = 0
  KindOf <- MCKindOf
  TargetOf <- MCTargetOf
  Priority <- MCPriority
CHECK_DEADLOCK FALSE
INVARIANTS
  RowsAndWorkersAgree
  LimitsHold
PROPERTIES
  ImplementsLedger
