\* Two callers of a process that does not restart, under fairness; no
\* symmetry, the properties are temporal.
CONSTANTS
  Callers = {c1, c2}
  MaxGen = 2
  MaxSpawn = 2
  AutoRestart = FALSE
  Deadlines = TRUE
SPECIFICATION FairSpec
PROPERTIES
  RetiredIsReaped
  CallersReturn
  PromiseIsKept
\* Callers return and a retired process stays down: the system may stop.
CHECK_DEADLOCK FALSE
