\* Three callers: the shortest race of a Start with two overlapping Restarts
\* or Stops. Three generations are all that three calls can launch.
CONSTANTS
  Callers = {c1, c2, c3}
  MaxGen = 3
  MaxSpawn = 3
  AutoRestart = TRUE
  Deadlines = TRUE
SPECIFICATION Spec
SYMMETRY Symmetry
INVARIANTS
  OneAtATime
  SignalsInScope
  StatusIsTrue
  CleanlyRetiredReadsStopped
\* Callers return and a retired process stays down: the system may stop.
CHECK_DEADLOCK FALSE
