SPECIFICATION Spec
CONSTANTS
  Sources = {1}
  Engines = {e1, e2}
  Callers = {c1, c2}
  Ports = {1, 2}
  MaxEdits = 2
  MaxSaves = 1
  MaxSent = 1
  None = None
SYMMETRY ManagerSymmetry
CHECK_DEADLOCK FALSE
INVARIANTS
  EnginesAreTheStores
  RecorderIsSeen
  ListenersFollow
PROPERTIES
  TotalsNeverFall
