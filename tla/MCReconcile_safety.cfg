SPECIFICATION Spec
CONSTANTS
  Dests = {1, 2}
  Rends = {1}
  Ports = {p1, p2, p3, p4}
  NoPort = NoPort
  Backups = {1}
  Stored <- OneOrAll
  MaxEdits = 1
  MaxFaults = 1
  MaxOther = 1
SYMMETRY PortSymmetry
CHECK_DEADLOCK FALSE
INVARIANTS
  RunningIsFed
  PortsAccountedFor
  AsTheStoreSays
PROPERTIES
  OnlyItsOwnEdit
