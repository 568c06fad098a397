SPECIFICATION FairSpec
CONSTANTS
  Dests = {1}
  Rends = {1}
  Ports = {p1, p2, p3}
  NoPort = NoPort
  Backups = {1}
  Stored <- OneOrAll
  MaxEdits = 1
  MaxFaults = 0
  MaxOther = 0
CHECK_DEADLOCK FALSE
PROPERTIES
  EventuallySettled
  ShutdownCompletes
