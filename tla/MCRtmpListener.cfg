SPECIFICATION FairSpec
CONSTANTS
  Pubs = {a, b}
  Rotating = {a}
  Subs = {x, y}
  Streams = {t1, t2, t3, t4, t5}
  MaxWaiters = 2
  None = None
CHECK_DEADLOCK FALSE
INVARIANTS
  OneKeyOneStream
  SetupIsOfTheSession
PROPERTIES
  EndReachesSubscribers
  RevokedIsClosed
