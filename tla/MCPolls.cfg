SPECIFICATION FairSpec
CONSTANTS
  Viewers = {v1}
  Chats = {c1}
  MaxMsgs = 2
  MaxTally = 1
CHECK_DEADLOCK FALSE
INVARIANTS
  VotesAreTrue
PROPERTIES
  EveryChatCountsOnce
  EveryPollEnds
  NativePollsAreEnded
