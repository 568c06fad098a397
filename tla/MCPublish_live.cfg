SPECIFICATION FairSpec
CONSTANTS
  Platforms = {"youtube", "tiktok", "x"}
  Late = {"youtube", "tiktok", "x"}
  Requests = {r1}
  MaxClicks = 2
  MaxAttempts = 2
  MaxIds = 4
  MaxTrouble = 1
CHECK_DEADLOCK FALSE
PROPERTIES
  ClickEnds
