SPECIFICATION Spec
CONSTANTS
  Platforms = {"youtube", "tiktok", "x"}
  Late = {"youtube", "tiktok", "x"}
  Requests = {r1, r2}
  MaxClicks = 2
  MaxAttempts = 2
  MaxIds = 2
  MaxTrouble = 2
SYMMETRY RequestSymmetry
CHECK_DEADLOCK FALSE
INVARIANTS
  TwiceOnlyAstray
  NothingForgotten
  RowIsTrue
PROPERTIES
  PostedIsFinal
  ReconcileSparesTheLiving
