\* The documentation's "Never twice" for TikTok: TLC finds the third click
\* that posts again. No run names this file; see README.md.
SPECIFICATION Spec
CONSTANTS
  Platforms = {"tiktok"}
  Late = {}
  Requests = {r1}
  MaxClicks = 3
  MaxAttempts = 2
  MaxIds = 3
  MaxTrouble = 2
CHECK_DEADLOCK FALSE
INVARIANTS
  NeverTwice
