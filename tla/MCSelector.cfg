SPECIFICATION Spec
CONSTANTS
  Configs <- MCConfigs
  MaxActs = 1
  MaxDying = 1
  MaxHubs = 13
  None = None
  Failed = Failed
INVARIANTS
  FeedIsTrue
PROPERTIES
  NoFlapping
  NeverOffAirForGood
