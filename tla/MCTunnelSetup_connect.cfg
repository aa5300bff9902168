CONSTANTS
  ChEvery = 2
  LinkCap = 2
SPECIFICATION FairSpec
PROPERTY ConnectReaches
CHECK_DEADLOCK FALSE
