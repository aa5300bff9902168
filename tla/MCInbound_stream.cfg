CONSTANTS
  LastFrame = 4
  DevWindow = 2
  LinkCap = 2
  KaEvery = 0
  StallAfter = 1
  StallBack = 1
  Echoes = {0}
SPECIFICATION FairSpec
INVARIANTS TypeOK GapOnlyAtStart NoneStranded
PROPERTIES StartedDrains
