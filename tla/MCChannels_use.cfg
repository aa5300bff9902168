CONSTANTS
  c1 = c1
  c2 = c2
  c3 = c3
  None = None
  Caller = {c1, c2}
  IdxHi = 3
  MaxData = 1
  MayDie = TRUE
SPECIFICATION FairSpec
INVARIANTS PendingOwned NoCrossTalk BuffersOwned
PROPERTIES ReadersReturn
CHECK_DEADLOCK FALSE
