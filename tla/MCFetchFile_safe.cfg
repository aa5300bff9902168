CONSTANTS
  w1 = w1
  w2 = w2
  Worker = {w1, w2}
  Fetches = 3
  MaxFails = 2
  Sizes <- MCSizes
  Stale = 3
SYMMETRY MCSymmetry
SPECIFICATION MCSpec
INVARIANTS CommitComplete LateWritesUnreachable
PROPERTY Refines
CHECK_DEADLOCK FALSE
