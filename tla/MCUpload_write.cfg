CONSTANTS
  w1 = w1
  w2 = w2
  Paths <- Two
  Worker = {w1, w2}
  Chunk = 2
  PerWorker = 1
  MaxSize = 9
  MaxEdits = 1
SPECIFICATION MCSpec
INVARIANTS ReportedWhole
PROPERTY UploadEnds
CHECK_DEADLOCK FALSE
