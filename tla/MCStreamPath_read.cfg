CONSTANTS
  Base = 4
  Magic = 1
  DataType = 2
  CtrlType = {3}
  ChunkMax = 3
  CtrlMax = 2
  MaxNow = 2
  MaxSets = 2
  ReadMax = 2
  Message <- Messages
  MaxMsgs = 2
  Chan = 1
SPECIFICATION FairPathSpec
INVARIANTS Demuxed RoundTrip StreamIntact
PROPERTY ReadReturns
CHECK_DEADLOCK FALSE
