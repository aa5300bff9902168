CONSTANTS
  m1 = m1
  m2 = m2
  c1 = c1
  Msg = {}
  Ctrl = {}
  MayOpen = TRUE
  MayStop = TRUE
  MaxFrame = 1
  SendWindow = 1
  WriteCap = 1
  CtrlCap = 1
  CwndMin = 1
  CwndInit = 1
  CwndScale = 1
  RtoMin = 1
  RtoInit = 1
  RtoMax = 1
  MaxBackoff = 0
  GiveUp = 2
  LinkCap = 1
  ChunkLen <- MCLens
SPECIFICATION FairSpec
PROPERTIES Refines NoHang
CHECK_DEADLOCK FALSE
