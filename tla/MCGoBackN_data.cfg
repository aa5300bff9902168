CONSTANTS
  m1 = m1
  m2 = m2
  c1 = c1
  Msg = {m1}
  Ctrl = {c1}
  MayOpen = FALSE
  MayStop = FALSE
  MaxFrame = 2
  SendWindow = 2
  WriteCap = 1
  CtrlCap = 1
  CwndMin = 1
  CwndInit = 1
  CwndScale = 2
  RtoMin = 1
  RtoInit = 1
  RtoMax = 1
  MaxBackoff = 0
  GiveUp = 2
  LinkCap = 2
  ChunkLen <- MCLens
SPECIFICATION Spec
INVARIANTS TypeOK InflightExact NoPrematureFree DeviceIntact DataInOrder DataWithinWindow
CHECK_DEADLOCK FALSE
