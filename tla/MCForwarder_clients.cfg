CONSTANTS
  c1 = c1
  c2 = c2
  c3 = c3
  NoConn = NoConn
  Conn = {c1, c2, c3}
  Maps = 2
  Last = 2
  SockCap = 1
SPECIFICATION FairProxySpec
INVARIANTS OneClient SessionSpared
 
CHECK_DEADLOCK FALSE
