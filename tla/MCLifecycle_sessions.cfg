CONSTANTS
  m1 = m1
  o1 = o1
  r1 = r1
  r2 = r2
  DevPublic = DevPublic
  DevLan = DevLan
  NoAddr = NoAddr
  Master = {m1}
  Other = {o1}
  Relay = {r1, r2}
  ChEvery = 2
  LinkCap = 2
  Main = Main
  Helper = Helper
  MaxDials = 2
SPECIFICATION FairSpec
INVARIANTS TypeOK CreatedWhenReady NumbersHandedOver ReturnedReleased OneSession
PROPERTY Everybody
CHECK_DEADLOCK FALSE
