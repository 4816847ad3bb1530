SPECIFICATION FairSpec
CONSTANTS
  k1 = k1
  k2 = k2
  k3 = k3
  w1 = w1
  w2 = w2
  w3 = w3
  c1 = c1
  c2 = c2
  c3 = c3
  Blank = Blank
  NoRequest = NoRequest
  Caller <- MC_Caller
  Key <- MC_Key
  URL <- MC_URL
  Request <- MC_Request
  MaxPicks = 4
INVARIANTS
  TypeOK
  ScanStaysFresh
  EvenRotation
  PairsBelongTogether
PROPERTY
  EveryCallServed
CHECK_DEADLOCK FALSE
