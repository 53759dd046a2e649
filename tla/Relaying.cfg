SPECIFICATION FairSpec
CONSTANTS
  c1 = c1
  c2 = c2
  f = f
  s = s
  north = north
  south = south
  Address = {north, south}
  Conn <- MCConn
  From <- MCFrom
  Asks <- MCAsks
  Of <- MCOf
  Peer = {"p"}
  NoConn = NoConn
  MaxConnections = 3
  PerAddress = 2
  MaxTracked = 1
  Burst = 1
  MaxRelaySessions = 2
  PerAddressSessions = 1
  MaxEvents = 1
INVARIANTS AdmissionHolds NewestServes AnswersMatch
PROPERTY RequestsEnd
CHECK_DEADLOCK FALSE
