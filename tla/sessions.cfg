SPECIFICATION Spec
CONSTANTS
  a = a
  b = b
  c = c
  p1 = p1
  p2 = p2
  x = x
  NoProduct = NoProduct
  NoPrice = NoPrice
  NoReplica = NoReplica
  Nothing = Nothing
  Replicas = {r1, r2}
  Logs <- BothLogs
  Timeout = 1
  SweepEvery = 2
  MaxFaults = 1
SYMMETRY Symmetry
INVARIANTS
  TypeOK
  SessionsAreWhole
  OneHolder
PROPERTIES
  CountsNeverGoBack
  ExpiredAreSwept
CHECK_DEADLOCK FALSE
