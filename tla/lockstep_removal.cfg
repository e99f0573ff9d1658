SPECIFICATION MCSpec
CONSTANTS
  c1 = c1
  c2 = c2
  k1 = k1
  k2 = k2
  Free = Free
  NumPeers = 1
  NumAttempts = 2
  MaxUnderWay = 2
INVARIANTS
  ClientTable
  RemovalSound
CHECK_DEADLOCK FALSE
