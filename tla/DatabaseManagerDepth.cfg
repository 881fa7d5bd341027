SPECIFICATION Spec
CONSTANTS
  r1 = r1  w1 = w1  l1 = l1
  c1 = c1  c2 = c2  c3 = c3  c4 = c4
  k1 = k1  k2 = k2  k3 = k3  k4 = k4
  NoConn = NoConn  NoLock = NoLock  NoThread = NoThread
  Repository <- OneRepository
  Writer <- Nobody
  Legacy <- Nobody
  Conn <- Connections
  Lock <- Locks
  MaxRetries = 1
  MaxCalls = 3
  MaxCloses = 0
CHECK_DEADLOCK FALSE
INVARIANT RollsBackOnError
