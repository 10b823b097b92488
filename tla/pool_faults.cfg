CONSTANTS
  Threads = {t1}
  Conns = {c1, c2}
  SessionIds = {s1, s2}
  Requests <- AllRequests
  UseAuth = TRUE
  ResetErrno = 104
  NoConn = NoConn
  NoRequest = NoRequest
  NoSession = NoSession
  BadSession = BadSession
SPECIFICATION Spec
SYMMETRY Symmetry
CHECK_DEADLOCK FALSE
INVARIANT PoolInv
