CONSTANTS
  Threads = {t1, t2}
  Conns = {c1, c2}
  SessionIds = {s1, s2}
  Requests <- SessionRequests
  UseAuth = TRUE
  ResetErrno = 10054
  NoConn = NoConn
  NoRequest = NoRequest
  NoSession = NoSession
  BadSession = BadSession
SPECIFICATION Spec
SYMMETRY Symmetry
CHECK_DEADLOCK FALSE
INVARIANTS
  TypeOK
  OneWorkerPerConn
  OwnedSession
  KeyErrorOnlyForeign
  HandlesOwnRequest
PROPERTIES
  OrphanStable
  ImplementsRegistry
