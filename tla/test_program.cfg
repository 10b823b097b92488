CONSTANTS
  Threads = {t1, t2}
  Conns = {c1, c2, c3}
  Testers = {c1, c2}
  Keys = {"wrong", "right"}
  SessionIds = {s1, s2}
  Requests <- TestRequests
  UseAuth = TRUE
  ResetErrno = 104
  NoConn = NoConn
  NoRequest = NoRequest
  NoSession = NoSession
  BadSession = BadSession
SPECIFICATION SystemSpec
CHECK_DEADLOCK FALSE
INVARIANTS
  ClientTypeOK
  WorkersLost
  SystemInv
PROPERTIES
  TestFinishes
  SessionsReleased
  ClientsEnd
