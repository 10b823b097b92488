CONSTANTS
  Threads = {t1, t2}
  Conns = {c1, c2}
  Handles = {h1, h2}
  SessionIds = {s1, s2}
  Requests <- SetupRequests
  Resets = {}
  NoConn = NoConn
  NoHandle = NoHandle
  NoRequest = NoRequest
  NoSession = NoSession
  NoThread = NoThread
SPECIFICATION Spec
CHECK_DEADLOCK FALSE
INVARIANT UniqueId
