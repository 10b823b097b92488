CONSTANTS
  Threads = {t1, t2}
  Conns = {c1, c2}
  Handles = {h1, h2}
  SessionIds = {s1}
  Requests <- SessionRequests
  Resets = {}
  NoConn = NoConn
  NoHandle = NoHandle
  NoRequest = NoRequest
  NoSession = NoSession
  NoThread = NoThread
SPECIFICATION FairSpec
CHECK_DEADLOCK FALSE
PROPERTIES
  Answered
