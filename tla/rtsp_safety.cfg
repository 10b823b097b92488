CONSTANTS
  Threads = {t1, t2}
  Conns = {c1, c2}
  Handles = {h1, h2}
  SessionIds = {s1}
  Requests <- SessionRequests
  Resets = {c1, c2}
  NoConn = NoConn
  NoHandle = NoHandle
  NoRequest = NoRequest
  NoSession = NoSession
  NoThread = NoThread
SPECIFICATION Spec
CHECK_DEADLOCK FALSE
SYMMETRY Symmetry
INVARIANTS
  TypeOK
  OnlyFailuresEndService
  OwnHandle
  BlankNeedsSharing
  RtspInv
