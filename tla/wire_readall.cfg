CONSTANTS
  Servers = {"python"}
  Sizes = {2}
  Positions = {0, 1}
  MaxRequests = 1
SPECIFICATION Spec
CHECK_DEADLOCK FALSE
INVARIANT ReadAllReturnsAll
