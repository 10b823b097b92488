CONSTANTS
  Servers = {"python", "cpp"}
  Sizes <- SmallSizes
  Positions <- SmallPositions
  MaxRequests = 3
SPECIFICATION Spec
CHECK_DEADLOCK FALSE
INVARIANTS
  TypeOK
  InStep
  HarmNeedsSlip
  WireInv
PROPERTIES
  ImplementsExchange
