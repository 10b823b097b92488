CONSTANTS
  Sizes <- SmallSizes
  Positions <- SmallPositions
  Chunk = 2
  MaxSent = 20
SPECIFICATION FairSpec
CHECK_DEADLOCK FALSE
INVARIANTS
  TypeOK
  SendsAsComputed
  NeverPastRange
PROPERTIES
  Ends
