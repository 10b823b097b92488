CONSTANTS
  Readers = {"cpp", "python"}
  MaxLine = 8
  Sent <- Exchanges
  Garbled <- Noise
SPECIFICATION FairSpec
CHECK_DEADLOCK FALSE
INVARIANTS
  TypeOK
  ParsesAsSent
  HeadEndsAtBlankLine
PROPERTIES
  NoticesEnd
  NearsEnd
