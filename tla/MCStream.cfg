CONSTANTS
  HighWatermark = 2
  LowWatermark = 2
  AckChunk = 1
  MaxFrame = 3
  Capacity = 1
  AckRetries = 1
  Chunk = {2}
  Total = 8
  MaxFailures = 2
  MayDetach = TRUE
SPECIFICATION FairSpec
INVARIANTS TypeOK CreditIsKept WebviewIsBounded EndComesLast
PROPERTIES AllArrives CloseEndsIt
CHECK_DEADLOCK FALSE
