SPECIFICATION FairSpec
CONSTANTS
  Limit = 1
  Chunk = 2
  MaxWritten = 2
  MaxCancels = 2
PROPERTIES
  CancelledStopsCodex
CHECK_DEADLOCK FALSE
