SPECIFICATION FairSpec
CONSTANTS
  Limit = 1
  Chunk = 2
  MaxWritten = 2
  MaxCancels = 2
INVARIANTS
  NothingLeftBehind
  OutcomeTellsTheCause
  WholeWithinLimit
PROPERTIES
  InvocationEnds
  CancelledRunIsLeft
CHECK_DEADLOCK FALSE
