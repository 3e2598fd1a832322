CONSTANTS
  UntilClose = FALSE
  MaxHttpCalls = 3
  Chunks = 2
SPECIFICATION HttpSpec
CHECK_DEADLOCK FALSE
INVARIANT
  OwnResponse
