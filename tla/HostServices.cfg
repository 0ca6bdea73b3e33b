SPECIFICATION ServicesSpec
CONSTANTS
  arrow = arrow
  hand = hand
  MaxService = 2
  MaxSequence = 3
  MaxDelegate = 3
  MaxCursorService = 3
  MaxRevision = 4
  PostsMayFail = TRUE
  ApplyMayFail = TRUE
INVARIANTS ServicesTypeOK ServicesAccounted
PROPERTY ServicesSettle
CHECK_DEADLOCK FALSE
