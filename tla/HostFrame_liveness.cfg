SPECIFICATION FairSpec
CONSTANTS
  MaxFrameGeneration = 5
  MaxMetricsGeneration = 2
  MaxSequence = 3
  Timestamps <- Times
  CoLocated = TRUE
  PostsMayFail = FALSE
  ControlMayFail = FALSE
PROPERTY FrameProgress
CHECK_DEADLOCK FALSE
