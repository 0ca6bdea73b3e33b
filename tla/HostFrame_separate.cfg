SPECIFICATION FairSpec
CONSTANTS
  MaxFrameGeneration = 5
  MaxMetricsGeneration = 2
  MaxSequence = 3
  Timestamps <- Times
  CoLocated = FALSE
  PostsMayFail = FALSE
  ControlMayFail = FALSE
PROPERTY FrameProgress
CHECK_DEADLOCK FALSE
