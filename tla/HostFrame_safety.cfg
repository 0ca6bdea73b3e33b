SPECIFICATION Spec
CONSTANTS
  MaxFrameGeneration = 5
  MaxMetricsGeneration = 2
  MaxSequence = 3
  Timestamps <- Times
  CoLocated = FALSE
  PostsMayFail = TRUE
  ControlMayFail = TRUE
INVARIANTS TypeOK NoLostDemand SingleDelivery DeliveryPending FrameMatchesToldMetrics ExhaustionNoticed
CHECK_DEADLOCK FALSE
