SPECIFICATION RasterFairSpec
CONSTANTS
  c1 = c1
  c2 = c2
  Clients <- ClientThreads
  MaxFrames = 3
INVARIANTS RasterTypeOK OpenTicketsOwned NoLostWakeup
PROPERTIES FramesKept EverybodyReturns
CHECK_DEADLOCK FALSE
