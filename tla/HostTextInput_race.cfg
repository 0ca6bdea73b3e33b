SPECIFICATION Spec
CONSTANTS
  a = a
  b = b
  Values <- ValuesUsed
  MaxSession = 3
  MaxService = 2
  MaxCallback = 4
  MaxRevision = 3
  MaxCallbacks = 1
  MaxCommands = 4
  CoLocated = TRUE
  BackendMayFail = FALSE
  PostsMayFail = FALSE
INVARIANT LatestValueSynchronized
SYMMETRY ValueSymmetry
CHECK_DEADLOCK FALSE
