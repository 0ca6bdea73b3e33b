SPECIFICATION HostSpec
CONSTANTS
  Pointers <- TwoPointers
  MaxDelegate = 3
  MaxEvents = 4
  textA = textA
  textB = textB
  Values <- ValuesUsed
  MaxSession = 3
  MaxService = 2
  MaxCallback = 4
  MaxRevision = 3
  MaxCallbacks = 1
  MaxCommands = 4
  CoLocated = FALSE
  BackendMayFail = TRUE
  PostsMayFail = TRUE
INVARIANTS HostTypeOK DelegateInformed NativeSessionFits
SYMMETRY ValueSymmetry
CHECK_DEADLOCK FALSE
