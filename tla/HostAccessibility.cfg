SPECIFICATION Spec
CONSTANTS
  button = button
  text = text
  Nodes = {1, 2}
  Trees <- TreesUsed
  MaxService = 2
  MaxPublication = 4
  MaxQueue = 2
  CoLocated = TRUE
  ApplyMayFail = TRUE
  PostsMayFail = TRUE
INVARIANTS TypeOK ChangesFit AdapterFollows
CHECK_DEADLOCK FALSE
