SPECIFICATION Spec
CONSTANTS
  button = button
  text = text
  Nodes = {1, 2}
  Trees <- TreesUsed
  MaxService = 2
  MaxPublication = 4
  MaxQueue = 2
  CoLocated = FALSE
  ApplyMayFail = TRUE
  PostsMayFail = FALSE
INVARIANT ChangesFit
CHECK_DEADLOCK FALSE
