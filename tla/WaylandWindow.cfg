SPECIFICATION FairSpec
CONSTANTS
  ScaleDenominator = 2
  MaxInt32 = 8
  MaxUInt32 = 15
  MaxRevision = 3
  MaxGeneration = 4
  MaxSerial = 2
  MaxHostGeneration = 4
  NativeMayFail = TRUE
  InitialExtent <- FirstExtent
  Staged <- Sizes
  Scales <- PreferredScales
INVARIANTS TypeOK ArmedWillBePulsed WindowConsistent
PROPERTY ArmedFramePulsed
CHECK_DEADLOCK FALSE
