SPECIFICATION WaylandSpec
CONSTANTS
  ScaleDenominator = 2
  MaxInt32 = 8
  MaxUInt32 = 15
  MaxRevision = 4
  MaxGeneration = 4
  MaxSerial = 2
  InitialExtent <- FirstExtent
  Staged <- Sizes
  Scales <- PreferredScales
  Keys = {a, b, m}
  RepeatingKeys = {a, b}
  NoKey = none
  Settings <- RepeatSettings
  MaxRepeatGeneration = 4
  MaxExpirations = 1
  Kinds = {"seat", "shm", "fractional_scale"}
  ScaleKinds = {"fractional_scale"}
  Names = {"s1", "s2", "c1", "f1"}
  Kind <- KindOf
  NoName = none
  Outputs = {"o1", "o2"}
  MaxScaleFactor = 2
  Tasks = {t}
  BindMayFail = TRUE
  MaxMilliseconds = 7
  MaxGap = 4
  MaxTime = 30
SYMMETRY RepeatingKeysAlike
INVARIANTS WaylandTypeOK SurfaceConsistent HostFollowsSeat RepeatFits RegistryFollowed WakePending ClockUnwraps
CHECK_DEADLOCK FALSE
