SPECIFICATION UiSpec
CONSTANTS
  Capacity = 3
  MaxPosition = 7
  MaxOpen = 2
  Readers = {r}
  ReadLimits = {1, 2}
  Pointers = {p1, p2}
  Members = {m1, m2, m3}
  NoMember = none
  MaxCalls = 4
  FocusViews = {"v1", "v2", "v3"}
  NoView = "none"
  Enclosing <- ChainOfViews
  MaxNodes = 5
  MaxRoutes = 2
  Components = {"root", "a", "b"}
  RootComponent = "root"
  Shapes <- TreesOfComponents
  Comparable = {"root", "a"}
  Signals = {s}
  NoProp = 0
  Models <- ListModels
  NoLimit <- Unbounded
  ItemExtent = 2
  ViewportExtent = 2
  CacheExtent = 1
  MaxScroll = 8
  MaxModelRevision = 3
  MaxRounds = 1
  Elements = {e1, e2}
  SlotNames = {x, y}
  RestorationIds = {i1, i2}
  NoId = none
  Values = {1, 2}
  NoValue = 0
  Foreign = 9
  Preorder <- BoxesInOrder
  RootBox = "root"
  NoBox = "none"
  Home <- BoxParents
  Boundaries = {"root", "outer", "inner"}
  Painted = {"inner"}
  Inset = {"plain"}
  Replaceable = {"inner"}
  KeptAlive = {"plain"}
  Viewports = {1, 2}
  MaxBoxId = 5
INVARIANTS UiTypeOK ReadsExact VerdictsFit FocusFits BuildsFresh LazyFits RestorationKept LayersFresh
CHECK_DEADLOCK FALSE
