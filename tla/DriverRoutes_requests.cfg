SPECIFICATION HSpec
CONSTANTS
  p1 = p1
  p2 = p2
  a = a
  b = b
  ra = ra
  rb = rb
  PodNames = {p1}
  Selectors = {a, b}
  RouteNames = {ra, rb}
  RouteName <- OwnRouteName
  LabelOf <- OnlyA
  Phases = {"", "Running", "Failed", "Unknown"}
  MaxDeltas = 1
  WatchBreaks = TRUE
  r1 = r1
  Requests = {r1}
  MaxFaults = 1
  MaxCrashes = 1
  None = None
  NoSelector = NoSelector
  Watcher = Watcher
  Syncer = Syncer
  RootRoute = RootRoute
  Fallback = Fallback
INVARIANTS
  RouteOnlyForDriverThatRan
  RunningDriverHasRoute
  FinishedDriverHasNoRoute
PROPERTIES
  RootRouteKept
