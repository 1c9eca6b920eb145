SPECIFICATION HSpec
CONSTANTS
  p1 = p1
  p2 = p2
  a = a
  b = b
  ra = ra
  rb = rb
  PodNames = {p1}
  Selectors = {a, b}
  RouteNames = {ra, rb}
  RouteName <- OwnRouteName
  LabelOf <- ReusedName
  Phases = {"Pending", "Running", "Succeeded"}
  MaxDeltas = 2
  WatchBreaks = TRUE
  r1 = r1
  Requests = {}
  MaxFaults = 1
  MaxCrashes = 1
  None = None
  NoSelector = NoSelector
  Watcher = Watcher
  Syncer = Syncer
  RootRoute = RootRoute
  Fallback = Fallback
INVARIANTS
  RunningDriverHasRoute
  FinishedDriverHasNoRoute
  StoreFollowsCluster
PROPERTIES
  RestartKeepsRoutes
