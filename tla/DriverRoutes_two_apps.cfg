SPECIFICATION HSpec
CONSTANTS
  p1 = p1
  p2 = p2
  a = a
  b = b
  ra = ra
  rb = rb
  PodNames = {p1, p2}
  Selectors = {a, b}
  RouteNames = {ra, rb}
  RouteName <- OwnRouteName
  LabelOf <- OwnNameOrNone
  Phases = {"Pending", "Running", "Succeeded"}
  MaxDeltas = 1
  WatchBreaks = FALSE
  r1 = r1
  Requests = {}
  MaxFaults = 0
  MaxCrashes = 0
  None = None
  NoSelector = NoSelector
  Watcher = Watcher
  Syncer = Syncer
  RootRoute = RootRoute
  Fallback = Fallback
INVARIANTS
  HistoryTypeOK
  RunningDriverHasRoute
  FinishedDriverHasNoRoute
PROPERTIES
  RestartKeepsRoutes
  ImplementsRouteBoard
