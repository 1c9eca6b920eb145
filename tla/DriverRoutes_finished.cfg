SPECIFICATION Spec
CONSTANTS
  p1 = p1
  p2 = p2
  a = a
  b = b
  ra = ra
  rb = rb
  PodNames = {p1}
  Selectors = {a}
  RouteNames = {ra}
  RouteName <- OwnRouteName
  LabelOf <- ReusedName
  Phases = {"Pending", "Running", "Succeeded"}
  MaxDeltas = 1
  WatchBreaks = FALSE
  r1 = r1
  Requests = {r1}
  MaxFaults = 0
  MaxCrashes = 0
  None = None
  NoSelector = NoSelector
  Watcher = Watcher
  Syncer = Syncer
  RootRoute = RootRoute
  Fallback = Fallback
INVARIANTS
  RouteDeletedWhenJobFinishes
