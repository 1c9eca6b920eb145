SPECIFICATION RSpec
CONSTANTS
  p1 = p1
  a = a
  ra = ra
  PodNames = {p1}
  Selectors = {a}
  RouteNames = {ra}
  RouteName <- OwnRouteName
  LabelOf <- OnlyA
  Phases = {"Pending", "Running", "Succeeded"}
  MaxDeltas = 2
  WatchBreaks = FALSE
  Requests = {}
  MaxFaults = 0
  MaxCrashes = 1
  None = None
  NoSelector = NoSelector
  Watcher = Watcher
  Syncer = Syncer
  RootRoute = RootRoute
  Fallback = Fallback
INVARIANTS
  ReplicasAgree
