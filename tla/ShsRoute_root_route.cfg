SPECIFICATION FairSpec
CONSTANTS
  s1 = s1
  s2 = s2
  Slices = {s1, s2}
  MaxChanges = 2
  Appliers = {Watcher, Syncer}
  Watcher = Watcher
  Syncer = Syncer
  Backends = {Shs, Fallback}
  Shs = Shs
  Fallback = Fallback
  None = None
  MaxRetries = 2
  MaxFaults = 1
INVARIANTS
  TypeOK
  UpFollowsEndpoints
  RootRouteFollowsShs
PROPERTIES
  ImplementsAvailability
  RootRouteSettles
