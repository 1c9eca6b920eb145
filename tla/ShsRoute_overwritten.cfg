SPECIFICATION Spec
CONSTANTS
  s1 = s1
  s2 = s2
  Slices = {s1}
  MaxChanges = 1
  Appliers = {Watcher, Syncer}
  Watcher = Watcher
  Syncer = Syncer
  Backends = {Shs, Fallback}
  Shs = Shs
  Fallback = Fallback
  None = None
  MaxRetries = 3
  MaxFaults = 0
INVARIANTS
  RootRouteNotOverwritten
