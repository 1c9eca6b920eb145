SPECIFICATION Spec
CONSTANTS
  u1 = u1
  u2 = u2
  Users = {u1}
  DayLength = 4
  Grace = 2
  MaxLag = 1
PROPERTIES
  ShutdownWindow
