SPECIFICATION FairSpec
CONSTANTS
  u1 = u1
  u2 = u2
  Users = {u1, u2}
  DayLength = 6
  Grace = 2
  MaxLag = 2
INVARIANTS
  TypeOK
  MissesNoStop
PROPERTIES
  StopsInWindow
  StopsOncePerSchedule
  WaitingUserArrives
