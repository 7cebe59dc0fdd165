CONSTANTS
  e1 = e1
  e2 = e2
  e3 = e3
  other = other
  Me = Me
  NoUser = NoUser
  NoAnswer = NoAnswer
  Events = {e1, e2, e3}
  EventOf <- EventDef
  PageSize = 1
  BellSize = 2
  MaxClicks = 3
  MaxPolls = 2
  MaxLoads = 2
  MaxFaults = 1
SPECIFICATION AlertsSpec
PROPERTIES
  BadgeConverges
INVARIANTS
  ListExact
CHECK_DEADLOCK FALSE
