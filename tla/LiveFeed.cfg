CONSTANTS
  v1 = v1
  v2 = v2
  p1 = p1
  a = a
  b = b
  NoView = NoView
  Views = {v1, v2, p1}
  Charts = {v1, v2}
  After <- AfterDef
  Client <- ClientDef
  MaxPerClient = 1
  MaxTotal = 2
  Conns = {1, 2}
  MaxMounts = 2
  MaxPrice = 2
  MaxFaults = 1
SPECIFICATION FeedSpec
PROPERTIES
  EverySubscriptionConnects
  PricesFlow
INVARIANTS
  SocketsAccounted
  DrawnIsOfTheView
CHECK_DEADLOCK FALSE
