SPECIFICATION Spec
INVARIANTS
  BulkheadExact
  FailuresOpenCircuit
  OutageContained
  QuotaExact
SYMMETRY Alike
CHECK_DEADLOCK FALSE
CONSTANTS
  order1 = order1
  order2 = order2
  order3 = order3
  look = look
  anon = anon
  user1 = user1
  ip = ip
  orders = orders
  market = market
  NoRoute = NoRoute
  Reqs = {order1, order2, order3, look, anon}
  Upstreams = {orders, market}
  RequestOf <- RequestDef
  DefaultLimit = 1
  OrderLimit = 2
  BotLimit = 3
  MaxInflight = 1
  HardThreshold = 1
  SoftThreshold = 2
  OpenTicks = 1
  MinuteTicks = 2
  MaxTime = 2
  MaxRedisFaults = 1
