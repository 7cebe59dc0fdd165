CONSTANTS
  x1 = x1
  x2 = x2
  x3 = x3
  Trades = {x1, x2, x3}
  At <- AtDef
  Price <- PriceDef
  Quantity <- QuantityDef
  Seed = 5
  Widths = {1, 2}
  MaxFill = 2
  Day = 4
  Limits = {1, 3, 6}
  Tasks = {t1, t2}
  MaxAttempts = 2
  MaxFaults = 2
  NoTask = NoTask
  NoMsg = NoMsg
  None = None
SPECIFICATION MarketSpec
SYMMETRY TasksAlike
INVARIANTS
  VolumeCountedOnce
CHECK_DEADLOCK FALSE
