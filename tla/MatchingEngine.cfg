CONSTANTS
  b1 = b1
  b2 = b2
  m1 = m1
  s1 = s1
  alice = alice
  bob = bob
  carol = carol
  Orders = {b1, b2, m1, s1}
  Owner <- OwnerDef
  Side <- SideDef
  Type <- TypeDef
  Quantity <- QuantityDef
  Price <- PriceDef
  MaxQuantity = 2
  SeenMax = 4
  MaxPlaced = 3
  MaxCancels = 1
  MaxFaults = 1
  NoOrder = NoOrder
  NoMessage = NoMessage
SPECIFICATION FairSpec
INVARIANTS
  BookSound
PROPERTIES
  PriceTimePriority
  RequestsAnswered
  ImplementsContract
CHECK_DEADLOCK FALSE
