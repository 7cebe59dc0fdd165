CONSTANTS
  alice = alice
  bob = bob
  b1 = b1
  b2 = b2
  Users = {alice, bob}
  Orders = {b1, b2}
  Owner <- OwnerDef
  Limit <- LimitDef
  Quantity <- QuantityDef
  Market = {b2}
  Prices = {1, 4}
  Deposits = {5}
  MaxDeposits = 1
  MaxReserveCalls <- ReserveCallsDef
  Releasers = {r1, r2}
  NoOrder = NoOrder
SPECIFICATION Spec
SYMMETRY ReleaseSymmetry
INVARIANTS
  BooksBalance
  HoldsCovered
  RefusedOnlyAfterRelease
  NoHoldLeak
CHECK_DEADLOCK FALSE
