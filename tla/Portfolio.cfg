CONSTANTS
  alice = alice
  bob = bob
  s1 = s1
  s2 = s2
  Users = {alice, bob}
  Orders = {s1, s2}
  Owner <- OwnerDef
  Quantity <- QuantityDef
  Shares <- SharesDef
  Requests = {h1, h2}
  MaxReserveCalls = 2
  MaxFaults = 1
  NoOrder = NoOrder
SPECIFICATION Spec
SYMMETRY RequestsAlike
INVARIANTS
  BooksBalance
  SalesSettle
  NoShareLeak
CHECK_DEADLOCK FALSE
