CONSTANTS
  alice = alice
  bob = bob
  s1 = s1
  s2 = s2
  Users = {alice, bob}
  Orders = {s1, s2}
  Owner <- OwnerDef
  Quantity <- EqualQuantityDef
  Shares <- SharesDef
  Requests = {h1}
  MaxReserveCalls = 2
  MaxFaults = 0
  NoOrder = NoOrder
SPECIFICATION Spec
INVARIANTS
  NoNakedShort
CHECK_DEADLOCK FALSE
