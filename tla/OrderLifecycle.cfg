CONSTANTS
  o1 = o1
  o2 = o2
  Orders = {o1, o2}
  k = k
  KeyChoices <- KeyChoicesDef
  NoKey = NoKey
  Quantity <- QuantityDef
  Side <- SideDef
  Type <- TypeDef
  MaxQuantity = 2
  Cancels = {c1, c2}
  NoOrder = NoOrder
  MaxFaults = 1
  MaxTrades = 2
CONSTRAINT FewEnough
SYMMETRY CancelSymmetry
SPECIFICATION Spec
INVARIANTS
  QuantitiesSound
  PlacementSound
  CancelWillBeAnswered
PROPERTIES
  ConsumersKeepTerminal
CHECK_DEADLOCK FALSE
