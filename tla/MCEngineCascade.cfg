CONSTANTS
  MaxPrice = 5
  TopPrice = 3
  Prices <- MCPrices
  MaxTicks = 2
  BasePrice = 1
  MinQuantity = 0
  MaxQuantity = 2
  Capacity = 3
  MaxOrders = 4
  OrderIds <- MCOrderIds
  Terms <- MCTerms
  NONE = NONE
  STP_NONE = STP_NONE
  NewOrders <- CascadeOrders
  Modifications <- NoModifications
  StpModes = {"CancelOldest", "CancelBoth", "DecrementAndCancel"}
  ReuseIds = FALSE
  MAX_EVENTS_PER_CALL = 64
SPECIFICATION Spec
INVARIANTS NeverCrossed StopsQuiescent
PROPERTIES CallReturns UsesTheBook
