CONSTANTS
  MaxPrice = 5
  TopPrice = 3
  Prices <- MCPrices
  MaxTicks = 2
  BasePrice = 1
  MinQuantity = 1
  MaxQuantity = 2
  Capacity = 3
  MaxOrders = 3
  OrderIds <- MCOrderIds
  Terms <- MCTerms
  NONE = NONE
  STP_NONE = STP_NONE
  NewOrders <- FokOrders
  Modifications <- NoModifications
  StpModes = {"CancelOldest"}
  ReuseIds = FALSE
  MAX_EVENTS_PER_CALL = 64
SPECIFICATION Spec
INVARIANTS FillOrKill
