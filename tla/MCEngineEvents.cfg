CONSTANTS
  MaxPrice = 5
  TopPrice = 4
  Prices <- MCPrices
  MaxTicks = 2
  BasePrice = 1
  MinQuantity = 1
  MaxQuantity = 2
  Capacity = 3
  MaxOrders = 3
  OrderIds <- MCOrderIds
  Terms <- MCTerms
  NONE = NONE
  STP_NONE = STP_NONE
  NewOrders <- EventOrders
  Modifications <- EventModifications
  StpModes = {"CancelNewest", "CancelOldest", "CancelBoth", "DecrementAndCancel"}
  ReuseIds = FALSE
  MAX_EVENTS_PER_CALL = 64
SPECIFICATION HSpec
INVARIANTS EventsAccountForOrders UnmodifiedGroupsDoNotTrade BestSeesTheWindow
