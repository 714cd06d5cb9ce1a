CONSTANTS
  MaxPrice = 5
  Prices <- MCPrices
  MaxTicks = 2
  BasePrice = 1
  MinQuantity = 1
  MaxQuantity = 2
  Capacity = 2
  OrderIds = {o1, o2, o3}
  Terms <- MCTerms
  NONE = NONE
  TopPrice = 3
  MaxExcess = 2
SYMMETRY Symmetry
SPECIFICATION MCSpec
INVARIANTS BookInv LevelTotals AvailableCoversBook NoPanic
PROPERTIES RecenterKeepsTheBook NobodyOvertakes
