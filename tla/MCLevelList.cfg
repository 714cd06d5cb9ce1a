CONSTANTS
  Capacity = 3
  FREE_LIST_END = 99
  Orders <- LinkedOrders
  UNINIT = UNINIT
  MaxGeneration = 2
  Ids = {o1, o2, o3, o4}
  Levels = {bid, ask}
SPECIFICATION ListSpec
INVARIANTS Inv LevelsAreLists IndexFindsEveryOrder
PROPERTIES ImplementsMap ImplementsQueues
