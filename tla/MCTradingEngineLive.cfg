SPECIFICATION Spec
CONSTANTS
  sx = sx
  sy = sy
  ma_cross = ma_cross
  momentum = momentum
  Symbols = {sx}
  Strategies = {ma_cross}
  MaxOpen = 1
  MaxSize = 2
  MaxBuys = 1
  MaxNotices = 1
  Controls = {"refuse", "late", "gap", "stagnate", "apifail"}
PROPERTIES
  MemoryConverges
  StopLossServed
CHECK_DEADLOCK FALSE
