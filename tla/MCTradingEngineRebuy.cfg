SPECIFICATION Safe
CONSTANTS
  sx = sx
  sy = sy
  ma_cross = ma_cross
  momentum = momentum
  Symbols = {sx}
  Strategies = {ma_cross}
  MaxOpen = 1
  MaxSize = 1
  MaxBuys = 2
  MaxNotices = 1
  Controls = {}
INVARIANT HoldingLimit
CHECK_DEADLOCK FALSE
