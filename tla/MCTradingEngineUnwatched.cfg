SPECIFICATION Spec
CONSTANTS
  sx = sx
  sy = sy
  ma_cross = ma_cross
  momentum = momentum
  Symbols = {sx}
  Strategies = {ma_cross}
  MaxOpen = 1
  MaxSize = 1
  MaxBuys = 1
  MaxNotices = 1
  Controls = {}
PROPERTY AlwaysProtected
CHECK_DEADLOCK FALSE
