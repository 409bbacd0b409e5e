SPECIFICATION Safe
CONSTANTS
  sx = sx
  sy = sy
  ma_cross = ma_cross
  momentum = momentum
  Symbols = {sx}
  Strategies = {ma_cross}
  MaxOpen = 1
  MaxSize = 1
  MaxBuys = 1
  MaxNotices = 1
  Controls = {"refuse", "barred", "late", "gap", "vi", "stagnate", "apifail", "liquidate", "cancel", "close"}
INVARIANT DecisionStands
PROPERTY LeavesBlocked
CHECK_DEADLOCK FALSE
