SPECIFICATION Safe
CONSTANTS
  sx = sx
  sy = sy
  ma_cross = ma_cross
  momentum = momentum
  Symbols = {sx, sy}
  Strategies = {ma_cross, momentum}
  MaxOpen = 2
  MaxSize = 1
  MaxBuys = 2
  MaxNotices = 1
  Controls = {"refuse"}
SYMMETRY MCSymmetry
INVARIANTS
  TypeOK
  InFlightIsPending
  DecisionStands
PROPERTIES
  OwnerKept
  LeavesBlocked
CHECK_DEADLOCK FALSE
