SPECIFICATION Safe
CONSTANTS
  o1 = o1
  o2 = o2
  o3 = o3
  o4 = o4
  o5 = o5
  sx = sx
  sy = sy
  Orders = {o1, o2, o3, o4, o5}
  Symbols = {sx, sy}
  SymbolOf <- MCSymbolOf
  Faults = {"cancel", "disconnect"}
INVARIANTS
  TypeOK
  PendingAccounting
  InFlightIsPending
CHECK_DEADLOCK FALSE
