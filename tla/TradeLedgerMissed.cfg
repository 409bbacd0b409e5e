SPECIFICATION Spec
CONSTANTS
  Tasks = {loop, event}
  Loop = loop
  OrderQty = 2
  PageSize = 2
  MaxPages = 2
  MaxOrders = 1
  MaxShares = 2
  MaxFaults = 0
PROPERTY Recorded
