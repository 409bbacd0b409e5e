SPECIFICATION ServicesSpec
CONSTANTS
  Orders = {"o1", "o2", "o3", "o4", "o5"}
  Symbols = {"sx", "sy"}
  SymbolOf <- OrderSymbols
  Faults = {}
  LedgerTasks = {"loop", "event"}
  Loop = "loop"
  OrderQty = 2
  PageSize = 1
  MaxPages = 2
  MaxOrders = 3
  MaxShares = 2
  MaxFaults = 1
  Requests = {"r1", "r2"}
  Pages = {"scalping", "quant"}
  MaxCombos = 2
  Clients = {"c1", "c2"}
  MaxEvents = 2
  Stocks = {"s1", "s2"}
  Scalpers = {"scalper"}
  Quants = {"quant"}
  MaxStocks = 1
  MaxOpen = 1
INVARIANTS
  ServicesTypeOK
  SkipIsSound
  FlagMeansJob
  DrainedIsCurrent
PROPERTIES
  ImplementsOutstandingOrders
  NeverBlockedForGood
  BackOnlyByOverlap
  LongListsRecorded
  Released
  StopEndsStreams
  HeldSinceStays
  HeldIsWatchedAgain
CHECK_DEADLOCK FALSE
