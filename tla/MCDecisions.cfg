SPECIFICATION DecisionsSpec
CONSTANTS
  Clients = {c1, c2}
  AutoStart = TRUE
  Rescans = {TRUE, FALSE}
  Days <- SomeDays
  Results <- SomeResults
  LogTime = 3
  MaxTrades = 2
  MaxFaults = 2
  Scalping = {"s1", "s2"}
  Quant = {"q1"}
  Limits = {1, 2}
  Symbols = {"s1", "s2"}
  StoreWindow = 2
  StoreTime = 3
  MaxStocks = 2
  MinVolume = 1
  LowerChange <- Lowest
  MinChange = 2
  MaxChange = 8
  Markets <- SomeMarkets
  Candidates <- SomeCandidates
  Holdings <- SomeHoldings
  Prices = {2, 3}
  Volumes = {0, 1}
  Books <- SomeBooks
  Histories <- SomeHistories
  Windows = {2, 3}
  NumStd = 1
  Cooldown = 2
  SignalTime = 4
  MaxChanges = 1
  Others = {s2, s3, s4}
  Quotes <- SomeQuotes
  Tested <- Both
  InitialBalance = 1000000
  StopLoss = 5
  TakeProfit = 10
  Overrides <- OwnLimits
  MaxPositionSize = 200
  MaxOpenPositions = 5
  MaxPositionRatio = 30
  Liquidate = TRUE
  Length = 4
SYMMETRY Alike
INVARIANTS
  DecisionsTypeOK
  StopIsFinal
  StartedTrades
  FifoAgrees
  
  StatsMatchLog
  ChoiceKept
  LimitsWereApplied
  FirstAnswerStays
  SelectionIsBest
  SaysWhatItSaw
  ResultAddsUp
CHECK_DEADLOCK FALSE
