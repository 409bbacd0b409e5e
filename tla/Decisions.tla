------------------------------- MODULE Decisions -------------------------------
(***************************************************************************)
(* The parts around the engine that decide and record: what runs when      *)
(* (EngineLifecycle, whose names are as they are), the strategies and      *)
(* their switches, the scans, the stored candles, the log of positions,    *)
(* the profits of a day, a backtest.  They share nothing: a behaviour is   *)
(* one of the part that it begins with, and the others keep their initial  *)
(* states.                                                                 *)
(***************************************************************************)
EXTENDS EngineLifecycle, ProfitMatching, Integers, FiniteSets, FiniteSetsExt

CONSTANTS
  \* ProfitMatching
  Days,       \* days' trades of one symbol, sequences of [side, qty, price]
  \* PositionLog
  Results, LogTime, MaxTrades, MaxFaults,
  \* StrategySwitches
  Scalping, Quant, Limits,
  \* CandleStore
  Symbols, StoreWindow, StoreTime,
  \* Screening
  MaxStocks, MinVolume, LowerChange, MinChange, MaxChange, Markets, Candidates, Holdings,
  \* StrategySignals
  Prices, Volumes, Books, Histories, Windows, NumStd, Cooldown, SignalTime, MaxChanges,
  \* BacktestAccount
  Quotes, Tested, InitialBalance, StopLoss, TakeProfit, Overrides, MaxPositionSize, MaxOpenPositions,
  MaxPositionRatio, Liquidate, Length

ASSUME LogAssumption ==
  Results \subseteq Int /\ LogTime \in Nat \ {0} /\ MaxTrades \in Nat /\ MaxFaults \in Nat
\* a strategy is of one kind (_SCALPING_STRATEGIES, _QUANT_STRATEGIES)
ASSUME SwitchesAssumption == Scalping \cap Quant = {}
ASSUME CandlesAssumption == StoreWindow \in Nat \ {0} /\ StoreTime \in Nat \ {0}
\* executions are reported in shares and won
ASSUME DaysAssumption ==
  \A d \in Days : d \in Seq(ToSet(d)) /\ \A i \in DOMAIN d : d[i].qty \in Nat /\ d[i].price \in Nat
\* the universe of a quant scan has no symbol twice (one that the settings list twice
\* would take two places of the ranking: not modelled)
ASSUME ScanAssumption ==
  /\ MaxStocks \in Nat /\ \A hs \in Holdings : IsFiniteSet(hs)
  /\ \A m \in Markets : /\ m \in Seq(ToSet(m))
                        /\ \A i \in DOMAIN m : {m[i].volume, m[i].change, m[i].turnover} \subseteq Int
  /\ \A cs \in Candidates : /\ cs \in Seq(ToSet(cs)) /\ \A i \in DOMAIN cs : cs[i].score \in Int
                            /\ \A i, j \in DOMAIN cs : cs[i].symbol = cs[j].symbol => i = j
\* a window is a number of prices (over none, an average divides by zero: not modelled),
\* and what a prefill brings a sequence of bars
ASSUME SignalsAssumption ==
  /\ Windows \subseteq Nat \ {0} /\ Cooldown \in Nat /\ SignalTime \in Nat
  /\ Histories \subseteq Seq(UNION {ToSet(h) : h \in Histories})
  /\ \A h \in Histories : \A i \in DOMAIN h :
       h[i] = [price |-> h[i].price, volume |-> h[i].volume]
  /\ Books \subseteq Nat \X Nat
\* what a candle costs, and what the mock account has at first
ASSUME AccountAssumption ==
  /\ \A q \in Quotes : q.price \in Nat \ {0}
  /\ Tested \in Seq(ToSet(Tested))
  /\ InitialBalance \in Nat /\ MaxPositionSize \in Nat /\ MaxOpenPositions \in Nat \ {0}
  /\ MaxPositionRatio \in Nat /\ Length \in Nat

VARIABLES
  part,
  trades,  \* the trades of ProfitMatching
  log_clock, log_held, log_opened, log_row, log_log, log_stats, log_causes, log_logged, log_faults,
  sw_file, sw_settings, sw_enabled, sw_limit, sw_started, sw_chosen, sw_applied, sw_hidden,
  sw_filed,
  candles_table, candles_now, candles_bars, candles_answers,
  scan_market, scan_candidates, scan_held,
  sig_kind, sig_live, sig_enabled, sig_window, sig_now, sig_capacity, sig_buffer, sig_below,
  sig_book, sig_ticks, sig_last, sig_tape, sig_changes,
  acc_balance, acc_dailyPnl, acc_fees, acc_positions, acc_history, acc_running, acc_cached,
  acc_expired, acc_barred, acc_hour, acc_done, acc_stats, acc_turn, acc_candle, acc_fed, acc_result

lifecycleVars == vars
logVars == <<log_clock, log_held, log_opened, log_row, log_log, log_stats, log_causes,
             log_logged, log_faults>>
switchesVars == <<sw_file, sw_settings, sw_enabled, sw_limit, sw_started, sw_chosen, sw_applied,
                  sw_hidden, sw_filed>>
candlesVars == <<candles_table, candles_now, candles_bars, candles_answers>>
scanVars == <<scan_market, scan_candidates, scan_held>>
signalsVars == <<sig_kind, sig_live, sig_enabled, sig_window, sig_now, sig_capacity, sig_buffer,
                 sig_below, sig_book, sig_ticks, sig_last, sig_tape, sig_changes>>
accountVars == <<acc_balance, acc_dailyPnl, acc_fees, acc_positions, acc_history, acc_running,
                 acc_cached, acc_expired, acc_barred, acc_hour, acc_done, acc_stats, acc_turn,
                 acc_candle, acc_fed, acc_result>>

-----------------------------------------------------------------------------
Log == INSTANCE PositionLog WITH
  MaxTime <- LogTime,
  clock <- log_clock, held <- log_held, opened <- log_opened, row <- log_row, log <- log_log,
  stats <- log_stats, causes <- log_causes, logged <- log_logged, faults <- log_faults

Switches == INSTANCE StrategySwitches WITH
  file <- sw_file, settings <- sw_settings, enabled <- sw_enabled, limit <- sw_limit,
  started <- sw_started, chosen <- sw_chosen, applied <- sw_applied, hidden <- sw_hidden,
  filed <- sw_filed

Candles == INSTANCE CandleStore WITH
  Window <- StoreWindow, MaxTime <- StoreTime,
  table <- candles_table, now <- candles_now, bars <- candles_bars, answers <- candles_answers

Scanner == INSTANCE Screening WITH
  market <- scan_market, candidates <- scan_candidates, held <- scan_held

Signals == INSTANCE StrategySignals WITH
  MaxTime <- SignalTime,
  kind <- sig_kind, live <- sig_live, enabled <- sig_enabled, window <- sig_window,
  now <- sig_now, capacity <- sig_capacity, buffer <- sig_buffer, below <- sig_below,
  book <- sig_book, ticks <- sig_ticks, last <- sig_last, tape <- sig_tape,
  changes <- sig_changes

Account == INSTANCE BacktestAccount WITH
  Strategies <- Tested,
  balance <- acc_balance, dailyPnl <- acc_dailyPnl, fees <- acc_fees,
  positions <- acc_positions, history <- acc_history, running <- acc_running,
  cached <- acc_cached, expired <- acc_expired, barred <- acc_barred, hour <- acc_hour,
  done <- acc_done, stats <- acc_stats, turn <- acc_turn, candle <- acc_candle, fed <- acc_fed,
  result <- acc_result

-----------------------------------------------------------------------------
DecisionsInit ==
  /\ part \in {"lifecycle", "fifo", "log", "switches", "candles", "scan", "signals", "account"}
  /\ Init /\ Log!Init /\ Account!Init
  /\ IF part = "fifo" THEN trades \in Days ELSE trades = <<>>
  /\ IF part = "switches" THEN Switches!Init
     ELSE Switches!InitWith([scalping |-> {}, quant |-> {}, limit |-> Min(Limits)])
  /\ IF part = "candles" THEN Candles!Init ELSE Candles!InitWith("daily")
  /\ IF part = "scan" THEN Scanner!Init ELSE Scanner!InitWith(<<>>, <<>>, {})
  /\ IF part = "signals" THEN Signals!Init ELSE Signals!InitWith("rsi", TRUE, Min(Windows), 0)

\* the parts that a step of p leaves alone
Rest(p) ==
  /\ UNCHANGED <<part, trades, scanVars>>
  /\ IF p = "lifecycle" THEN TRUE ELSE UNCHANGED lifecycleVars
  /\ IF p = "log" THEN TRUE ELSE UNCHANGED logVars
  /\ IF p = "switches" THEN TRUE ELSE UNCHANGED switchesVars
  /\ IF p = "candles" THEN TRUE ELSE UNCHANGED candlesVars
  /\ IF p = "signals" THEN TRUE ELSE UNCHANGED signalsVars
  /\ IF p = "account" THEN TRUE ELSE UNCHANGED accountVars

DecisionsNext ==
  \/ part = "lifecycle" /\ Next /\ Rest("lifecycle")
  \/ part = "log" /\ Log!Next /\ Rest("log")
  \/ part = "switches" /\ Switches!Next /\ Rest("switches")
  \/ part = "candles" /\ Candles!Next /\ Rest("candles")
  \/ part = "signals" /\ Signals!Next /\ Rest("signals")
  \/ part = "account" /\ Account!Next /\ Rest("account")

DecisionsVars == <<part, trades, lifecycleVars, logVars, switchesVars, candlesVars, scanVars,
                   signalsVars, accountVars>>

DecisionsSpec == DecisionsInit /\ [][DecisionsNext]_DecisionsVars

-----------------------------------------------------------------------------
\* Every part keeps its types.
DecisionsTypeOK ==
  /\ TypeOK
  /\ CASE part = "log" -> Log!TypeOK
       [] part = "switches" -> Switches!TypeOK
       [] part = "candles" -> Candles!TypeOK
       [] part = "signals" -> Signals!TypeOK
       [] part = "account" -> Account!TypeOK
       [] OTHER -> TRUE

(***************************************************************************)
(* The loop of _recalc_pnl (repository.py:160-188) gives every sell of a   *)
(* day the profit of the shares it sold, first in, first out, also when    *)
(* sells and buys are cut across each other; and none to a sell that the   *)
(* day's buys do not cover.  It is that profit to the won if the mean of   *)
(* what the shares cost is a binary fraction, or else at most one won      *)
(* nearer to zero: errors do not add up over the day's sells.              *)
(***************************************************************************)
FifoAgrees == part = "fifo" => PaidByShare(trades)

\* A position is thought too old only for a known reason (PositionLog,
\* repository.py:250-257).
AgeHasCause == part = "log" => Log!AgeHasCause

\* A strategy's statistics are what its log says (PositionLog, performance.py:41-96).
StatsMatchLog == part = "log" => Log!StatsMatchLog

\* The lists of strategies are what was chosen by hand (StrategySwitches,
\* routes.py:683-686).
ChoiceKept == part = "switches" => Switches!ChoiceKept

\* The limits in force were given to the risk manager (StrategySwitches,
\* routes.py:849-853).
LimitsWereApplied == part = "switches" => Switches!LimitsWereApplied

\* A stored bar says what its first answer said (CandleStore, ohlcv.py:84-97).
FirstAnswerStays == part = "candles" => Candles!FirstAnswerStays

\* A scan keeps what is held and the best others (Screening, screener.py:83-92).
SelectionIsBest == part = "scan" => Scanner!SelectionIsBest

\* A strategy says what its condition says of what it saw (StrategySignals,
\* base.py:39-55).
SaysWhatItSaw == part = "signals" => Signals!SaysWhatItSaw

\* The result of a backtest adds up (BacktestAccount, runner.py:103-149).
ResultAddsUp == part = "account" => Account!ResultAddsUp
=============================================================================
