---------------------------- MODULE BacktestAccount ----------------------------
(***************************************************************************)
(* One backtest (backtest/runner.py, backtest/quant_runner.py): a          *)
(* TradingEngine without event bus or repository, on a MockBroker, is fed  *)
(* the stored candles one after the other, and the result is summed up     *)
(* from the broker's balance, the engine's positions and the order         *)
(* history.                                                                *)
(*                                                                         *)
(* Nothing else runs on this engine, but its cooldowns, its balance cache  *)
(* and its market hours follow the clock on the wall, not the candles':    *)
(* any of them may run out between two of its steps.  What a strategy says *)
(* of a candle is left open (StrategySignals).                             *)
(*                                                                         *)
(* Money is in won, as the code's int() leaves it.                         *)
(***************************************************************************)
EXTENDS Integers, Sequences, FiniteSets, SequencesExt, FiniteSetsExt

CONSTANTS
  Quotes,            \* candles there are: records [symbol, price]
  Strategies,        \* enabled strategies, in the registry's order: a sequence
  InitialBalance,
  StopLoss,          \* per mille
  TakeProfit,        \* per mille
  Overrides,         \* of the strategies that have limits of their own: [stop, profit]
  MaxPositionSize, MaxOpenPositions,
  MaxPositionRatio,  \* per cent
  Liquidate,         \* trading.market_close_liquidate
  Length             \* number of stored candles of the period

VARIABLES
  balance, dailyPnl, fees,  \* MockBroker: _balance, _daily_pnl, _total_fees
  positions,  \* PositionManager: by symbol, [quantity, avg, current, strategy]
  history,    \* OrderManager._history: [symbol, side, price, quantity, filled]
  running,    \* TradingEngine._running
  cached,     \* _cached_balance
  expired,    \* is the cache older than its ten seconds?
  barred,     \* symbols in _closed_symbols or _rejected_symbols, cooling down
  hour,       \* of the day in Seoul: "open", "late" from 15:15, "closing" from 15:18
  done,       \* _market_close_done
  stats,      \* PerformanceTracker: by strategy, the trades recorded
  turn,       \* the strategy to hear of the candle; 0 between candles
  candle,     \* the candle being fed
  fed,        \* candles fed
  result      \* of run_backtest, <<>> before

vars == <<balance, dailyPnl, fees, positions, history, running, cached, expired, barred, hour,
          done, stats, turn, candle, fed, result>>

account == <<balance, dailyPnl, fees, history>>

Min2(a, b) == IF a <= b THEN a ELSE b
Held == DOMAIN positions
Without(symbol) == [s \in Held \ {symbol} |-> positions[s]]

Init ==
  /\ balance = InitialBalance /\ dailyPnl = 0 /\ fees = 0
  /\ positions = <<>> /\ history = <<>>
  /\ running = TRUE
  /\ cached = 0 /\ expired = TRUE /\ barred = {}
  /\ hour = "open" /\ done = FALSE
  /\ stats = [s \in ToSet(Strategies) |-> 0]
  /\ turn = 0 /\ candle = (CHOOSE q \in Quotes : TRUE) /\ fed = 0
  /\ result = <<>>

-----------------------------------------------------------------------------
Commission(cost) == (cost * 147) \div 1000000
SellFees(cost) == Commission(cost) + (cost * 18) \div 10000

\* mutant: the commission is counted, but not paid
PayUnpaid(order, cost) ==
  /\ balance' = IF order.side = "buy" THEN balance - cost ELSE balance + cost - SellFees(cost)
  /\ fees' = fees + IF order.side = "buy" THEN Commission(cost) ELSE SellFees(cost)

\* MockBroker.place_order, of an order it fills
Pay(order, cost) ==
  /\ balance' = IF order.side = "buy" THEN balance - (cost + Commission(cost))
                ELSE balance + cost - SellFees(cost)
  /\ fees' = fees + IF order.side = "buy" THEN Commission(cost) ELSE SellFees(cost)

Filled(order) == order.side = "sell" \/ order.price * order.quantity <= balance

Recorded(order, filled) ==
  [symbol |-> order.symbol, side |-> order.side, price |-> order.price,
   quantity |-> order.quantity, filled |-> filled]

\* OrderManager.submit; the mock rejects only what costs more than there is
Submit(order) ==
  LET cost == order.price * order.quantity
  IN /\ history' = Append(history, Recorded(order, Filled(order)))
     /\ IF ~Filled(order) THEN UNCHANGED <<balance, dailyPnl, fees>>
        ELSE /\ Pay(order, cost)
             /\ dailyPnl' = IF order.side = "buy" THEN dailyPnl
                            ELSE dailyPnl - SellFees(cost)
                                 + (order.price - positions[order.symbol].avg) * order.quantity

SellAll(symbol) ==
  [symbol |-> symbol, side |-> "sell", price |-> positions[symbol].current,
   quantity |-> positions[symbol].quantity]

-----------------------------------------------------------------------------
\* _get_strategy_risk, and the risk manager's own limits
StrategyRisk(strategy) ==
  IF strategy \in DOMAIN Overrides THEN Overrides[strategy]
  ELSE [stop |-> StopLoss, profit |-> TakeProfit]

\* check_stop_loss, check_take_profit; with stagnation_hours 0 there is no third
Due(p) ==
  LET risk == StrategyRisk(p.strategy)
  IN \/ 1000 * (p.avg - p.current) >= risk.stop * p.avg
     \/ 1000 * (p.current - p.avg) >= risk.profit * p.avg

\* _force_close: it bars the symbol, and tells the tracker
ForceClose(symbol, marked) ==
  /\ history' = Append(history, Recorded([SellAll(symbol) EXCEPT !.price = marked.current], TRUE))
  /\ Pay([side |-> "sell"], marked.current * marked.quantity)
  /\ dailyPnl' = dailyPnl - SellFees(marked.current * marked.quantity)
                 + (marked.current - marked.avg) * marked.quantity
  /\ positions' = Without(symbol)
  /\ barred' = barred \cup {symbol}
  /\ stats' = [stats EXCEPT ![marked.strategy] = @ + 1]

\* on_tick, up to the strategies: the new price and the risk of this symbol
Candle(q) ==
  /\ turn = 0 /\ result = <<>> /\ fed < Length
  /\ candle' = q /\ fed' = fed + 1
  /\ IF ~running
     THEN UNCHANGED <<account, positions, barred, stats, turn>>
     ELSE /\ turn' = -1
          /\ IF q.symbol \notin Held
             THEN UNCHANGED <<account, positions, barred, stats>>
             ELSE LET marked == [positions[q.symbol] EXCEPT !.current = q.price]
                  IN IF Due(marked) THEN ForceClose(q.symbol, marked)
                     ELSE /\ positions' = [positions EXCEPT ![q.symbol] = marked]
                          /\ UNCHANGED <<account, barred, stats>>
  /\ UNCHANGED <<running, cached, expired, hour, done, result>>

\* _check_market_close sells the positions one by one, stops, and is then done
Liquidating == hour = "closing" /\ ~done /\ Liquidate /\ Held # {}

LiquidateOne(s) ==
  /\ turn = -1 /\ Liquidating /\ s \in Held
  /\ ForceClose(s, positions[s])
  /\ running' = (Held # {s}) /\ done' = (Held = {s})
  /\ turn' = IF Held = {s} THEN 0 ELSE -1
  /\ UNCHANGED <<cached, expired, hour, candle, fed, result>>

CheckMarketClose ==
  /\ turn = -1 /\ ~Liquidating
  /\ done' = (hour = "closing" /\ (done \/ ~Liquidate))
  /\ turn' = IF Strategies = <<>> THEN 0 ELSE 1
  /\ UNCHANGED <<account, positions, running, cached, expired, barred, hour, stats, candle, fed,
                 result>>

-----------------------------------------------------------------------------
Mover == Strategies[turn]
Heard == turn' = IF turn = Len(Strategies) THEN 0 ELSE turn + 1

\* get_cached_balance
Balance == IF expired THEN balance ELSE cached
Fetch == cached' = Balance /\ expired' = FALSE

WorthOf(s) == positions[s].current * positions[s].quantity
Worth == MapThenSumSet(WorthOf, Held)

\* get_max_position_size
MaxSize(funds, price) ==
  LET affordable == funds \div price
      slot == (funds + Worth) \div (MaxOpenPositions * price)
      cap == (MaxPositionRatio * funds) \div (100 * price)
  IN Min2(affordable, Min2(slot, Min2(cap, MaxPositionSize)))

\* the tests that end _process_signal early, before it asks for the balance
MayBuy(s) ==
  /\ s \notin barred /\ hour = "open" /\ s \notin Held
  /\ Cardinality(Held) < MaxOpenPositions

\* validate_order, asked about a BUY, has no objection: the size is at most
\* MaxPositionSize, and costs at most the balance it was computed from
Buy ==
  LET s == candle.symbol
      size == MaxSize(Balance, candle.price)
      order == [symbol |-> s, side |-> "buy", price |-> candle.price, quantity |-> size]
  IN /\ turn > 0 /\ running /\ MayBuy(s)
     /\ Fetch /\ Heard
     /\ IF size <= 0 THEN UNCHANGED <<account, positions, barred>>
        ELSE /\ Submit(order)
             /\ IF Filled(order)
                THEN /\ positions' = [p \in Held \cup {s} |->
                          IF p = s THEN [quantity |-> size, avg |-> candle.price,
                                         current |-> candle.price, strategy |-> Mover]
                          ELSE positions[p]]
                     /\ UNCHANGED barred
                ELSE barred' = barred \cup {s} /\ UNCHANGED positions
     /\ UNCHANGED <<running, hour, done, stats, candle, fed, result>>

\* without an event bus a signal's sale neither bars the symbol nor tells the tracker
Sell ==
  LET s == candle.symbol
  IN /\ turn > 0 /\ running
     /\ Fetch /\ Heard
     /\ IF /\ s \in Held /\ positions[s].strategy = Mover
           /\ 200 * (positions[s].current - positions[s].avg) >= positions[s].avg
        THEN Submit(SellAll(s)) /\ positions' = Without(s)
        ELSE UNCHANGED <<account, positions>>
     /\ UNCHANGED <<running, barred, hour, done, stats, candle, fed, result>>

\* no signal, one below _MIN_CONFIDENCE, or a BUY that MayBuy stops
Nothing ==
  /\ turn > 0 /\ Heard
  /\ UNCHANGED <<account, positions, running, cached, expired, barred, hour, done, stats, candle,
                 fed, result>>

Later(h) == CASE h = "open" -> "late" [] h = "late" -> "closing" [] OTHER -> "open"

\* the clock on the wall, between any two steps but those of one liquidation
WallClock ==
  /\ result = <<>> /\ turn # -1
  /\ expired' = TRUE
  /\ hour' \in {hour, Later(hour)} /\ barred' \in SUBSET barred
  /\ UNCHANGED <<account, positions, running, cached, done, stats, turn, candle, fed, result>>

-----------------------------------------------------------------------------
Of(side) == {i \in DOMAIN history : history[i].side = side /\ history[i].filled}

\* the last filled buy of the symbol that was filled earlier
MatchingBuys(i) == {j \in Of("buy") : j < i /\ history[j].symbol = history[i].symbol}
Wins == {i \in Of("sell") : MatchingBuys(i) # {}
                            /\ history[i].price > history[Max(MatchingBuys(i))].price}

Report ==
  /\ turn = 0 /\ result = <<>> /\ fed = Length
  /\ result' = <<[pnl |-> balance + Worth - InitialBalance,
                  totalTrades |-> Len(history),
                  sellCount |-> Cardinality(Of("sell")),
                  wins |-> Cardinality(Wins),
                  losses |-> Cardinality({i \in Of("sell") : MatchingBuys(i) # {}} \ Wins),
                  totalFees |-> fees,
                  openPositions |-> Cardinality(Held)]>>
  /\ UNCHANGED <<account, positions, running, cached, expired, barred, hour, done, stats, turn,
                 candle, fed>>

Next ==
  \/ \E q \in Quotes : Candle(q)
  \/ \E s \in Held : LiquidateOne(s)
  \/ CheckMarketClose \/ Buy \/ Sell \/ Nothing \/ WallClock \/ Report

Spec == Init /\ [][Next]_vars

-----------------------------------------------------------------------------
TypeOK ==
  /\ {balance, dailyPnl, fees, cached} \subseteq Int
  /\ Held \subseteq {q.symbol : q \in Quotes}
  /\ \A s \in Held : positions[s].quantity \in 1 .. MaxPositionSize
  /\ running \in BOOLEAN /\ expired \in BOOLEAN /\ done \in BOOLEAN
  /\ turn \in -1 .. Len(Strategies) /\ fed \in 0 .. Length

(***************************************************************************)
(* The n-th sale of a symbol sells what its n-th purchase bought.          *)
(***************************************************************************)
Trades(side, symbol, last) == {i \in Of(side) : i <= last /\ history[i].symbol = symbol}
Bought(i) ==
  CHOOSE j \in Of("buy") :
    /\ history[j].symbol = history[i].symbol
    /\ Cardinality(Trades("buy", history[i].symbol, j))
         = Cardinality(Trades("sell", history[i].symbol, i))
Gain(i) == (history[i].price - history[Bought(i)].price) * history[i].quantity
Unrealised(s) == (positions[s].current - positions[s].avg) * positions[s].quantity

(***************************************************************************)
(* The result adds up, whatever the wall clock cut short: the profit it    *)
(* states is what the sales gained and the open positions would, less all  *)
(* fees; every sale is a win or a loss, and a win when it gained; what was *)
(* rejected moved no money; at most the commissions overdraw the account   *)
(* (runner.py:103-149, mock.py:38-68).  The tracker's statistics, which    *)
(* the quant result shows beside it, count only the sales that were not a  *)
(* strategy's own (engine.py:375-405).                                     *)
(***************************************************************************)
ResultAddsUp ==
  result # <<>> =>
    LET sales == Of("sell")
        total(S, f(_)) == MapThenSumSet(f, S)
        recorded == MapThenSumSet(LAMBDA s : stats[s], DOMAIN stats)
    IN /\ result[1].pnl = total(sales, Gain) + total(Held, Unrealised) - result[1].totalFees
       /\ result[1].wins = Cardinality({i \in sales : Gain(i) > 0})
       /\ result[1].wins + result[1].losses = result[1].sellCount
       /\ result[1].sellCount + result[1].openPositions = Cardinality(Of("buy"))
       /\ balance >= -fees
       /\ recorded <= result[1].sellCount
=============================================================================
