# Scalpy: TLA+ models and proofs

Scalpy is an automatic trader for the Korean stock market: strategies turn
ticks of a WebSocket stream into signals, the trading engine turns signals into
orders at Korea Investment & Securities (KIS), and a risk manager closes
positions. Everything runs in one asyncio event loop, so the hard questions are
about what happens *between two awaits*: what was checked before a wait and used
after it, in which order waiting tasks are answered, what a cancelled task
leaves behind, and how three sources of truth about a position (the answer to an
order, the fill notice, the account balance) are merged.

Source paths below are relative to `src/src/scalpy/`.

## 1. Inventory

| Component | State | Operations | Talks to |
|---|---|---|---|
| `trading/order.py` OrderManager | deque `_pending`, `_history` | `submit`, `has_pending_for` | awaits the broker |
| `broker/kis.py` KISBroker | `_connected`, `_api_lock`, `_last_api_call`, token, `_last_ccld_*` | `place_order`, `get_balance`, `sync_positions`, `cancel_all_orders`, `get_trade_history`, `connect`, `disconnect` | KIS over REST; writes the positions |
| `trading/position.py` PositionManager | `_positions` | open, add, reduce, close, remove, `update_price` | written by engine, broker and stream handler |
| `trading/engine.py` TradingEngine | `_running`, `_untradeable`, `_rejected_symbols`, `_closed_symbols`, balance cache, risk and sync tasks, `_market_close_done` | `on_tick`, `on_orderbook`, `on_fill_notice`, `on_vi_event`, `_process_signal`, `_check_risk`, `_force_close`, `_check_market_close`, `sync_positions`, start and stop | all of the above |
| `trading/risk.py` RiskManager | limits only | stop loss, take profit, stagnation, sizing, `validate_order` | called by the engine |
| `data/stream.py` MarketDataStream | `_running`, `_stopping`, `_ws`, `_subscribed`, receive task | `start`, `stop`, `update_subscriptions`, reconnect, dispatch | calls the engine's handlers one message at a time |
| `main.py`, `dashboard/routes.py` lifecycle | `_trading_started`, background tasks | start, stop, auto start, rescan loops, liquidate, cancel all | engine, stream, screener |
| `main.py`, `dashboard/routes.py` rescans | `_active_symbols`, subscriptions | `_screening_loop`, the quant rescan loops, the rescan request | screeners, stream, engine |
| `dashboard/routes.py` settings and switches | settings in memory, flags of strategies, limits, `settings.toml` | `_apply_mode`, toggle, `update_settings`, `persist_settings` | registry, risk manager |
| `data/repository.py` executions | `trades` table; `_last_ccld_*` of the broker | `_fetch_daily_ccld`, `sync_trades`, fees, FIFO profit | trade sync loop, `order.filled` handlers |
| `data/repository.py`, `trading/performance.py` positions and trades | `positions`, `strategy_trades`, statistics | open and close times, `record_trade`, loading | engine, dashboard |
| `data/ohlcv.py`, `backtest/fetcher.py` candles | two tables of bars | `bulk_fetch`, `fetch_and_store`, `get_candles` | screeners, backtests, prefill |
| `strategy/*` | price windows, cooldowns | `on_tick`, `on_orderbook`, `prefill`, `configure`, `reset` | called by the engine |
| `screening/*` | last scan | filter and rank candidates | rescan loops |
| `events/bus.py`, `dashboard/state.py`, `dashboard/sse.py`, `notification/telegram.py` | handler table, dashboard snapshot, client queues | `emit`, handlers, `stream`, `stop` | fed by engine and routes |
| `backtest/routes.py`, `backtest/quant_routes.py` | `_running`, `_progress` of each page | fetch, run, optimise | own runner |
| `backtest/runner.py`, `quant_runner.py`, `broker/mock.py` | simulated account, engine of its own | `run_backtest`, `place_order` | a TradingEngine without event bus |
| `data/simulator.py` | last price | random ticks | engine without API keys |
| `core/*`, `config.py` | - | data classes, settings | all |

Which behaviours are hard, and what makes each component correct:

* **Orders.** `submit` appends its order, awaits the broker and pops the *left
  end*. Correct if what is popped never hides an order in flight from
  `has_pending_for`, and if entries disappear in the end.
* **Engine.** Four tasks (receive, risk, sync, dashboard) queue on one API lock.
  A decision must still stand when its order is executed; a position keeps the
  strategy that opened it; a symbol that leaves the memory must not be bought
  again at once; the memory comes back to the account; a stop loss is served.
* **Stream.** A reconnect, a stop and a subscription update may interleave; the
  socket must end up subscribed to what `_subscribed` says, and held symbols
  must stay subscribed.
* **Lifecycle.** `running`, `_trading_started`, the risk loop and the stream must
  agree whenever no start or stop is in progress.
* **Trade records.** Executions are fetched by a loop and by a task per event, which
  share the memory behind the "nothing changed" shortcut. Correct if the shortcut
  forgets nothing, and if the FIFO profit is that of the shares sold.
* **Position times and statistics.** A row outlives its position on every path that
  leaves the memory without an event. Correct if a position is thought too old for a
  known reason only, and if statistics counted one by one are those loaded later.
* **Rescans.** The held symbols are read before a scan that takes seconds, and updates of
  the subscriptions overlap. Correct if what was held all along keeps its ticks, and if
  what lost them gets them back.
* **Switches and limits.** Flags, lists, settings and file are four copies that a mode
  changes in part. Correct if what was chosen by hand survives.
* **Strategies.** Buffers, cooldowns and windows change independently of each other.
  Correct if a signal is what the rule says of the ticks since the last reset.
* **Event stream.** Every client has a queue, and a snapshot has three sources. Correct if
  a page that has read its queue is up to date but for what changed without an event, and
  if a stop ends every stream.
* **Risk arithmetic and backtest.** One job at a time, and the flag is released; the
  result adds up whatever the wall clock does to cache, cooldowns and market hours.

## 2. Modules

```
OutstandingOrders       what the pending orders promise (abstract)
OrderManager            order.py on the order path of kis.py
TradingEngine           engine.py + position.py + kis.py against an exchange
MarketStream            stream.py on a socket that breaks
EngineLifecycle         who runs when: routes.py, main.py, engine.py, stream.py

TradeLedger             executions from the exchange into the table trades
ProfitMatching          fees and FIFO profits of repository.py
PositionLog             position times, log and statistics of closed trades
WatchList               rescans against the engine's positions
Screening               what a scan selects
StrategySignals         the eight strategies and base.py
StrategySwitches        modes, toggles, settings, persist, restart
CandleStore             the two tables of bars
DashboardFeed           bus, dashboard state and event stream
BacktestJobs            the jobs of the two backtest pages
BacktestAccount         one backtest: engine, risk manager and mock broker

Services                parts that must make progress, side by side: OrderManager,
                        TradeLedger, BacktestJobs, DashboardFeed, WatchList
Decisions               parts that decide, side by side: EngineLifecycle,
                        ProfitMatching, PositionLog, StrategySwitches, CandleStore,
                        Screening, StrategySignals, BacktestAccount

MCOrderManager, MCTradingEngine, MCMarketStream, MCEngineLifecycle, MCServices,
MCDecisions             instances for TLC, and properties the documentation states

SequenceLemmas          facts about the sequence operators the proofs cite
DecisionLemmas          folds, sums and recursive functions, and three parts of Decisions
                        (profits, scans, signals): what DecisionsProofs rests on
OrderManagerProofs, TradingEngineProofs, MarketStreamProofs, EngineLifecycleProofs,
ServicesProofs, DecisionsProofs
                        theorems about the modules they are named after
```

`Services` and `Decisions` take the parameters of their parts as constants, so that
what is proved of them is proved for every size of every part. A behaviour is one
of the part that its first state names, and every other part keeps its initial state:
the parts do not interact there, and no product of state spaces is built. Where two
components do interact, the interaction is in the module of one of them: the ledger's
fetches and the events that start them, the rescans and the buys between them, the
backtest's engine and its mock account.

### OrderManager

`pending` is the deque, `apiLock` the FIFO of `asyncio.Lock` waiters of
`_throttle`. `place_order` runs from the lock to the answer and back to
`popleft` without yielding, because the KIS call is synchronous; that is one
action, `Answer`. `Cancel` is a `CancelledError` delivered to a waiter:
`submit` has no `try/finally`, so the entry stays. `SubmitOffline` is the path on
which a disconnected broker answers without awaiting. `overtaken` is a history
variable that records that such an answer overtook waiting orders; the code then
pops another task's entry, and `InFlightIsPending` claims nothing.
`OutstandingOrders` is the promise: a set of orders, `Place` and `Resolve`.

### TradingEngine

One event loop, so an action is what happens between two awaits that really
yield: the API lock, and the balance download of `sync_positions` (a thread).
Event bus emits do not count: their handlers only record.

* Tasks are `recv`, `risk`, `sync`, `dash`; `pc[t]` says where a task waits,
  `job[t]` the order it carries, `todo[t]` what its loop over positions has still
  to visit, `snap[t]` what its download returned.
* A handler that resumes goes on in the same action (`Resume`): the next
  `_check_risk` of its loop, the next liquidation, or rest.
* `mem` is `PositionManager._positions`: quantity, owner (`strategy`) and
  `exit`, which is the whole of the price as far as `RiskManager` is concerned:
  one of stop loss, take profit and stagnation would fire.
* `shares`, `working`, `notices` are the exchange: what the account holds, what
  was accepted and has not filled, fill notices under way.
* `Tick` is all of `on_tick` up to the strategies: price, `_check_risk`,
  `_check_market_close`. Signals are `ProcessSignal`; any enabled strategy may
  give any signal at any time.
* `SyncFetch` reads the account, `SyncMerge` merges it into whatever the memory
  has become since, removes untradeable and rejected symbols and runs the risk
  pass, as `sync_positions` of the engine and of the broker do together.
* Cooldowns are sets that time empties; the clock has the three phases that the
  constants `_CUTOFF_BUY` and `_CUTOFF_CLOSE` separate. The reopening of the BUY
  path after 15:30, when the exchange takes no orders, is left out.
* `Controls` says what the environment may do (refusals, late refusals, lost
  notices, VI events, stagnation, failed downloads, dashboard requests, market
  close).

### MarketStream

Three kinds of tasks share `_ws` and `_subscribed`: start and stop (`caller`),
the receive loop, which also reconnects (`recv`), and the rescan loops, which
call `update_subscriptions` (`upd`). Each yields after every symbol it sends and
reads `self._ws` anew for every send, so that a symbol is an action
(`StartSend`, `RecvSend`, `UpdateRemove`, `UpdateAdd`).

* `served` is what the peer sends on the socket that `_ws` names; a socket that
  is closed or replaced takes its subscriptions with it.
* `toStart`, `toResub` and the two sets of `upd[u]` are the iterations in
  progress. The reconnect iterates over the set object that `_subscribed` named
  when it began; an update replaces that object and never changes it.
* A send on a broken socket raises: start fails (`StartFails`), a reconnect
  starts over (`RecvFails`), an update logs it and goes on.
* `Start` is possible over a stream that is up, because main starts the stream
  by itself without telling the dashboard (`main.py:234`, `routes.py:573`).
* `overlap` is a history variable: an update ran while another update, a start or
  a reconnect wrote to the same socket. The code computes the difference before
  the sends and replaces `_subscribed` after them, so that the socket may then
  serve something else than `_subscribed` says until the next reconnect.
  `InStep` claims that this is the only way.

### EngineLifecycle

Requests are handlers in the event loop: any number of clients may have one under
way, and each waits somewhere (`req[c]`): a start for the first sync, for the
scans, for the stream to open; a stop for the stream to close. What happens
between two of these waits is one action. `auto` is main's start, `MarketClose`
the end of `_check_market_close`, `rescan` the quant rescan task of the
dashboard.

* `Opened` waits until a rescan task just created has taken its first step:
  opening a socket takes longer than that. The built-in simulator, which opens
  nothing, is left out here as it is in MarketStream.
* `StartFails` undoes nothing, as in the code: the engine and its loops stay on.
* `streamOn` is all of MarketStream that matters here: a receive loop lives.
* `stopped`, `raced` and `autoStopped` are history variables. `StopIsFinal` needs
  no excuse but a later start. `StartedTrades` excludes starts that overlapped
  another start or a stop, because the flag is then simply wrong: a stop accepted
  while a second start is under way leaves `_trading_started` set and the engine
  off.

### TradeLedger and ProfitMatching

`book` is what the exchange executed of each order of the day, `rows` what the table
says. A fetch (`task[t]`) waits for the lock, is asked, and reads the answer; between
the last answer and the commit nothing waits (`Finish`). `count` and `hasNext` are
`_last_ccld_first_page` and `_last_ccld_has_next`; `basis` is a history variable, the
book they were taken from. `EventFetch` is `_sync_trades_now`: the bus makes a task of
a coroutine handler, so that a fetch of the loop and one of an event overlap; another
event while one is under way is bounded away by the size of `Tasks`. Faults are lost
notices, failed requests and refused writes. A fetch asks for `MaxPages` pages (ten in
`kis.py:421`): an execution of an order so old that all of these are full of newer ones
is never seen again. `Reached` names the orders within the limit, and
`LongListsRecorded` claims nothing of the others.

`ProfitMatching` has the loop of `_recalc_pnl` as recursive functions (`Take`,
`Matched`, `Profits`) and, as the reference, the same profit share by share
(`PaidByShare`): the k-th share sold is the k-th bought, `TradeOf` finds the trade of
a share. Fees are cut off to whole won one by one, as `int` does. The profit itself goes
through a mean price that is a double: `(avg_price - buy_avg) * matched_qty - fee -
buy_fee` is a whole number in exact arithmetic, but if the mean is no binary fraction it
may come out slightly beside it, and `int` then cuts off one won towards zero
(`repository.py:186-188`). Which way the rounding goes is not modelled: `Profits` gives
every sell the set of profits it may get (`Truncated`), one number if the mean is exact
(`Binary`) and two otherwise. 2 shares at 10,000 and 1 at 17,000 sold as 3 at 17,000 earn
13,897 won, and the code records 13,896. That the error never exceeds one won takes
amounts far below 2^53, which amounts in won are.

### PositionLog

`held` is the account, `opened` the memory, `row` the open row of `positions`, each
with the time it began. `Write` makes a write of the database succeed or be refused,
which the engine swallows. `causes` is a history variable: it names the paths on which
a position leaves the memory without closing its row (a refused SELL, a fill notice, a
sync that finds the shares gone, a hand other than the engine's). `AgeHasCause` says
that these are all. A sale makes two writes, each of which may be refused alone, or both.

### WatchList and Screening

`task[t]` is a rescan between reading the positions, scanning and the last
subscription. `Scalpers` read the positions before the scan, `Quants` after the
candles. `update_subscriptions` is a sequence of actions, as in MarketStream: it takes
the difference to `subscribed` (`Send`), sends it symbol by symbol (`Unsubscribe`,
`Subscribe`) and replaces `subscribed` at its end (`Resubscribed`), so that the updates
of two rescans overlap. `served` are the symbols whose ticks arrive. `kept` is a history
variable: of what a rescan read as held, what was held ever since. `contested` is
another: the symbols on which overlapping updates disagreed. On these the stream may
believe in a subscription that the peer has dropped; no later difference shows it, and a
held symbol is then without ticks until an update leaves it out or the stream
reconnects. `HeldIsWatchedAgain` says that this is the only way. A scan may select any set that keeps what it was given and respects
`MaxStocks`; that the code's scans do so, and take the best, is `Screening`'s
`SelectionIsBest`, where stocks on both sides of every limit of the filter, with equal
scores, meet sets of held symbols. Scores of the scalping scan are computed (the three
norms multiplied out); those of the quant scan are data. Both rank *indices* of the list
they are given (`Ranked`), as the code sorts records and reads their symbols afterwards;
`Selected` says without any ranking what is best: what fewer others beat than there are
free slots.

### StrategySignals

One strategy, one symbol, any sequence of ticks, orderbooks, prefills, switches, resets
and one change of its window. The rules are the code's, multiplied out to integers;
`tape` is a history variable, all that the strategy has seen, from which
`SaysWhatItSaw` computes what it should say. The property's exception is real: a
window configured above the length of the buffers silences the strategy until a
reset, because `configure` leaves the deques' `maxlen` alone. Also in the model,
because they are in the code: `set_enabled` keeps the buffers, and a prefill puts
daily closes into windows of ticks, the last of them that a new buffer would hold.

### StrategySwitches

`file`, `settings`, `enabled` and `limit` are the four copies. `chosen` and `applied`
are history variables: what was switched on by hand, which limits the risk manager
was given; `hidden` remembers the kinds whose lists were rewritten while a mode had
them switched off, which empties them; `filed` keeps both as they were when the file was
last written, which is what a restart must bring back. Limits set in the trading part of the settings
stay in the settings: nothing gives them to the risk manager.

### CandleStore

A bar is the time at which it was read: one read during its own time is cut short.
Both tables insert what is missing and never change what is there. `bulk_fetch` never
waits and is one action; the minute fetch commits symbol by symbol and day by day.
`StoredRows` are the rows of a symbol in the order of their times, `GetCandles` the
last of them.

### DashboardFeed

`Emit` is an event with all of its handlers, one of which may raise. A snapshot is built
from the engine's memory, the dashboard's state and the table of the day's trades
(`Sources`), each of which is a version. They also change without anybody being told: a
refused order drops a position (`Drop`), a request leaves a balance, the period's profit
or names of symbols in the state (`Answer`), executions are stored (`StoreTrades`).
`stale` is a history variable: the sources that did so since the last snapshot, or that
the database would not let it read. Of these a page may show an older version until the
next event, of which a tick is one. A stream takes a message (`Take`) and is suspended
while it is written (`Sent`); `Stop` puts a last message into every queue.

### BacktestJobs and BacktestAccount

`BacktestJobs` has the flag, the progress and what each job is doing; `stuck` is a
history variable, the exceptions raised between the setting of the flag and the try
statement. `BacktestAccount` is a whole run, candle by candle and strategy by
strategy, with the amounts the code computes: sizing, stop loss and take profit, which
a strategy may have of its own (`StrategyRisk`), commission and tax, the mock account, the
report. `validate_order`, which the engine calls for a BUY after the sizing
(`engine.py:347`), is not repeated: the quantity is at most `max_position_size` and costs
at most the same balance already. `WallClock` lets the ten seconds of the balance cache,
the cooldowns and the market hours run out between any two steps, because the engine
reads them from the wall clock and not from the candles. An order sized on a stale
balance is rejected by the mock account.

## 3. Runs

| Run | Instance | Question | Result |
|---|---|---|---|
| `orders_faults` | 5 orders, 2 symbols, cancels and disconnects | does the deque account for every order and never hide one in flight | holds |
| `engine` | 2 symbols, 2 strategies, 2 buys, refusals; symmetric | order visibility, standing decisions, ownership, blocks on buying again | holds |
| `engine_faults` | 1 symbol, 1 strategy, everything in `AllControls` | standing decisions and blocks under every fault | holds |
| `engine_live` | 1 symbol, quantities up to 2 (partial fills), refusals, late refusals, lost notices, stagnation, failing downloads, fair | does memory come back to the account; is a stop loss served | holds |
| `stream` | 2 symbols, 2 rescan loops, 2 failures, fair | does the peer send what the stream believes; is stop final; does a stream that is up come back | holds |
| `services` | five parts, each under its own fairness | see below | holds |
| `decisions` | eight parts | see below | holds |
| `engine_rebuy` | 1 symbol, 2 buys, no faults | is `max_position_size` the most that is held | violated |
| `engine_unwatched` | 1 symbol, 1 buy, no faults, fair | is a holding always watched by the risk checks | violated |
| `ledger_missed` | 1 order of 2 shares, loop and one event task, no faults, fair | is every execution recorded | violated |
| `lifecycle_restart` | 1 client | does a start that answers success leave the engine running | violated |
| `lifecycle_rescan` | 1 client, rescan task | is there a rescan loop while trading is started | violated |

The parts of `services`:

| Part | Instance | Shows |
|---|---|---|
| orders | 5 orders, 2 symbols, no faults | the deque is the set of outstanding orders (`ImplementsOutstandingOrders`); no symbol is blocked for good |
| ledger | 3 orders, 2 pages of one order, 2 executions, 1 fault | between fetches the shortcut hides nothing that was executed before the page it compares with (`SkipIsSound`); a quantity goes back only by overlapping fetches; of a list longer than a page everything within the page limit is recorded |
| jobs | 2 requests, both pages, 2 combinations | flag and progress are the one job's; a page takes jobs again unless an exception escaped |
| feed | 2 clients, 2 events | a page that has read its queue shows the present of every source that did not change silently; stop ends every stream |
| watch | 2 symbols, one rescan of each kind, 1 slot | what was held all along keeps its ticks; what is held is watched again, unless overlapping updates disagreed on it |

The parts of `decisions`:

| Part | Instance | Shows |
|---|---|---|
| lifecycle | 2 clients, automatic start, with and without a rescan task | stop is final; started means that everything runs |
| fifo | all 65,536 days of 4 trades of up to 3 shares at 10,000 or 17,000 won | the loop's profits are those share by share, but for one won where the mean price is rounded |
| log | 3 instants, 2 closed trades, 2 refused writes | a wrong age has a known cause; the statistics are those of the log |
| switches | 2 scalping and 1 quant strategies, 2 limits | what was chosen by hand stays, over a restart what was chosen at the last persist; limits in force were applied |
| candles | 2 symbols, 3 bars, answers of 2 | a stored bar says what its first answer said |
| scan | markets of 3 stocks out of 9 profiles, or 4 candidates with 3 scores; 2 slots | the best are selected and what is held is kept |
| signals | 8 strategies, 2 prices, windows 2 and 3, 4 events | a strategy says what its rule says of what it saw |
| account | 4 candles, 4 symbols (3 of them symmetric), 2 strategies, one with limits of its own, 1,000,000 won | the result of a backtest adds up |

**Bounds.** `MaxBuys` bounds the BUY signals that reach the balance check,
`MaxNotices` the late refusals under way; sequences of ticks, syncs, SELLs and
dashboard requests are not bounded. Five orders are enough for two of one symbol
and one of another to wait together with two more behind a cancelled one. In the
engine two symbols are needed for `max_open_positions`, for loops that are in
the middle of one symbol when another changes, and for orders that could be
popped for each other; two strategies for ownership. Nothing in the code
compares two symbols with each other, so that three add no new case.
`MaxSize = 2` in `engine_live` gives partial fills and partial notices; safety
is proved for every size (section 4).

In `stream` two symbols let one be removed while the other is added, two
updaters let updates overlap each other, and `MaxBreaks = 2` lets a reconnect
fail in the middle and still be followed by another; starts, stops and updates
are not bounded.

In the lifecycle two clients and the automatic start are three actors that may all
be in the middle of something; the theorems hold for any number of clients.
Nothing is bounded.

In `services` a page of one order makes the second order one of another page, and with
two pages the first of three orders is beyond the limit; `MaxShares` bounds the
executions of the day, so that one order is executed twice or two orders once. Two tasks
overlap each other; a third would only repeat what the event's task does. The ledger of `ledger_missed` has one page, because the shortcut is taken
only then. One slot and two symbols make a rescan replace the only symbol there is;
`MaxOpen = 1` does not keep a second one from being found in the account.

In `decisions` four trades are the fewest with two buys that two sells cut across; a mean
over three shares is no binary fraction, one over two is;
windows of 2 and 3 with four events fill a buffer, overflow it and change the window;
one of the two histories of a prefill is longer than the smaller window, so that it is cut;
prices of 10,000, 10,060 and 10,500 won and limits of 0.5 and 1 per cent let the stop
loss, the take profit and neither be due; against the 3 and 5 per cent that one strategy
has of its own there are moves that pass only the common limits and moves that pass both;
four symbols bought one after the other on
a stale balance cache cost more than there is, so that the mock account rejects one. Three
of the four have one price and are permuted (`SYMMETRY Alike`): only
`SomeQuotes` names them, all alike, symbols are compared for equality only, the
candle chosen for the first state is replaced before anything reads it, and the run has no
temporal property.

**Deadlock** is checked in the two `lifecycle` runs only: the order instance ends when
its orders are used up, a stopped stream that nobody starts rests, so does a stopped
engine with an empty exchange after the market close, and the parts of `services` and
`decisions` end with their bounds (a scan and a day of trades have no steps at all).

**Fairness.** `Served`: the event loop wakes the oldest waiter of the API lock.
`RiskPass`, `SyncBegin`: the loops sleep ten seconds and wake up. `SF
SyncMerge("sync")`: the download is repeated every ten seconds, and one of them
succeeds again and again (strong, because a failing download disables it for a
while). `SF FillNotice`: the receive loop is often busy, but takes the next
message when it is free, and it is fair among messages because the socket is one
FIFO. `Fill`: the exchange fills market orders it accepted.
`RejectCooldownOver`: sixty seconds pass. Nothing is assumed of ticks, signals,
VI events, the close cooldown or the dashboard. In MarketStream: what the receive
loop, a stop and an update wait for (sleeps, a connection attempt, a close with a
timeout) ends. Nobody need start, stop or rescan, and failures are bounded:
`ComesBack` is about the time after the last one. In TradeLedger the loop comes round
every minute (`LoopBegins`) and its requests have a timeout (`Progress`). In
BacktestJobs a task that was created runs and a backtest ends; nobody need ask for
one. In DashboardFeed the event loop wakes a client whose queue has a message, and a
message that is being sent is written or its connection found broken; nobody need
connect or leave. In WatchList a rescan comes round, one scan succeeds again and again
(strong, because it may fail in between) and an update that has begun sends all its
subscriptions.

### What the violated runs show

* `engine_rebuy`: an accepted order counts as filled. A sync that reads the
  balance before the exchange has filled it finds no shares and deletes the
  position (`kis.py:262-264`). No block is set, and the next BUY signal passes:
  the account gets more than `max_position_size`.
* `engine_unwatched`: the fill notice adds the quantity that the answer has
  already added (`engine.py:241-248`). A stop loss before the next sync sells
  more than there is, is refused for lack of balance and makes the symbol
  untradeable (`engine.py:481-484`); sync removes it from memory every ten
  seconds from then on (`engine.py:95-99`). The shares stay, without stop loss.
* `ledger_missed`: an event resets the broker's memory of the first page
  (`routes.py:101`) and waits for the lock; the loop's fetch, answered before the
  execution, goes on in between and sets it again (`kis.py:448-449`). The event's
  fetch then finds as many orders as remembered and takes the shortcut
  (`kis.py:445-447`), and so does the loop from then on: the execution is not recorded
  until the number of orders changes or another event gets
  through. `SkipIsSound` says what the shortcut does keep.
* `lifecycle_restart`: the market close stops the engine and leaves
  `_trading_started` set, so that start answers success and starts nothing
  (`engine.py:440`, `routes.py:573`).
* `lifecycle_rescan`: the quant rescan task takes its first step while the start
  that created it waits for the stream, finds `_trading_started` still unset and
  ends (`routes.py:494-497`, `510`, `615`).

Two observations that no document contradicts, so that no run is about them: a
position deleted as in `engine_rebuy` is found again by the next sync as `"synced"`,
and then any strategy may sell it (`engine.py:334`, `kis.py:260`); and a backtest
sizes its orders, cools down and closes its market by the wall clock, so that two
runs over the same candles may differ (`engine.py:79`).

## 4. Proofs

All theorems hold for every value of the constants, under the named assumptions of the
module they are about. Those of `Services` and `Decisions` are numbers where the code
has numbers (shares and won are naturals, what a candle costs is positive), sequences
where it has lists, and five facts: the loop is one of the ledger's tasks; `"none"` (the
page of a request without a job) is no page; no strategy is of both kinds; a window is at
least one price long (over none, the averages divide by zero); and the universe of a quant
scan has no symbol twice. The last holds if the market's list names every symbol once, but
the settings may break it: a symbol listed twice takes two places of a ranking that is cut
to `max_stocks`, and if it is held, a slot may stay empty (`quant_screener.py:104`, `239`).

* **OrderManager.** The deque may hold entries of cancelled orders and miss
  entries of waiting ones, so that "every order in flight is in the deque" is
  false. The inductive invariant `IInv` says instead that `apiLock`, from its
  oldest to its newest order, embeds into the deque at the *right* end: popping
  the left end can only drop an entry that is no longer needed. With the count
  of cancelled orders it gives `PendingAccounting` and `InFlightIsPending`. With
  `Faults = {}` the deque equals `apiLock`, and every step is a step of
  `OutstandingOrders` or a stutter (`FifoImplementsSet`).
* **TradingEngine.** `IInv` is the type invariant with three parts: a task that
  waits with an order carries one, and only the receive loop buys (`Carrying`);
  the exchange never works on more SELL quantity than there are shares
  (`Covered`, without which `shares` would leave the naturals); and
  `DecisionStands`. The last needs the observation that only the receive loop
  opens positions of a strategy, and it is the one that waits; `GoesOn(t)` states
  what a step in which another task goes on leaves alone. From it: `TypeCorrect`,
  `DecisionAlwaysStands`, `OwnerAlwaysKept`, `AlwaysLeavesBlocked`.
* **TradingEngine, the queue.** On the lock wait orders and things that are none (a
  sync, a request for the history), and the risk task may be cancelled in the middle of
  the queue by the market close, which leaves its entry in the deque. `OrdersInLine`
  is the embedding of OrderManager for the waiters that carry an order, with two more
  parts: nobody waits twice, and a task stands in the queue exactly while its `pc` says
  so. There is a lemma for a waiter that joins, one that is served and one that is
  cancelled, and one for each helper that `Resume` may go on with. From it:
  `InFlightAlwaysPending`.
* **MarketStream.** `InStep` speaks of a receive loop that reads; it is inductive
  only with what every writer knows about the socket while it is at work
  (`Follows`): a start and a reconnect have served all but what they have still
  to send, an update lies between the old and the new symbols. `OneUpdate` says
  that without `overlap` there is one update at most, and `Modes` that the receive
  loop lives between a start and the next start or stop, from which
  `StopAlwaysFinal` follows.
* **EngineLifecycle.** Which start a step belongs to is what the flags do not say;
  the invariant does: unless requests raced there is one start at a time, and none
  once `_trading_started` is set (`OneStart`), and the start under way has set what
  it leaves set (`Prepares`). `StopAlwaysFinal` needs only that a stop leaves the
  flag unset, which is what ends rescan tasks created afterwards.

`ServicesProofs` proves one invariant for each part and puts them together
(`ServicesInv`): a step of the part that runs is a step of its invariant, and every
other part rests.

* **TradeLedger.** `SkipIsSound` is about moments at which nobody fetches, and says
  nothing of a fetch under way. `LedgerInv` does: what is remembered of the first page
  is that page of `basis` (`Remembered`); while all orders are on one page, what
  `basis` says of them was recorded, or refused (`PageRecorded`); and what a fetch has
  read is sound (`SoundFetch`): it is of an earlier book, was executed, and nothing of
  it is older than the rows unless another fetch overlapped. `BackAlwaysByOverlap` is the
  same argument for a step: a fetch that nobody overlapped has read a book at least as new
  as what the table says.
* **BacktestJobs.** `FlagMeansJob` needs one more part: a page on which an exception
  left the flag set has no job, or the end of a job would reset the flag of
  the exception.
* **DashboardFeed.** What a connected page received and what waits in its queue is
  together what it was sent (`Gapless`); the last snapshot among what it was sent has
  the present version of every source that is not stale (`Current`); and it shows the
  last snapshot that it received (`Shows`).
* **WatchList.** What was held since a rescan read the positions stays among what it
  read, and then among what it will subscribe to, because a scan selects what it was
  given (`ScanSelects`); and what an update will still unsubscribe is not among that. From
  it, the action property `HeldSinceStays`, whatever other updates overlap.

`DecisionsProofs` does the same for `DecisionsInv`. Many of its facts are about what a
recursive function or a fold computes for *every* sequence. The library states
induction with an operator as parameter, which the provers cannot instantiate;
`NatByInduction` states it with a set instead (a set of naturals with 0 and with the
successor of each of its members holds all of them) and follows from the
well-foundedness of the order. A recursive function or a fold must first be shown to
exist: `RecursionExists` does so for every function on `0 .. n` given by its first value
and its steps, `FoldExists` for the folds of the library. The sum over a finite set, which
`MapThenSumSet` and `SumFunction` take in the order in which `CHOOSE` finds the elements,
exists and is unique (`SumsExist`, `SumsAgree`, by induction on the number of elements),
and does not depend on that order: adding or taking away any element adds or takes away
its value (`SumAdd`, `SumRemove`). These lemmas and those about the next three parts are in
`DecisionLemmas`.

* **ProfitMatching.** There are no steps here but two loops. `Profits` follows a cursor
  (a buy and what is left of it), `PaidByShare` counts shares. The invariant of both
  loops is `Placed`: the cursor stands behind exactly the shares sold so far, or behind
  all of them when the buys are used up. A turn of the inner loop takes shares of one
  trade only, so that its cost is that of the shares it passes (`TurnTakes`); as it takes
  one share at least, `qty` turns are enough (`MatchedTakes`), which is why the model's
  loop over `0 .. qty` is the code's `while`. The outer loop (`InStep`, `StaysInStep`) adds
  that a sell without enough buys leaves nothing for the ones after it. `UntilRises` and
  `TradeIs` say that every share belongs to one trade. The loops hand each sell a set of
  profits; what is in it is the exact one, or one won nearer to zero if the mean of the cost
  is no binary fraction (`ProfitsArePaid`, `PaidStands`). `FifoMeans` is the result.
* **Screening.** A permutation that is sorted exists (`ListsExist`, by taking the last
  in order away), so that `Ranked` is one (`RankedLists`). In a sorted list those in front
  of an element are those that beat it (`BeatenCount`), and hence the first so many that
  are not held are those beaten by fewer (`NewAreBest`). That the quant ranking is cut to
  `max_stocks` first loses nothing (`CutLosesNothing`): of those cut away each is behind
  `max_stocks` others, at most as many of which are held as slots are taken, because no
  symbol is listed twice. `FillBound` bounds what is selected.
* **StrategySignals.** `SaysWhatItSaw` speaks of the last entry of the tape; its invariant
  `SignalsInv` says what the strategy remembers: the buffer holds the last of the bars
  seen since the reset, as many as it has room for (`BufferIs`, with `SuffixTwice`: what a
  buffer of fixed length drops one by one is what the tape's suffix leaves out); `below`
  is what the last tick with bands said (`WasBelowIn`), `book` the last orderbook that was
  not empty (`BookAtIn`), `last` the last entry that said that side (`LastOK`). From these
  follows what the next entry says (`ReadyIsQuiet`, `SignalMeans`); a buffer shorter than
  the window says nothing, for each of the six conditions that have one
  (`TooShortIsSilent`). An entry that is appended does not change what the tape said
  before (`BarsBegin`, `BandsBegin`, `BooksBegin`), and a prefill adds bars without a
  signal (`DailyKeeps`). The conditions of the eight strategies are never unfolded but for
  that: `SaysWhatItSaw` holds whatever a condition computes of its buffer. What each
  computes is read off the code, and no property compares it with a second definition.
* **PositionLog.** `AgeHasCause` is inductive with the types: a row older than the
  shares is one that a path among `causes` left open (`LogAges`). For `StatsMatchLog`,
  `Tally` describes the statistics by what they count, sum and reach at most in the
  log. One more trade keeps it (`TallyAppend`), so that what was counted trade by trade
  and what is loaded after a restart (`TallyFold`) are the same, and equal what
  the property says of the whole log (`TalliedMatches`).
* **StrategySwitches.** `ChoiceKept` is inductive with the types and with what it says of
  the file (`FileKept`: the lists in it are what was chosen when it was written, but for
  the kinds hidden then): where nothing is listed but off, what is enabled of a kind is what
  is listed of it, so that rewriting the lists changes nothing but what was toggled
  (`RewriteKeeps`), and a persist writes what was chosen (`PersistKeeps`).
  `LimitsWereApplied` is inductive by itself.
* **CandleStore.** `FirstAnswerStays` has three parts. A bar is never changed: its value
  is that of the first answer that had it, and every answer's bars are there
  (`CandlesInv`, with `EarliestAnswer`). And `get_candles` gives the newest bars, oldest
  first, because the rows are sorted, complete and without repetition
  (`StoredRowsAre`).
* **BacktestAccount.** `ResultAddsUp` is about the end of a run; its invariant
  `Balanced` holds after every step: the balance, what the open positions cost and the
  fees are the initial balance and what the sales gained so far, and the balance with
  the fees is not negative. The gain of a sale is measured against the purchase it
  sold, so the invariant also pairs them: a position comes from the *last* purchase of
  its symbol, one more was bought of a held symbol than was sold and as many of every
  other (`HeldFrom`), and every sale has a purchase with as many until it (`Paired`).
  From this the report's rule, the last purchase before the sale, and the property's,
  the n-th purchase for the n-th sale, find the same one (`BoughtIs`, `MatchedIs`); wins
  and losses follow, because an order is for one share at least. There is a lemma for
  each thing that happens to an account: `BalancedBought`, `BalancedSold`,
  `BalancedRejected`, `BalancedMarked`. The tracker counts at most the sales, since
  every trade it is told of is one (`AccountRuns`).

`DecisionsTypeOK` adds to these the types of the lifecycle, and of the signals that a buffer
is at most as long as when the symbol's first tick made it, over pushes, prefills, resets
and new windows, and that no signal is later than the clock, in a backtest because no more
ticks were counted than it moved on.

Every invariant and action property that a passing run checks is a theorem. Only
model-checked are the liveness properties (`NeverBlockedForGood`,
`MemoryConverges`, `StopLossServed`, `ComesBack`, `LongListsRecorded`, `Released`,
`StopEndsStreams`, `HeldIsWatchedAgain`), because fairness is out of the prover's
reach.
`HeldAlwaysStays`, `BackAlwaysByOverlap`, `OwnerAlwaysKept`, `AlwaysLeavesBlocked` are
the action properties among the theorems.

## 5. Not modelled, and the plan

Left out of modules that are otherwise complete:

* a recalculation of profits that fails after the rows were committed
  (`repository.py:116-117`);
* confidences of signals; quant factors and the scores made of them
  (`_calc_factors`), which are floating-point numbers;
* the identity of sockets: two starts of the stream at once, each with a receive loop
  of its own (`stream.py:186`);
* a liquidation refused at the market close, whose consequences are seen on the next
  day (`engine.py:439`); an average price of 0, which takes a field of a notice or a
  balance that the exchange leaves empty (`risk.py:34`);
* time zones: with the stagnation exit switched on, a naive `now()` less an `opened_at`
  that came from the table with a zone raises (`risk.py:61`, `schema.py:58`,
  `engine.py:108`), and in the risk loop nothing catches it (`engine.py:168-174`);
* the direction in which a double is rounded: a profit may be exact or one won short, and
  `FifoAgrees` allows both. An order counts as executed at one price, so that
  `avg_price * quantity` is the amount the exchange states;
* how long a snapshot may be stale, and what becomes of an execution beyond the page
  limit: the properties name both and claim nothing about them;
* which candles a quant backtest may look at (`quant_runner.py:84-87`).

Not modelled: the simulator of prices, Telegram, the token cache of the broker, the
command line of the backtest, downloads of the market, HTML and CSS, and the
formatting of answers. They are input and output, or keep no state that another part
reads.

What is worth doing next, in this order:

1. Sockets with an identity in MarketStream, for two starts at once.
2. The morning after a market close: what the first sync finds of a refused
   liquidation.
3. A second definition of each strategy's condition, on fractions, that the one
   multiplied out to integers is proved equal to.
