----------------------------- MODULE PositionLog -----------------------------
(***************************************************************************)
(* What survives a restart: the table positions, from which the engine     *)
(* restores how long it has held a symbol (the stagnation exit goes by     *)
(* it), and the log of closed trades, from which PerformanceTracker        *)
(* rebuilds a strategy's statistics.                                       *)
(*                                                                         *)
(* One symbol and one strategy: neither table relates two of them.  The    *)
(* account holds what the engine or its owner, by hand, bought; what its   *)
(* races with the memory do to quantities is TradingEngine's subject.      *)
(***************************************************************************)
EXTENDS Integers, Sequences, FiniteSets, SequencesExt, FiniteSetsExt

CONSTANTS
  Results,   \* profits of a trade
  MaxTime,   \* bound: clock
  MaxTrades, \* bound: closed trades
  MaxFaults  \* bound: writes the database refuses

VARIABLES
  clock,
  held,      \* the account: 0, or when the shares were bought
  opened,    \* the memory: 0 (no position), or opened_at
  row,       \* positions: 0, or opened_at of the row that is not closed
  log,       \* strategy_trades
  stats,     \* StrategyStats
  causes,    \* history: why the open row outlived its position
  logged,    \* history: every trade since the last load is in the log
  faults

vars == <<clock, held, opened, row, log, stats, causes, logged, faults>>
account == <<clock, held>>
performance == <<log, stats, logged>>

NoStats == [trades |-> 0, wins |-> 0, losses |-> 0, total |-> 0, peak |-> 0, drawdown |-> 0]

Greater(a, b) == IF a > b THEN a ELSE b

\* mutant: the drawdown is taken from the peak before the trade is added to it
RecordedPeakLate(s, pnl) ==
  LET total == s.total + pnl
  IN [trades   |-> s.trades + 1,
      wins     |-> s.wins + (IF pnl > 0 THEN 1 ELSE 0),
      losses   |-> s.losses + (IF pnl < 0 THEN 1 ELSE 0),
      total    |-> total,
      peak     |-> total,
      drawdown |-> Greater(s.drawdown, s.peak - total)]

\* record_trade and _load_from_db count alike
Recorded(s, pnl) ==
  LET total == s.total + pnl
      peak  == Greater(s.peak, total)
  IN [trades   |-> s.trades + 1,
      wins     |-> s.wins + (IF pnl > 0 THEN 1 ELSE 0),
      losses   |-> s.losses + (IF pnl < 0 THEN 1 ELSE 0),
      total    |-> total,
      peak     |-> peak,
      drawdown |-> Greater(s.drawdown, peak - total)]

Init ==
  /\ clock = 1
  /\ held = 0
  /\ opened = 0 /\ row = 0
  /\ log = <<>> /\ stats = NoStats
  /\ causes = {} /\ logged = TRUE
  /\ faults = 0

\* a write is made, or refused; the engine swallows the exception
Write(made, refused) ==
  \/ made /\ UNCHANGED faults
  \/ faults < MaxFaults /\ faults' = faults + 1 /\ refused

-----------------------------------------------------------------------------
\* save_position_open leaves a row alone that is open
SaveOpen ==
  IF row # 0 THEN UNCHANGED <<row, causes>> ELSE row' = clock /\ UNCHANGED causes

\* the position leaves the memory and its row, if it has one, stays open
LeavesMemory(why) == causes' = IF row # 0 THEN causes \cup {why} ELSE {}

CloseRow == row' = 0 /\ causes' = {}

(***************************************************************************)
(* A BUY is accepted (engine.py:373-389).                                  *)
(***************************************************************************)
Buy ==
  /\ held = 0 /\ opened = 0
  /\ opened' = clock /\ held' = clock
  /\ Write(SaveOpen, UNCHANGED <<row, causes>>)
  /\ UNCHANGED <<clock, performance>>

(***************************************************************************)
(* A SELL or a forced close is accepted: the trade is recorded, the row    *)
(* closed (engine.py:401-410, 494-503); each write may be refused.         *)
(***************************************************************************)
\* mutant: the row is left to the next sync
SellKeepingRow(pnl) ==
  /\ opened # 0 /\ Len(log) < MaxTrades
  /\ opened' = 0
  /\ stats' = Recorded(stats, pnl)
  /\ log' = Append(log, pnl)
  /\ UNCHANGED <<clock, held, row, causes, logged, faults>>

Sell(pnl) ==
  /\ opened # 0 /\ Len(log) < MaxTrades
  /\ opened' = 0
  /\ stats' = Recorded(stats, pnl)
  /\ \E refused \in SUBSET {"log", "row"} :
       /\ faults + Cardinality(refused) <= MaxFaults
       /\ faults' = faults + Cardinality(refused)
       /\ IF "log" \in refused THEN logged' = FALSE /\ UNCHANGED log
          ELSE log' = Append(log, pnl) /\ UNCHANGED logged
       /\ IF "row" \in refused THEN LeavesMemory("write") /\ UNCHANGED row ELSE CloseRow
  /\ UNCHANGED <<clock, held>>

\* a refused SELL drops the position (engine.py:370, 481); the row stays open
SellRefused ==
  /\ opened # 0
  /\ opened' = 0
  /\ LeavesMemory("refused")
  /\ UNCHANGED <<account, row, performance, faults>>

(***************************************************************************)
(* sync_positions: the memory becomes the account, and what is in both     *)
(* takes its age from the row that is open (engine.py:103-108).            *)
(***************************************************************************)
Sync ==
  /\ IF held # 0
     THEN /\ opened' = (IF row # 0 THEN row ELSE IF opened # 0 THEN opened ELSE clock)
          /\ UNCHANGED causes
     ELSE /\ opened' = 0
          /\ IF opened # 0 THEN LeavesMemory("gone") ELSE UNCHANGED causes
  /\ UNCHANGED <<account, row, performance, faults>>

\* a fill notice of a SELL removes the position, and nothing else
SellNotice ==
  /\ opened # 0 /\ held # 0
  /\ opened' = 0 /\ held' = 0
  /\ LeavesMemory("notice")
  /\ UNCHANGED <<clock, row, performance, faults>>

(***************************************************************************)
(* The account by itself: the SELL is executed, or its owner sells or buys *)
(* by hand.                                                                *)
(***************************************************************************)
SharesGone == held # 0 /\ held' = 0 /\ UNCHANGED causes

SharesBought ==
  /\ held = 0 /\ held' = clock
  /\ causes' = IF row # 0 \/ opened # 0 THEN causes \cup {"unseen"} ELSE {}

Account ==
  /\ SharesGone \/ SharesBought
  /\ UNCHANGED <<clock, opened, row, performance, faults>>

Tick ==
  /\ clock < MaxTime /\ clock' = clock + 1
  /\ UNCHANGED <<held, opened, row, causes, performance, faults>>

\* _load_from_db
Load == stats' = FoldLeft(Recorded, NoStats, log)

\* the memory is gone; main syncs, and init_routes loads the statistics
Restart ==
  /\ opened' = (IF held = 0 THEN 0 ELSE IF row # 0 THEN row ELSE clock)
  /\ IF held = 0 \/ row = 0 THEN LeavesMemory("gone") ELSE UNCHANGED causes
  /\ Load /\ logged' = TRUE
  /\ UNCHANGED <<account, row, log, faults>>

Next ==
  \/ Buy \/ SellRefused \/ Sync \/ SellNotice \/ Account \/ Tick \/ Restart
  \/ \E pnl \in Results : Sell(pnl)

Spec == Init /\ [][Next]_vars

-----------------------------------------------------------------------------
Times == 0 .. MaxTime

TypeOK ==
  /\ clock \in 1 .. MaxTime
  /\ held \in Times /\ opened \in Times /\ row \in Times
  /\ logged \in BOOLEAN
  /\ Len(log) <= MaxTrades /\ \A i \in DOMAIN log : log[i] \in Results
  /\ faults \in 0 .. MaxFaults

(***************************************************************************)
(* A position is thought older than its shares only if an earlier          *)
(* position of the symbol was never closed in the table: because a SELL    *)
(* was refused, a sync found the shares gone, a notice removed them, their *)
(* owner changed them between two syncs, or the write failed.              *)
(* save_position_open then keeps the old row (repository.py:250-257), and  *)
(* stagnation (risk.py:58-64) sells a fresh position at once.              *)
(***************************************************************************)
AgeHasCause == (opened # 0 /\ held # 0 /\ opened < held) => causes # {}

(***************************************************************************)
(* The statistics are what the log says: counted one by one, or loaded     *)
(* after a restart, with the largest fall of the running total from an     *)
(* earlier one as drawdown (performance.py:41-96).  Only a trade the       *)
(* database refused is missing, and then until the next restart.           *)
(***************************************************************************)
Total(n) == FoldLeft(LAMBDA a, p : a + p, 0, SubSeq(log, 1, n))

StatsMatchLog ==
  logged =>
    /\ stats.trades = Len(log)
    /\ stats.total = Total(Len(log))
    /\ stats.wins = Cardinality({i \in DOMAIN log : log[i] > 0})
    /\ stats.losses = Cardinality({i \in DOMAIN log : log[i] < 0})
    /\ stats.drawdown = Max({Total(p[1]) - Total(p[2]) : p \in
                          {q \in (0 .. Len(log)) \X (0 .. Len(log)) : q[1] <= q[2]}})
=============================================================================
