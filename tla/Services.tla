------------------------------- MODULE Services -------------------------------
(***************************************************************************)
(* The parts around the engine that must make progress: the queue of       *)
(* orders when nobody is cancelled (OrderManager, whose names are as they  *)
(* are), the ledger of executions, the backtest pages, the dashboards'     *)
(* streams, the subscriptions.  They share nothing: a behaviour is one of  *)
(* the part that it begins with, and the others keep their initial states. *)
(***************************************************************************)
EXTENDS OrderManager

CONSTANTS
  \* TradeLedger
  LedgerTasks, Loop, OrderQty, PageSize, MaxPages, MaxOrders, MaxShares, MaxFaults,
  \* BacktestJobs
  Requests, Pages, MaxCombos,
  \* DashboardFeed
  Clients, MaxEvents,
  \* WatchList
  Stocks, Scalpers, Quants, MaxStocks, MaxOpen

ASSUME LedgerAssumption ==
  /\ Loop \in LedgerTasks
  /\ OrderQty \in Nat /\ PageSize \in Nat \ {0} /\ MaxPages \in Nat \ {0}
  /\ MaxOrders \in Nat /\ MaxShares \in Nat /\ MaxFaults \in Nat
ASSUME JobsAssumption == "none" \notin Pages /\ MaxCombos \in Nat
ASSUME FeedAssumption == MaxEvents \in Nat

VARIABLES
  part,
  ledger_book, ledger_rows, ledger_count, ledger_hasNext, ledger_task, ledger_basis,
  ledger_lost, ledger_faults,
  jobs_running, jobs_progress, jobs_job, jobs_stuck,
  feed_version, feed_queue, feed_client, feed_stopped, feed_shown, feed_sent,
  feed_received, feed_stale, feed_steps,
  watch_positions, watch_subscribed, watch_served, watch_active, watch_task, watch_kept,
  watch_contested

ledgerVars == <<ledger_book, ledger_rows, ledger_count, ledger_hasNext, ledger_task,
                ledger_basis, ledger_lost, ledger_faults>>
jobsVars == <<jobs_running, jobs_progress, jobs_job, jobs_stuck>>
feedVars == <<feed_version, feed_queue, feed_client, feed_stopped, feed_shown,
              feed_sent, feed_received, feed_stale, feed_steps>>
watchVars == <<watch_positions, watch_subscribed, watch_served, watch_active, watch_task,
               watch_kept, watch_contested>>

-----------------------------------------------------------------------------
Ledger == INSTANCE TradeLedger WITH
  Tasks <- LedgerTasks,
  book <- ledger_book, rows <- ledger_rows, count <- ledger_count, hasNext <- ledger_hasNext,
  task <- ledger_task, basis <- ledger_basis, lost <- ledger_lost, faults <- ledger_faults

Jobs == INSTANCE BacktestJobs WITH
  running <- jobs_running, progress <- jobs_progress, job <- jobs_job, stuck <- jobs_stuck

Feed == INSTANCE DashboardFeed WITH
  version <- feed_version, queue <- feed_queue, client <- feed_client,
  stopped <- feed_stopped, shown <- feed_shown, sent <- feed_sent, received <- feed_received,
  stale <- feed_stale, steps <- feed_steps

Watch == INSTANCE WatchList WITH
  Symbols <- Stocks,
  positions <- watch_positions, subscribed <- watch_subscribed, served <- watch_served,
  active <- watch_active, task <- watch_task, kept <- watch_kept,
  contested <- watch_contested

-----------------------------------------------------------------------------
ServicesInit ==
  /\ part \in {"orders", "ledger", "jobs", "feed", "watch"}
  /\ Init /\ Ledger!Init /\ Jobs!Init /\ Feed!Init
  /\ IF part = "watch" THEN Watch!Init ELSE Watch!InitWith(Stocks)

\* the parts that a step of p leaves alone
Rest(p) ==
  /\ UNCHANGED part
  /\ IF p = "orders" THEN TRUE ELSE UNCHANGED vars
  /\ IF p = "ledger" THEN TRUE ELSE UNCHANGED ledgerVars
  /\ IF p = "jobs" THEN TRUE ELSE UNCHANGED jobsVars
  /\ IF p = "feed" THEN TRUE ELSE UNCHANGED feedVars
  /\ IF p = "watch" THEN TRUE ELSE UNCHANGED watchVars

ServicesNext ==
  \/ part = "orders" /\ Next /\ Rest("orders")
  \/ part = "ledger" /\ Ledger!Next /\ Rest("ledger")
  \/ part = "jobs" /\ Jobs!Next /\ Rest("jobs")
  \/ part = "feed" /\ Feed!Next /\ Rest("feed")
  \/ part = "watch" /\ Watch!Next /\ Rest("watch")

ServicesVars == <<part, vars, ledgerVars, jobsVars, feedVars, watchVars>>

\* the parts' own fairness, for the part that runs
ServicesFairness ==
  /\ Fairness
  /\ WF_ledgerVars(part = "ledger" /\ Ledger!LoopBegins)
  /\ \A t \in LedgerTasks : WF_ledgerVars(part = "ledger" /\ Ledger!Progress(t))
  /\ \A r \in Requests :
       /\ WF_jobsVars(part = "jobs" /\ Jobs!Begin(r))
       /\ WF_jobsVars(part = "jobs" /\ (Jobs!Combo(r) \/ Jobs!End(r)))
  /\ \A c \in Clients :
       /\ WF_feedVars(part = "feed" /\ Feed!Take(c))
       /\ WF_feedVars(part = "feed" /\ Feed!Delivered(c))
  /\ \A t \in Scalpers \cup Quants :
       /\ WF_watchVars(part = "watch" /\ Watch!Begin(t))
       /\ SF_watchVars(part = "watch" /\ Watch!Scanned(t))
       /\ WF_watchVars(part = "watch" /\ Watch!Update(t))

ServicesSpec == ServicesInit /\ [][ServicesNext]_ServicesVars /\ ServicesFairness

-----------------------------------------------------------------------------
\* Every part keeps its types.
ServicesTypeOK ==
  /\ TypeOK /\ Ledger!TypeOK /\ Jobs!TypeOK /\ Feed!TypeOK /\ Watch!TypeOK

\* The shortcut of the ledger's fetch forgets nothing (TradeLedger, kis.py:445).
SkipIsSound == part = "ledger" => Ledger!SkipIsSound

\* A recorded quantity goes back only by overlapping fetches (TradeLedger,
\* repository.py:97-110).
BackOnlyByOverlap == Ledger!BackOnlyByOverlap

\* Executions of a long list of orders are recorded (TradeLedger, kis.py:445).
LongListsRecorded == Ledger!LongListsRecorded

\* A page's flag is set while its one job lives (BacktestJobs, routes.py:127).
FlagMeansJob == part = "jobs" => Jobs!FlagMeansJob

\* A page takes jobs again (BacktestJobs, routes.py:127).
Released == Jobs!Released

\* A page whose queue is empty shows all that did not change since the last snapshot
\* (DashboardFeed, sse.py:40-68).
DrainedIsCurrent == part = "feed" => Feed!DrainedIsCurrent

\* stop ends every stream (DashboardFeed, main.py:504-507).
StopEndsStreams == Feed!StopEndsStreams

\* A rescan takes nothing from what was held all along (WatchList, main.py:126-130).
HeldSinceStays == Watch!HeldSinceStays

\* What is held is watched again after another rescan, unless updates that overlapped
\* disagreed on it (WatchList, main.py:126-130, stream.py:327-356).
HeldIsWatchedAgain == Watch!HeldIsWatchedAgain
=============================================================================
