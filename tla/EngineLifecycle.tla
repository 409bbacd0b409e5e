--------------------------- MODULE EngineLifecycle ---------------------------
(***************************************************************************)
(* Who runs when: the engine, its risk loop, the market data stream and    *)
(* the dashboard's quant rescan loop, as they are started and stopped by   *)
(* requests of the dashboard (dashboard/routes.py), by main's automatic    *)
(* start (main.py) and by the market close (trading/engine.py).            *)
(*                                                                         *)
(* Requests are handlers in one event loop, so that several may be under   *)
(* way, each waiting somewhere.  The stream is what MarketStream is about; *)
(* here it is on while a receive loop lives.  Not here: the sync loop,     *)
(* which runs from boot to shutdown, main's own rescan loops, which run    *)
(* until shutdown and only update subscriptions, and the shutdown, which   *)
(* ends the program.                                                       *)
(***************************************************************************)
CONSTANTS
  Clients,    \* one request each at a time
  AutoStart,  \* trading.auto_start
  Rescans     \* whether a start wants a rescan task, as a set of possibilities:
              \* a quant mode with an interval, and a universe that is not empty

ASSUME FlagsAssumption == AutoStart \in BOOLEAN /\ Rescans \subseteq BOOLEAN

VARIABLES
  running,         \* TradingEngine._running
  riskLoop,        \* the risk loop's task is alive
  tradingStarted,  \* routes._trading_started
  streamOn,        \* a receive loop is alive
  stopping,        \* MarketDataStream._stopping
  rescan,          \* the quant rescan task: "none", "created", "asleep", "scanning"
  req,             \* per client: where its request is
  answer,          \* per client: "none", "success", "error"
  auto,            \* main's start: "none", "todo", "scan", "open", "done"
  stopped,         \* history: since stop was accepted nothing was started
  raced,           \* history: a start was under way when another start or a stop came
  autoStopped      \* history: the market close stopped the engine

vars == <<running, riskLoop, tradingStarted, streamOn, stopping, rescan, req, answer,
          auto, stopped, raced, autoStopped>>

\* "start" and "stop" have arrived; a start waits for the first sync, for the
\* scans, for the stream to open; a stop for the stream to close
Phases == {"idle", "start", "sync", "scan", "open", "stop", "closing"}

AutoStarting == auto \in {"scan", "open"}
StartPending(c) == req[c] \in {"sync", "scan", "open"}
Starting == AutoStarting \/ \E c \in Clients : StartPending(c)

Init ==
  /\ running = FALSE /\ riskLoop = FALSE
  /\ tradingStarted = FALSE
  /\ streamOn = FALSE /\ stopping = FALSE
  /\ rescan = "none"
  /\ req = [c \in Clients |-> "idle"]
  /\ answer = [c \in Clients |-> "none"]
  /\ auto = (IF AutoStart THEN "todo" ELSE "none")
  /\ stopped = TRUE
  /\ raced = FALSE
  /\ autoStopped = FALSE

Answer(c, a) ==
  /\ req' = [req EXCEPT ![c] = "idle"]
  /\ answer' = [answer EXCEPT ![c] = a]

GoOn(c, phase) ==
  /\ req' = [req EXCEPT ![c] = phase]
  /\ UNCHANGED answer

-----------------------------------------------------------------------------
(***************************************************************************)
(* start_engine                                                            *)
(***************************************************************************)
Request(c) ==
  /\ req[c] = "idle"
  /\ \E what \in {"start", "stop"} : req' = [req EXCEPT ![c] = what]
  /\ answer' = [answer EXCEPT ![c] = "none"]
  /\ UNCHANGED <<running, riskLoop, tradingStarted, streamOn, stopping, rescan, auto,
                 stopped, raced, autoStopped>>

HandleStart(c) ==
  /\ req[c] = "start"
  /\ \/ tradingStarted /\ Answer(c, "success") /\ UNCHANGED raced
     \/ ~tradingStarted /\ stopping /\ Answer(c, "error") /\ UNCHANGED raced
     \/ ~tradingStarted /\ ~stopping /\ GoOn(c, "sync") /\ raced' = (raced \/ Starting)
  /\ UNCHANGED <<running, riskLoop, tradingStarted, streamOn, stopping, rescan, auto,
                 stopped, autoStopped>>

\* mutant: start_background_loops is left to engine.start
PreparedWithoutLoops(c) ==
  /\ req[c] = "sync" /\ GoOn(c, "scan")
  /\ running' = TRUE
  /\ stopped' = FALSE /\ autoStopped' = FALSE
  /\ UNCHANGED <<riskLoop, tradingStarted, streamOn, stopping, rescan, auto, raced>>

\* the positions are synced: the engine runs, and its loops with it
Prepared(c) ==
  /\ req[c] = "sync" /\ GoOn(c, "scan")
  /\ running' = TRUE /\ riskLoop' = TRUE
  /\ stopped' = FALSE /\ autoStopped' = FALSE
  /\ UNCHANGED <<tradingStarted, streamOn, stopping, rescan, auto, raced>>

\* the end of the quant scan: the rescan task is created if none is alive
QuantStart(wanted) ==
  rescan' = IF wanted /\ rescan = "none" THEN "created" ELSE rescan

\* the symbols are known; stream.start cancels the receive loop there may be
Scanned(c) ==
  /\ req[c] = "scan" /\ GoOn(c, "open")
  /\ \E wanted \in Rescans : QuantStart(wanted)
  /\ streamOn' = FALSE
  /\ UNCHANGED <<running, riskLoop, tradingStarted, stopping, auto, stopped, raced, autoStopped>>

\* opening the socket takes longer than the first step of the rescan task
Opened(c) ==
  /\ req[c] = "open" /\ rescan # "created"
  /\ Answer(c, "success")
  /\ streamOn' = TRUE
  /\ tradingStarted' = TRUE
  /\ stopped' = FALSE
  /\ UNCHANGED <<running, riskLoop, stopping, rescan, auto, raced, autoStopped>>

\* mutant: the exception leaves the handler
StartRaises(c) ==
  /\ req[c] \in {"sync", "scan", "open"}
  /\ Answer(c, "exception")
  /\ UNCHANGED <<running, riskLoop, tradingStarted, streamOn, stopping, rescan, auto,
                 stopped, raced, autoStopped>>

\* anything in start may raise; nothing is undone
StartFails(c) ==
  /\ req[c] \in {"sync", "scan", "open"}
  /\ Answer(c, "error")
  /\ UNCHANGED <<running, riskLoop, tradingStarted, streamOn, stopping, rescan, auto,
                 stopped, raced, autoStopped>>

-----------------------------------------------------------------------------
(***************************************************************************)
(* stop_engine                                                             *)
(***************************************************************************)
StopRefused(c) ==
  /\ req[c] = "stop" /\ (~tradingStarted \/ stopping)
  /\ Answer(c, "error")
  /\ UNCHANGED <<running, riskLoop, tradingStarted, streamOn, stopping, rescan, auto,
                 stopped, raced, autoStopped>>

\* mutant: the rescan task is forgotten, not cancelled
StopAcceptedKeepingRescan(c) ==
  /\ req[c] = "stop" /\ tradingStarted /\ ~stopping
  /\ GoOn(c, "closing")
  /\ running' = FALSE /\ riskLoop' = FALSE
  /\ tradingStarted' = FALSE
  /\ streamOn' = FALSE /\ stopping' = TRUE
  /\ stopped' = TRUE /\ autoStopped' = FALSE
  /\ raced' = (raced \/ Starting)
  /\ UNCHANGED <<rescan, auto>>

\* all of stop up to the closing of the socket
StopAccepted(c) ==
  /\ req[c] = "stop" /\ tradingStarted /\ ~stopping
  /\ GoOn(c, "closing")
  /\ running' = FALSE /\ riskLoop' = FALSE
  /\ tradingStarted' = FALSE
  /\ rescan' = "none"
  /\ streamOn' = FALSE /\ stopping' = TRUE
  /\ stopped' = TRUE /\ autoStopped' = FALSE
  /\ raced' = (raced \/ Starting)
  /\ UNCHANGED auto

Stopped(c) ==
  /\ req[c] = "closing"
  /\ Answer(c, "success")
  /\ stopping' = FALSE
  /\ raced' = (raced /\ (Starting \/ ~stopped))
  /\ UNCHANGED <<running, riskLoop, tradingStarted, streamOn, rescan, auto, stopped, autoStopped>>

-----------------------------------------------------------------------------
\* _quant_rescan_loop of the dashboard
RescanRuns ==
  \/ /\ rescan \in {"created", "scanning"}
     /\ rescan' = IF tradingStarted THEN "asleep" ELSE "none"
  \/ /\ rescan = "asleep"
     /\ rescan' = IF tradingStarted THEN "scanning" ELSE "none"

RescanStep ==
  /\ RescanRuns
  /\ UNCHANGED <<running, riskLoop, tradingStarted, streamOn, stopping, req, answer, auto,
                 stopped, raced, autoStopped>>

-----------------------------------------------------------------------------
(***************************************************************************)
(* main._start_trading: it knows neither the risk loop nor the dashboard.  *)
(***************************************************************************)
AutoBegin ==
  /\ auto = "todo" /\ auto' = "scan"
  /\ running' = TRUE
  /\ stopped' = FALSE /\ raced' = (raced \/ Starting)
  /\ UNCHANGED <<riskLoop, tradingStarted, streamOn, stopping, rescan, req, answer, autoStopped>>

AutoScanned ==
  /\ auto = "scan" /\ auto' = "open"
  /\ streamOn' = FALSE
  /\ UNCHANGED <<running, riskLoop, tradingStarted, stopping, rescan, req, answer,
                 stopped, raced, autoStopped>>

AutoOpened ==
  /\ auto = "open" /\ auto' = "done"
  /\ streamOn' = TRUE
  /\ stopped' = FALSE
  /\ UNCHANGED <<running, riskLoop, tradingStarted, stopping, rescan, req, answer,
                 raced, autoStopped>>

\* a tick at the market close, with positions that are then sold
MarketClose ==
  /\ running /\ streamOn
  /\ running' = FALSE /\ riskLoop' = FALSE
  /\ autoStopped' = TRUE
  /\ UNCHANGED <<tradingStarted, streamOn, stopping, rescan, req, answer, auto, stopped, raced>>

Dashboard(c) ==
  \/ Request(c) \/ HandleStart(c) \/ Prepared(c) \/ Scanned(c) \/ Opened(c) \/ StartFails(c)
  \/ StopRefused(c) \/ StopAccepted(c) \/ Stopped(c)

Next ==
  \/ \E c \in Clients : Dashboard(c)
  \/ RescanStep
  \/ AutoBegin \/ AutoScanned \/ AutoOpened
  \/ MarketClose

Spec == Init /\ [][Next]_vars
-----------------------------------------------------------------------------
TypeOK ==
  /\ running \in BOOLEAN /\ riskLoop \in BOOLEAN
  /\ tradingStarted \in BOOLEAN
  /\ streamOn \in BOOLEAN /\ stopping \in BOOLEAN
  /\ rescan \in {"none", "created", "asleep", "scanning"}
  /\ req \in [Clients -> Phases]
  /\ answer \in [Clients -> {"none", "success", "error"}]
  /\ auto \in {"none", "todo", "scan", "open", "done"}
  /\ stopped \in BOOLEAN /\ raced \in BOOLEAN /\ autoStopped \in BOOLEAN

(***************************************************************************)
(* Once stop has had its way nothing goes on until something is started:   *)
(* no engine, no risk loop, no stream, no rescan.  Starts that were under  *)
(* way when stop came may have failed since, rescan tasks may have been    *)
(* created (routes.py:627-647).                                            *)
(***************************************************************************)
StopIsFinal ==
  stopped => ~running /\ ~riskLoop /\ ~streamOn /\ rescan \notin {"asleep", "scanning"}

(***************************************************************************)
(* What the dashboard calls started trades: the engine runs, with its risk *)
(* loop, on a stream that is read.  Whatever failed or was started         *)
(* automatically before; only requests that overlapped, and the market     *)
(* close, take it away behind the flag's back (routes.py:568-623).         *)
(***************************************************************************)
StartedTrades ==
  tradingStarted /\ ~Starting /\ ~raced /\ ~autoStopped => running /\ riskLoop /\ streamOn
=============================================================================
