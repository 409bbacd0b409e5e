---------------------------- MODULE TradingEngine ----------------------------
(***************************************************************************)
(* trading/engine.py with trading/position.py and the order, balance and   *)
(* sync calls of broker/kis.py, in front of an exchange that holds the     *)
(* account.                                                                *)
(*                                                                         *)
(* Everything runs in one event loop, so a handler is atomic between two   *)
(* awaits that really yield: the wait on the API lock (_throttle), and the *)
(* balance download of sync_positions, which runs in a thread.  The tasks: *)
(*   "recv"  the WebSocket receive loop: ticks, signals, fill notices and  *)
(*           VI events, one message at a time;                             *)
(*   "risk"  _risk_check_loop;                                             *)
(*   "sync"  _sync_loop;                                                   *)
(*   "dash"  a dashboard request that liquidates positions or cancels      *)
(*           orders.                                                       *)
(*                                                                         *)
(* Abstractions.  A price is what it means to RiskManager: position.exit   *)
(* says that one of stop loss, take profit and stagnation would fire.      *)
(* Ticks and syncs choose it afresh, time may set it (Stagnates), and what *)
(* a fill does to a price is left to the next of these.  The profit test   *)
(* of a SELL signal, which reads the price too, may pass or fail.  Sizing  *)
(* is any quantity up to max_position_size.  Cooldowns are sets of symbols *)
(* that time empties.  A position is in memory iff its quantity is not 0.  *)
(* The threads of the balance and cancel calls reach the exchange at some  *)
(* moment after the API lock is free again; they are placed at the moment  *)
(* it becomes free, for a call that waited longer is as good as one that   *)
(* was made later.                                                         *)
(***************************************************************************)
EXTENDS Naturals, FiniteSets, SequencesExt

CONSTANTS
  Symbols,
  Strategies,
  MaxOpen,     \* RiskManager.max_open_positions
  MaxSize,     \* RiskManager.max_position_size
  Controls,    \* what the environment does: see below
  MaxBuys,     \* bound: BUY signals that reach the balance check
  MaxNotices   \* bound: notices on their way when an order is refused late

\* "refuse"    the exchange refuses an order for a reason of its own
\* "barred"    it refuses a BUY in the words that stand for untradeable
\* "late"      the exchange refuses an order it had accepted
\* "gap"       fill notices are lost while the WebSocket reconnects
\* "vi"        VI and halt events
\* "stagnate"  positions stagnate (stagnation_hours > 0)
\* "apifail"   the balance download fails
\* "liquidate" liquidation requests from the dashboard
\* "cancel"    cancel-all-orders requests from the dashboard
\* "close"     the market closes, with market_close_liquidate = true
AllControls ==
  {"refuse", "barred", "late", "gap", "vi", "stagnate", "apifail",
   "liquidate", "cancel", "close"}

ASSUME SizesAssumption ==
  MaxOpen \in Nat \ {0} /\ MaxSize \in Nat \ {0} /\ MaxBuys \in Nat /\ MaxNotices \in Nat
ASSUME ControlsAssumption == Controls \subseteq AllControls
ASSUME StrategiesAssumption ==
  Strategies \cap {"none", "synced", "ws_fill"} = {}

Tasks == {"recv", "risk", "sync", "dash"}
Syncing == {"sync", "dash"}               \* tasks that call sync_positions
Ordering == {"signal", "order", "liquidate"}  \* inside OrderManager.submit
Places == Ordering \cup {"idle", "balance", "snapshot", "merge", "cancel", "off"}
Sides == {"buy", "sell"}
Owners == Strategies \cup {"synced", "ws_fill"}

VARIABLES
  \* the engine
  running,      \* TradingEngine._running
  mem,          \* PositionManager._positions
  untradeable,  \* _untradeable
  rejected,     \* symbols of _rejected_symbols younger than 60 s
  closed,       \* symbols of _closed_symbols younger than 30 min
  pending,      \* OrderManager._pending, by symbol
  \* its tasks
  apiLock,      \* tasks waiting on KISBroker._api_lock, oldest first
  pc,           \* where a task waits
  job,          \* the order (or signal) a waiting task carries
  todo,         \* positions a loop over positions.all() has still to visit
  snap,         \* the quantities a task's sync_positions downloaded
  \* the outside
  shares,       \* the account at the exchange
  working,      \* quantities accepted by the exchange and not yet filled
  notices,      \* fill notices on their way through the WebSocket
  phase,        \* time of day: "open", from 15:15 "cutoff", from 15:18 "closing"
  buys          \* BUY signals so far

engineVars == <<running, mem, untradeable, rejected, closed, pending>>
taskVars == <<apiLock, pc, job, todo, snap>>
outsideVars == <<shares, working, notices, phase, buys>>
vars == <<engineVars, taskVars, outsideVars>>

NoPos == [qty |-> 0, owner |-> "none", exit |-> FALSE]
NoJob == [sym |-> "none", side |-> "none", qty |-> 0, by |-> "none"]
NoShares == [s \in Symbols |-> 0]

Position == [qty : Nat \ {0}, owner : Owners, exit : BOOLEAN]
Order == [sym : Symbols, side : Sides, qty : Nat, by : Owners]
Notice == [kind : {"buy", "sell", "refused"}, sym : Symbols, qty : Nat \ {0}]

Held(m, s) == m[s].qty > 0
HeldIn(m) == {s \in Symbols : Held(m, s)}

Oldest(t) == apiLock # <<>> /\ Head(apiLock) = t

HasPendingFor(s) == \E i \in 1..Len(pending) : pending[i] = s

-----------------------------------------------------------------------------
(***************************************************************************)
(* PositionManager: the memory after a fill.                               *)
(***************************************************************************)
Drop(m, s) == [m EXCEPT ![s] = NoPos]

OpenOrAdd(m, s, q, owner) ==
  IF Held(m, s) THEN [m EXCEPT ![s].qty = @ + q]
  ELSE [m EXCEPT ![s] = [qty |-> q, owner |-> owner, exit |-> FALSE]]

\* mutant: > for >=
CloseOrReduceLeavingZero(m, s, q) ==
  IF q > m[s].qty THEN Drop(m, s) ELSE [m EXCEPT ![s].qty = @ - q]

CloseOrReduce(m, s, q) ==
  IF q >= m[s].qty THEN Drop(m, s) ELSE [m EXCEPT ![s].qty = @ - q]

UpdateOnFill(m, o) ==
  IF o.side = "buy" THEN OpenOrAdd(m, o.sym, o.qty, o.by)
  ELSE CloseOrReduce(m, o.sym, o.qty)

(***************************************************************************)
(* What a step leaves a task doing.  A handler that resumes after an await *)
(* goes on in the same step, so these take the memory m, the deque p and   *)
(* the lock queue l as the step has made them so far.                      *)
(***************************************************************************)
Rest(t, p, l) ==
  /\ pc' = [pc EXCEPT ![t] = "idle"]
  /\ job' = [job EXCEPT ![t] = NoJob]
  /\ todo' = [todo EXCEPT ![t] = {}]
  /\ pending' = p
  /\ apiLock' = l
  /\ UNCHANGED running

\* OrderManager.submit up to the wait on the API lock
Submit(t, at, o, rest, p, l) ==
  /\ pc' = [pc EXCEPT ![t] = at]
  /\ job' = [job EXCEPT ![t] = o]
  /\ todo' = [todo EXCEPT ![t] = rest]
  /\ pending' = Append(p, o.sym)
  /\ apiLock' = Append(l, t)
  /\ UNCHANGED running

\* wait on the API lock for something that is not an order
AwaitApi(t, at, o) ==
  /\ pc' = [pc EXCEPT ![t] = at]
  /\ job' = [job EXCEPT ![t] = o]
  /\ apiLock' = Append(apiLock, t)
  /\ UNCHANGED <<running, todo, pending>>

Sell(s, q, by) == [sym |-> s, side |-> "sell", qty |-> q, by |-> by]

(***************************************************************************)
(* End of _check_market_close: the engine stops itself and cancels the     *)
(* risk task, wherever it waits.  An order it was submitting stays in the  *)
(* deque.                                                                  *)
(***************************************************************************)
AutoStop(p, l) ==
  /\ running' = FALSE
  /\ pc' = [pc EXCEPT !["recv"] = "idle", !["risk"] = "off"]
  /\ job' = [job EXCEPT !["recv"] = NoJob, !["risk"] = NoJob]
  /\ todo' = [todo EXCEPT !["recv"] = {}, !["risk"] = {}]
  /\ pending' = p
  /\ apiLock' = RemoveFirst(l, "risk")

(***************************************************************************)
(* A loop that awaits _force_close for each position object of S.  The     *)
(* object of a symbol that has left the memory since the loop began still  *)
(* has some quantity, and is sold all the same.                            *)
(***************************************************************************)
LastKnownQty(m, s) == IF Held(m, s) THEN {m[s].qty} ELSE 1..MaxSize

Liquidate(t, S, m, p, l) ==
  \/ /\ S = {}
     /\ IF t = "recv" THEN AutoStop(p, l) ELSE Rest(t, p, l)
  \/ \E s \in S : \E q \in LastKnownQty(m, s) :
        Submit(t, "liquidate", Sell(s, q, IF Held(m, s) THEN m[s].owner ELSE "synced"),
               S \ {s}, p, l)

\* _check_market_close, on_tick's step after _check_risk
CheckMarketClose(m, p, l) ==
  IF phase = "closing" /\ HeldIn(m) # {}
  THEN Liquidate("recv", HeldIn(m), m, p, l)
  ELSE Rest("recv", p, l)

RisksChecked(t, m, p, l) ==
  IF t = "recv" THEN CheckMarketClose(m, p, l) ELSE Rest(t, p, l)

\* mutant: positions that no strategy of ours opened are left alone
CheckRiskOwnOnly(t, S, m, p, l) ==
  LET fire == {s \in S : Held(m, s) /\ m[s].exit /\ m[s].owner \in Strategies}
  IN  \/ /\ fire = {}
         /\ RisksChecked(t, m, p, l)
      \/ \E s \in fire, rest \in SUBSET (S \ fire) :
            Submit(t, "order", Sell(s, m[s].qty, m[s].owner),
                   rest \cup (fire \ {s}), p, l)

(***************************************************************************)
(* A loop over positions.all() that awaits _check_risk for each symbol of  *)
(* S.  Symbols without a position or whose position need not be closed are *)
(* passed over in the same step; the first that must be closed is ordered. *)
(* The dict's order is arbitrary: of the symbols that do not fire, any may *)
(* lie behind it.  _check_risk looks at neither the pending orders nor     *)
(* _untradeable.                                                           *)
(***************************************************************************)
CheckRisk(t, S, m, p, l) ==
  LET fire == {s \in S : Held(m, s) /\ m[s].exit}
  IN  \/ /\ fire = {}
         /\ RisksChecked(t, m, p, l)
      \/ \E s \in fire, rest \in SUBSET (S \ fire) :
            Submit(t, "order", Sell(s, m[s].qty, m[s].owner),
                   rest \cup (fire \ {s}), p, l)

-----------------------------------------------------------------------------
Init ==
  /\ running = TRUE
  /\ mem = [s \in Symbols |-> NoPos]
  /\ untradeable = {} /\ rejected = {} /\ closed = {}
  /\ pending = <<>>
  /\ apiLock = <<>>
  /\ pc = [t \in Tasks |-> "idle"]
  /\ job = [t \in Tasks |-> NoJob]
  /\ todo = [t \in Tasks |-> {}]
  /\ snap = [t \in Syncing |-> NoShares]
  /\ shares = NoShares
  /\ working = [s \in Symbols |-> [d \in Sides |-> 0]]
  /\ notices = <<>>
  /\ phase = "open"
  /\ buys = 0

-----------------------------------------------------------------------------
(***************************************************************************)
(* Messages of the receive loop.                                           *)
(***************************************************************************)
Receiving == pc["recv"] = "idle"

(***************************************************************************)
(* on_tick: update_price, _check_risk, _check_market_close.  The signals   *)
(* its strategies then give are ProcessSignal, like those of on_orderbook. *)
(***************************************************************************)
Tick(s) ==
  /\ Receiving /\ running
  /\ \E x \in BOOLEAN :
        /\ mem' = IF Held(mem, s) THEN [mem EXCEPT ![s].exit = x] ELSE mem
        /\ CheckRisk("recv", {s}, mem', pending, apiLock)
  /\ UNCHANGED <<untradeable, rejected, closed, snap, outsideVars>>

\* mutant: any strategy may close any position
PlaceSignalAnyOwner(sig, p, l) ==
  IF sig.side = "sell"
  THEN \/ /\ Held(mem, sig.sym)
          /\ Submit("recv", "signal", [sig EXCEPT !.qty = mem[sig.sym].qty], {}, p, l)
       \/ Rest("recv", p, l)
  ELSE \E q \in 0..MaxSize :
          IF q = 0 THEN Rest("recv", p, l)
          ELSE Submit("recv", "signal", [sig EXCEPT !.qty = q], {}, p, l)

(***************************************************************************)
(* _process_signal from the balance on.  A SELL needs a position of its    *)
(* own strategy, or one that sync found, and enough profit; a BUY needs a  *)
(* quantity.  Nothing checked before the balance was awaited is checked    *)
(* again.                                                                  *)
(***************************************************************************)
PlaceSignal(sig, p, l) ==
  IF sig.side = "sell"
  THEN \/ /\ Held(mem, sig.sym)
          /\ mem[sig.sym].owner \in {"synced", sig.by}
          /\ Submit("recv", "signal", [sig EXCEPT !.qty = mem[sig.sym].qty], {}, p, l)
       \/ Rest("recv", p, l)
  ELSE \E q \in 0..MaxSize :
          IF q = 0 THEN Rest("recv", p, l)
          ELSE Submit("recv", "signal", [sig EXCEPT !.qty = q], {}, p, l)

MayBuy(s) ==
  /\ s \notin closed
  /\ s \notin rejected
  /\ phase = "open"
  /\ ~Held(mem, s)
  /\ Cardinality(HeldIn(mem)) < MaxOpen
  /\ buys < MaxBuys

\* _process_signal up to the balance, which is cached or must be fetched
ProcessSignal(s, side, by) ==
  LET sig == [sym |-> s, side |-> side, qty |-> 0, by |-> by]
  IN  /\ Receiving /\ running
      /\ ~HasPendingFor(s)
      /\ s \notin untradeable
      /\ side = "buy" => MayBuy(s)
      /\ buys' = IF side = "buy" THEN buys + 1 ELSE buys
      /\ \/ PlaceSignal(sig, pending, apiLock)
         \/ AwaitApi("recv", "balance", sig)
      /\ UNCHANGED <<mem, untradeable, rejected, closed, snap,
                     shares, working, notices, phase>>

\* the balance has come, or fetching it has failed and the old one serves
BalanceFetched ==
  /\ pc["recv"] = "balance"
  /\ Oldest("recv")
  /\ PlaceSignal(job["recv"], pending, Tail(apiLock))
  /\ UNCHANGED <<mem, untradeable, rejected, closed, snap, outsideVars>>

\* on_fill_notice
FillNotice ==
  /\ Receiving
  /\ notices # <<>>
  /\ LET n == Head(notices)
     IN  /\ mem' = CASE n.kind = "buy" -> OpenOrAdd(mem, n.sym, n.qty, "ws_fill")
                      [] n.kind = "sell" /\ Held(mem, n.sym)
                           -> CloseOrReduce(mem, n.sym, n.qty)
                      [] OTHER -> mem
         /\ closed' = IF /\ n.kind = "sell"
                        /\ Held(mem, n.sym)
                        /\ n.qty >= mem[n.sym].qty
                     THEN closed \cup {n.sym} ELSE closed
         /\ rejected' = IF n.kind = "refused" THEN rejected \cup {n.sym} ELSE rejected
  /\ notices' = Tail(notices)
  /\ UNCHANGED <<running, untradeable, pending, taskVars, shares, working, phase, buys>>

\* on_vi_event
ViEvent(s, triggered) ==
  /\ "vi" \in Controls
  /\ Receiving
  /\ untradeable' = IF triggered THEN untradeable \cup {s} ELSE untradeable \ {s}
  /\ UNCHANGED <<running, mem, rejected, closed, pending, taskVars, outsideVars>>

-----------------------------------------------------------------------------
(***************************************************************************)
(* The other tasks.                                                        *)
(***************************************************************************)
\* _risk_check_loop, once its sleep is over
RiskPass ==
  /\ pc["risk"] = "idle" /\ running
  /\ CheckRisk("risk", HeldIn(mem), mem, pending, apiLock)
  /\ UNCHANGED <<mem, untradeable, rejected, closed, snap, outsideVars>>

\* _sync_loop, once its sleep is over: KISBroker.sync_positions waits its turn
SyncBegin ==
  /\ pc["sync"] = "idle"
  /\ AwaitApi("sync", "snapshot", NoJob)
  /\ UNCHANGED <<mem, untradeable, rejected, closed, snap, outsideVars>>

\* what a SELL may still take from the account
Sellable(s) == shares[s] - working[s]["sell"]

\* the balance is read at the exchange; the thread has yet to hand it over
SyncFetch(t) ==
  /\ pc[t] = "snapshot"
  /\ Oldest(t)
  /\ snap' = [snap EXCEPT ![t] = [s \in Symbols |-> IF Sellable(s) > 0 THEN shares[s] ELSE 0]]
  /\ pc' = [pc EXCEPT ![t] = "merge"]
  /\ apiLock' = Tail(apiLock)
  /\ UNCHANGED <<engineVars, job, todo, outsideVars>>

\* mutant: positions in memory are replaced, not updated
MergedReplacing(m, got, x) ==
  [s \in Symbols |->
     IF got[s] = 0 \/ s \in untradeable \cup rejected THEN NoPos
     ELSE [qty |-> got[s], owner |-> "synced", exit |-> x[s]]]

\* mutant: positions that are gone from the account are not deleted
MergedKeepingGone(m, got, x) ==
  [s \in Symbols |->
     IF s \in untradeable \cup rejected THEN NoPos
     ELSE IF got[s] = 0 THEN m[s]
     ELSE [qty |-> got[s],
           owner |-> IF Held(m, s) THEN m[s].owner ELSE "synced",
           exit |-> x[s]]]

(***************************************************************************)
(* The memory after sync_positions: updated where it knows the symbol,     *)
(* extended where it does not, emptied where the account is, and then      *)
(* emptied of the symbols that are untradeable or recently rejected.       *)
(***************************************************************************)
Merged(m, got, x) ==
  [s \in Symbols |->
     IF got[s] = 0 \/ s \in untradeable \cup rejected THEN NoPos
     ELSE [qty |-> got[s],
           owner |-> IF Held(m, s) THEN m[s].owner ELSE "synced",
           exit |-> x[s]]]

\* the download is handed over; then the risk pass of sync_positions
SyncMerge(t) ==
  /\ pc[t] = "merge"
  /\ \E x \in [Symbols -> BOOLEAN] : mem' = Merged(mem, snap[t], x)
  /\ snap' = [snap EXCEPT ![t] = NoShares]
  /\ IF running THEN CheckRisk(t, HeldIn(mem'), mem', pending, apiLock)
     ELSE Rest(t, pending, apiLock)
  /\ UNCHANGED <<untradeable, rejected, closed, outsideVars>>

\* the download has failed, and sync_positions returns at once
SyncFailed(t) ==
  /\ "apifail" \in Controls
  /\ pc[t] = "merge"
  /\ snap' = [snap EXCEPT ![t] = NoShares]
  /\ Rest(t, pending, apiLock)
  /\ UNCHANGED <<mem, untradeable, rejected, closed, outsideVars>>

\* liquidate_one and liquidate_all of the dashboard
LiquidateRequest(S) ==
  /\ "liquidate" \in Controls
  /\ pc["dash"] = "idle"
  /\ S # {}
  /\ Liquidate("dash", S, mem, pending, apiLock)
  /\ UNCHANGED <<mem, untradeable, rejected, closed, snap, outsideVars>>

\* cancel_all_orders of the dashboard
CancelRequest ==
  /\ "cancel" \in Controls
  /\ pc["dash"] = "idle"
  /\ AwaitApi("dash", "cancel", NoJob)
  /\ UNCHANGED <<mem, untradeable, rejected, closed, snap, outsideVars>>

\* KISBroker.cancel_all_orders; if there were orders, positions are synced
OrdersCancelled ==
  /\ pc["dash"] = "cancel"
  /\ Oldest("dash")
  /\ IF \A s \in Symbols, d \in Sides : working[s][d] = 0
     THEN Rest("dash", pending, Tail(apiLock)) /\ UNCHANGED working
     ELSE /\ working' = [s \in Symbols |-> [d \in Sides |-> 0]]
          /\ pc' = [pc EXCEPT !["dash"] = "snapshot"]
          /\ apiLock' = Append(Tail(apiLock), "dash")
          /\ UNCHANGED <<running, pending, job, todo>>
  /\ UNCHANGED <<mem, untradeable, rejected, closed, snap, shares, notices, phase, buys>>

(***************************************************************************)
(* The API lock's oldest waiter runs, and it is an order: KISBroker calls  *)
(* the exchange, submit pops the deque, the engine applies the answer and  *)
(* the handler goes on, all in one step.                                   *)
(***************************************************************************)
OrderServed(t) ==
  /\ pc[t] \in Ordering
  /\ Oldest(t)
  /\ pending # <<>>   \* popleft would raise; InFlightIsPending says it never does

\* mutant: pop() for popleft()
ResumePoppingNewest(t, m) ==
  LET p == Front(pending)
      l == Tail(apiLock)
  IN  CASE pc[t] = "signal" -> Rest(t, p, l)
        [] pc[t] = "order" -> CheckRisk(t, todo[t], m, p, l)
        [] pc[t] = "liquidate" -> Liquidate(t, todo[t], m, p, l)

Resume(t, m) ==
  LET p == Tail(pending)
      l == Tail(apiLock)
  IN  CASE pc[t] = "signal" -> Rest(t, p, l)
        [] pc[t] = "order" -> CheckRisk(t, todo[t], m, p, l)
        [] pc[t] = "liquidate" -> Liquidate(t, todo[t], m, p, l)

\* mutant: no close cooldown after a SELL
AcceptedNoCooldown(t) ==
  LET o == job[t]
  IN  /\ OrderServed(t)
      /\ o.side = "sell" => o.qty <= Sellable(o.sym)
      /\ mem' = UpdateOnFill(mem, o)
      /\ working' = [working EXCEPT ![o.sym][o.side] = @ + o.qty]
      /\ Resume(t, mem')
      /\ UNCHANGED <<untradeable, rejected, closed, snap, shares, notices, phase, buys>>

\* the order is accepted, which the engine takes for a fill
Accepted(t) ==
  LET o == job[t]
  IN  /\ OrderServed(t)
      /\ o.side = "sell" => o.qty <= Sellable(o.sym)
      /\ mem' = UpdateOnFill(mem, o)
      /\ closed' = IF o.side = "sell" THEN closed \cup {o.sym} ELSE closed
      /\ working' = [working EXCEPT ![o.sym][o.side] = @ + o.qty]
      /\ Resume(t, mem')
      /\ UNCHANGED <<untradeable, rejected, snap, shares, notices, phase, buys>>

\* the order is refused: for want of shares or of cash, or for another reason
RefusedFor(o) ==
  IF o.side = "sell" /\ o.qty > Sellable(o.sym) THEN {"balance"}
  ELSE (IF o.side = "buy" /\ "barred" \in Controls THEN {"balance"} ELSE {})
       \cup (IF "refuse" \in Controls THEN {"other"} ELSE {})

Refused(t) ==
  LET o == job[t]
  IN  /\ OrderServed(t)
      /\ \E why \in RefusedFor(o) :
            IF why = "balance"
            THEN untradeable' = untradeable \cup {o.sym} /\ UNCHANGED rejected
            ELSE rejected' = rejected \cup {o.sym} /\ UNCHANGED untradeable
      /\ mem' = IF o.side = "sell" THEN Drop(mem, o.sym) ELSE mem
      /\ Resume(t, mem')
      /\ UNCHANGED <<closed, snap, outsideVars>>

-----------------------------------------------------------------------------
(***************************************************************************)
(* The exchange and the clock.                                             *)
(***************************************************************************)
\* accepted quantities fill, in one piece or in several, each with a notice
Fill(s, d, q) ==
  /\ q \in 1..working[s][d]
  /\ working' = [working EXCEPT ![s][d] = @ - q]
  /\ shares' = [shares EXCEPT ![s] = IF d = "buy" THEN @ + q ELSE @ - q]
  /\ notices' = Append(notices, [kind |-> d, sym |-> s, qty |-> q])
  /\ UNCHANGED <<engineVars, taskVars, phase, buys>>

LateRefusal(s, d) ==
  /\ "late" \in Controls
  /\ working[s][d] > 0
  /\ Len(notices) < MaxNotices
  /\ working' = [working EXCEPT ![s][d] = 0]
  /\ notices' = Append(notices, [kind |-> "refused", sym |-> s, qty |-> working[s][d]])
  /\ UNCHANGED <<engineVars, taskVars, shares, phase, buys>>

\* the WebSocket reconnects and the notices of the gap are gone
NoticesLost ==
  /\ "gap" \in Controls
  /\ notices # <<>>
  /\ notices' = <<>>
  /\ UNCHANGED <<engineVars, taskVars, shares, working, phase, buys>>

\* a position has been held for stagnation_hours
Stagnates(s) ==
  /\ "stagnate" \in Controls
  /\ Held(mem, s) /\ ~mem[s].exit
  /\ mem' = [mem EXCEPT ![s].exit = TRUE]
  /\ UNCHANGED <<running, untradeable, rejected, closed, pending, taskVars, outsideVars>>

RejectCooldownOver(s) ==
  /\ s \in rejected
  /\ rejected' = rejected \ {s}
  /\ UNCHANGED <<running, mem, untradeable, closed, pending, taskVars, outsideVars>>

CloseCooldownOver(s) ==
  /\ s \in closed
  /\ closed' = closed \ {s}
  /\ UNCHANGED <<running, mem, untradeable, rejected, pending, taskVars, outsideVars>>

ClockAdvances ==
  /\ "close" \in Controls
  /\ \/ phase = "open" /\ phase' = "cutoff"
     \/ phase = "cutoff" /\ phase' = "closing"
  /\ UNCHANGED <<engineVars, taskVars, shares, working, notices, buys>>

-----------------------------------------------------------------------------
Receive ==
  \/ \E s \in Symbols : Tick(s)
  \/ \E s \in Symbols, side \in Sides, by \in Strategies : ProcessSignal(s, side, by)
  \/ BalanceFetched
  \/ FillNotice
  \/ \E s \in Symbols, triggered \in BOOLEAN : ViEvent(s, triggered)

Outside ==
  \/ \E s \in Symbols, d \in Sides : \E q \in 1..working[s][d] : Fill(s, d, q)
  \/ \E s \in Symbols, d \in Sides : LateRefusal(s, d)
  \/ NoticesLost
  \/ \E s \in Symbols : Stagnates(s)
  \/ \E s \in Symbols : RejectCooldownOver(s)
  \/ \E s \in Symbols : CloseCooldownOver(s)
  \/ ClockAdvances

Next ==
  \/ Receive
  \/ RiskPass
  \/ SyncBegin
  \/ \E t \in Syncing : SyncFetch(t) \/ SyncMerge(t) \/ SyncFailed(t)
  \/ \E S \in {HeldIn(mem)} \cup {{s} : s \in HeldIn(mem)} : LiquidateRequest(S)
  \/ CancelRequest
  \/ OrdersCancelled
  \/ \E t \in Tasks : Accepted(t) \/ Refused(t)
  \/ Outside

Served ==
  \/ BalanceFetched
  \/ OrdersCancelled
  \/ \E t \in Syncing : SyncFetch(t)
  \/ \E t \in Tasks : Accepted(t) \/ Refused(t)

(***************************************************************************)
(* The event loop runs what is ready, the loops wake from their sleeps,    *)
(* a download repeated for ever succeeds at times, the exchange fills what *)
(* it accepted, the socket delivers what it carries between other          *)
(* messages, and cooldowns end.                                            *)
(***************************************************************************)
Fairness ==
  /\ WF_vars(Served)
  /\ WF_vars(RiskPass)
  /\ WF_vars(SyncBegin)
  /\ SF_vars(SyncMerge("sync"))
  /\ SF_vars(FillNotice)
  /\ \A s \in Symbols, d \in Sides : WF_vars(\E q \in 1..working[s][d] : Fill(s, d, q))
  /\ \A s \in Symbols : WF_vars(RejectCooldownOver(s))

Safe == Init /\ [][Next]_vars
Spec == Safe /\ Fairness
-----------------------------------------------------------------------------
TypeOK ==
  /\ running \in BOOLEAN
  /\ mem \in [Symbols -> Position \cup {NoPos}]
  /\ untradeable \subseteq Symbols
  /\ rejected \subseteq Symbols
  /\ closed \subseteq Symbols
  /\ pending \in Seq(Symbols)
  /\ apiLock \in Seq(Tasks)
  /\ pc \in [Tasks -> Places]
  /\ job \in [Tasks -> Order \cup {NoJob}]
  /\ todo \in [Tasks -> SUBSET Symbols]
  /\ snap \in [Syncing -> [Symbols -> Nat]]
  /\ shares \in [Symbols -> Nat]
  /\ working \in [Symbols -> [Sides -> Nat]]
  /\ notices \in Seq(Notice)
  /\ phase \in {"open", "cutoff", "closing"}
  /\ buys \in Nat

(***************************************************************************)
(* An order that waits for the API lock is always visible to the           *)
(* has_pending_for guard of _process_signal (engine.py:298), whichever     *)
(* task submitted it, in whatever order the tasks are answered, and after  *)
(* the risk task has been cancelled in the middle of a submit.             *)
(***************************************************************************)
InFlightIsPending ==
  \A t \in Tasks : pc[t] \in Ordering => HasPendingFor(job[t].sym)

(***************************************************************************)
(* What _process_signal checked before it awaited the API is still true of *)
(* the position when the order is executed, up to what sync_positions may  *)
(* have found meanwhile: a SELL meets no position of another strategy, a   *)
(* BUY no position that a strategy opened (engine.py:315, 334).  The       *)
(* receive loop alone opens positions, and it is the one that waits.       *)
(***************************************************************************)
DecisionStands ==
  LET o == job["recv"]
  IN  pc["recv"] \in {"balance", "signal"} =>
        /\ o.side = "buy" => ~Held(mem, o.sym) \/ mem[o.sym].owner = "synced"
        /\ (o.side = "sell" /\ pc["recv"] = "signal") =>
              ~Held(mem, o.sym) \/ mem[o.sym].owner \in {"synced", o.by}

(***************************************************************************)
(* A position keeps its owner for as long as it is in memory: neither a    *)
(* sync, nor a fill notice, nor a further fill hands it to somebody else.  *)
(***************************************************************************)
OwnerKept ==
  [][\A s \in Symbols :
       Held(mem, s) /\ Held(mem', s) => mem'[s].owner = mem[s].owner]_vars

(***************************************************************************)
(* A symbol leaves the memory only with a block on buying it again (close  *)
(* cooldown, reject cooldown or untradeable), except when sync_positions   *)
(* finds it gone from the account.                                         *)
(***************************************************************************)
LeavesBlocked ==
  [][\A s \in Symbols :
       Held(mem, s) /\ ~Held(mem', s) =>
         \/ s \in closed' \cup rejected' \cup untradeable'
         \/ \E t \in Syncing : pc[t] = "merge" /\ pc'[t] # "merge"]_vars

(***************************************************************************)
(* The memory comes back to the account: for every symbol, again and again *)
(* the engine holds what the account holds, or has declared the symbol     *)
(* untradeable, however notices, snapshots and answers cross.              *)
(***************************************************************************)
MemoryConverges ==
  \A s \in Symbols : []<>(mem[s].qty = shares[s] \/ s \in untradeable)

(***************************************************************************)
(* A position to be closed is closed, unless its price recovers or the     *)
(* engine is stopped.                                                      *)
(***************************************************************************)
StopLossServed ==
  \A s \in Symbols :
    (running /\ Held(mem, s) /\ mem[s].exit)
       ~> (~running \/ ~Held(mem, s) \/ ~mem[s].exit)
=============================================================================
