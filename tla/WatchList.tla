------------------------------- MODULE WatchList -------------------------------
(***************************************************************************)
(* The symbols the stream is subscribed to, as rescans replace them while  *)
(* the engine trades: main._screening_loop and the dashboard's rescan      *)
(* request, which read the positions before a scan that takes seconds, and *)
(* the quant rescan loops of main and of the dashboard, which read them    *)
(* after it.  All then wait for update_subscriptions, which sends the peer *)
(* the difference to what the stream believed when it began, symbol by     *)
(* symbol, and sets what the stream believes at its end.                   *)
(*                                                                         *)
(* What a scan selects is Screening's subject; how an update of the        *)
(* subscriptions meets a broken socket and a reconnect is MarketStream's:  *)
(* here the socket is open.                                                *)
(***************************************************************************)
EXTENDS Naturals, FiniteSets

CONSTANTS
  Symbols,
  Scalpers,   \* rescans that read the positions first
  Quants,     \* rescans that read them after the candles
  MaxStocks,  \* max_stocks
  MaxOpen     \* max_open_positions

VARIABLES
  positions,   \* symbols in the engine's memory
  subscribed,  \* MarketDataStream._subscribed
  served,      \* symbols whose ticks arrive
  active,      \* TradingEngine._active_symbols
  task,        \* the rescans
  kept,        \* history: of what a rescan read as held, what was held ever since
  contested    \* history: symbols on which overlapping updates disagreed

vars == <<positions, subscribed, served, active, task, kept, contested>>

Tasks == Scalpers \cup Quants
Idle == [at |-> "idle", held |-> {}, target |-> {}, remove |-> {}, add |-> {}]

InitWith(symbols) ==
  /\ subscribed = symbols /\ served = symbols
  /\ active = {}
  /\ positions = {}
  /\ task = [t \in Tasks |-> Idle]
  /\ kept = [t \in Tasks |-> {}]
  /\ contested = {}

Init == \E symbols \in SUBSET Symbols \ {{}} : InitWith(symbols)

-----------------------------------------------------------------------------
\* a signal is raised by a tick or an orderbook, and these arrive only if subscribed
Buy(s) ==
  /\ s \in served \ positions /\ Cardinality(positions) < MaxOpen
  /\ positions' = positions \cup {s}
  /\ UNCHANGED <<subscribed, served, active, task, kept, contested>>

Sell(s) ==
  /\ s \in positions
  /\ positions' = positions \ {s}
  /\ kept' = [t \in Tasks |-> kept[t] \ {s}]
  /\ UNCHANGED <<subscribed, served, active, task, contested>>

\* sync_positions finds it in the account: bought by hand, or before a restart
Found(s) ==
  /\ s \notin positions
  /\ positions' = positions \cup {s}
  /\ UNCHANGED <<subscribed, served, active, task, kept, contested>>

-----------------------------------------------------------------------------
Begin(t) ==
  /\ task[t].at = "idle"
  /\ IF t \in Scalpers
     THEN /\ task' = [task EXCEPT ![t] = [Idle EXCEPT !.at = "scan", !.held = positions]]
          /\ kept' = [kept EXCEPT ![t] = positions]
     ELSE task' = [task EXCEPT ![t].at = "scan"] /\ UNCHANGED kept
  /\ UNCHANGED <<positions, subscribed, served, active, contested>>

(***************************************************************************)
(* The scan: what is held and the best others (Screening).  A quant rescan *)
(* that gets no market takes the active symbols for it, or nothing at all; *)
(* a scan without candidates selects what is held.                         *)
(***************************************************************************)
\* mutant: the quant rescan passes no held symbols
HeldForScalpers(t) == IF t \in Quants THEN {} ELSE task[t].held

HeldAtScan(t) == IF t \in Quants THEN positions ELSE task[t].held

\* mutant: the result is the new symbols alone
SelectionsReplacing(held, universe) ==
  {new \in SUBSET (universe \ held) : Cardinality(new) + Cardinality(held) <= MaxStocks}

Selections(held, universe) ==
  {held \cup new : new \in {n \in SUBSET (universe \ held) :
                              n = {} \/ Cardinality(n) + Cardinality(held) <= MaxStocks}}

Universes(t) == {Symbols} \cup (IF t \in Quants /\ active # {} THEN {active} ELSE {})

Over(t) ==
  /\ task' = [task EXCEPT ![t] = Idle]
  /\ kept' = [kept EXCEPT ![t] = {}]

\* the other rescans that are sending
Sending(t) == {u \in Tasks \ {t} : task[u].at = "send"}

\* on these one of them and an update to the symbols selected disagree
Disputed(t, selected) ==
  {s \in Symbols : \E u \in Sending(t) : (s \in task[u].target) # (s \in selected)}

\* update_subscriptions begins
Send(t, selected) ==
  /\ task' = [task EXCEPT ![t] = [at |-> "send", held |-> HeldAtScan(t), target |-> selected,
                                 remove |-> subscribed \ selected,
                                 add |-> selected \ subscribed]]
  /\ kept' = [kept EXCEPT ![t] = IF t \in Quants THEN positions ELSE @]
  /\ contested' = contested \cup Disputed(t, selected)
  /\ UNCHANGED active

\* update_symbols, which reads the positions again
Activate(selected) == active' = selected \cup positions

\* update_subscriptions returns at once if there is no difference
Scanned(t) ==
  /\ task[t].at = "scan"
  /\ \E universe \in Universes(t) :
       \E selected \in Selections(HeldAtScan(t), universe) :
         \/ selected = {} /\ Over(t) /\ UNCHANGED <<active, contested>>
         \/ selected \notin {{}, subscribed} /\ Send(t, selected)
         \/ selected # {} /\ selected = subscribed
            /\ Over(t) /\ Activate(selected) /\ UNCHANGED contested
  /\ UNCHANGED <<positions, subscribed, served>>

\* the scan, or the download before it, raises, or there is no market and nothing is
\* active: the loop goes on at its next turn
ScanFails(t) ==
  /\ task[t].at = "scan"
  /\ Over(t)
  /\ UNCHANGED <<positions, subscribed, served, active, contested>>

Unsubscribe(t, s) ==
  /\ s \in task[t].remove
  /\ task' = [task EXCEPT ![t].remove = @ \ {s}]
  /\ served' = served \ {s}
  /\ UNCHANGED <<positions, subscribed, active, kept, contested>>

Subscribe(t, s) ==
  /\ task[t].remove = {} /\ s \in task[t].add
  /\ task' = [task EXCEPT ![t].add = @ \ {s}]
  /\ served' = served \cup {s}
  /\ UNCHANGED <<positions, subscribed, active, kept, contested>>

\* the last subscription is sent.  A symbol that this update leaves out is no longer in
\* dispute, unless another one is under way: the next update that wants it will send it
Resubscribed(t) ==
  /\ task[t].at = "send" /\ task[t].remove = {} /\ task[t].add = {}
  /\ subscribed' = task[t].target
  /\ contested' = IF Sending(t) = {} THEN contested \cap task[t].target ELSE contested
  /\ Activate(task[t].target)
  /\ Over(t)
  /\ UNCHANGED <<positions, served>>

Update(t) ==
  \/ \E s \in Symbols : Unsubscribe(t, s) \/ Subscribe(t, s)
  \/ Resubscribed(t)

Rescan(t) == Begin(t) \/ Scanned(t) \/ Update(t)

Next ==
  \/ \E s \in Symbols : Buy(s) \/ Sell(s) \/ Found(s)
  \/ \E t \in Tasks : Rescan(t) \/ ScanFails(t)

\* a loop comes round again, and a scan succeeds sooner or later
Fairness == \A t \in Tasks : WF_vars(Begin(t)) /\ SF_vars(Scanned(t)) /\ WF_vars(Update(t))

Spec == Init /\ [][Next]_vars /\ Fairness

-----------------------------------------------------------------------------
TypeOK ==
  /\ positions \subseteq Symbols /\ active \subseteq Symbols
  /\ subscribed \subseteq Symbols /\ served \subseteq Symbols
  /\ task \in [Tasks -> [at : {"idle", "scan", "send"}, held : SUBSET Symbols,
                         target : SUBSET Symbols, remove : SUBSET Symbols,
                         add : SUBSET Symbols]]
  /\ kept \in [Tasks -> SUBSET Symbols] /\ contested \subseteq Symbols

(***************************************************************************)
(* No step of a rescan takes away a symbol that was held all the time      *)
(* since it read the positions, neither its ticks nor the stream's memory  *)
(* of it, however many rescans and their updates overlap: only what was    *)
(* bought, or found, during a rescan may lose them                         *)
(* (docs/01-plan/features/auto-screening.plan.md:45 FR-7; main.py:126-130, *)
(* 354-358, routes.py:537-549, 655-661, stream.py:327-356).                *)
(***************************************************************************)
HeldSinceStays ==
  [][\A t \in Tasks, s \in (served \ served') \cup (subscribed \ subscribed') :
       task'[t] # task[t] => s \notin kept[t]]_vars

(***************************************************************************)
(* What lost its ticks that way, or was found in the account, is watched   *)
(* again after another rescan, if it is still held, unless two updates of  *)
(* the subscriptions that overlapped disagreed on it: then the stream may  *)
(* believe to be subscribed to what the peer no longer sends, no           *)
(* difference shows it, and it stays so until an update leaves the symbol  *)
(* out (stream.py:327-356), or a reconnect.                                *)
(***************************************************************************)
HeldIsWatchedAgain ==
  \A s \in Symbols :
    (s \in positions) ~> (s \in served \/ s \notin positions \/ s \in contested)
=============================================================================
