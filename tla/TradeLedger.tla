----------------------------- MODULE TradeLedger -----------------------------
(***************************************************************************)
(* The executions of the day on their way from the exchange into the       *)
(* table trades: KISBroker._fetch_daily_ccld and                           *)
(* TradeRepository.sync_trades.                                            *)
(*                                                                         *)
(* They are fetched by a loop (main.py) and, after every order.filled      *)
(* event, by a task of its own (routes.py).  All of them share the         *)
(* broker's memory of the last first page, and wait between reading it,    *)
(* asking the exchange and applying the answer.                            *)
(*                                                                         *)
(* Orders are numbered in the order of their time; what the ledger says of *)
(* one is how much of it was executed.  Profit is ProfitMatching's.        *)
(***************************************************************************)
EXTENDS Integers, Sequences, FiniteSets, Functions

CONSTANTS
  Tasks,      \* the loop, and the tasks that may fetch after events at the same time
  Loop,
  OrderQty,   \* quantity of every order
  PageSize,   \* orders on a page of the exchange's answer
  MaxPages,   \* range(10)
  MaxOrders,  \* bound: orders of the day
  MaxShares,  \* bound: shares executed in the day
  MaxFaults   \* bound: lost notices, failed requests, failed writes

VARIABLES
  book,     \* at the exchange: what was executed of each order
  rows,     \* in the database: tot_ccld_qty of each order, 0 if it has no row
  count,    \* _last_ccld_first_page
  hasNext,  \* _last_ccld_has_next
  task,     \* the fetches
  basis,    \* history: the book behind count and hasNext
  lost,     \* history: orders whose row could not be written
  faults

vars == <<book, rows, count, hasNext, task, basis, lost, faults>>

DayOrders == 1 .. MaxOrders
Qtys == 0 .. OrderQty

Nothing == [i \in DayOrders |-> 0]
Idle == [at |-> "idle", page |-> 0, cursor |-> 0, snap |-> <<>>, items |-> Nothing,
         overlap |-> FALSE]

(***************************************************************************)
(* A page: the newest orders older than the cursor (external).             *)
(***************************************************************************)
Top(b, cursor) == IF cursor = 0 THEN Len(b) ELSE cursor - 1
Page(b, cursor) == {i \in 1 .. Top(b, cursor) : i > Top(b, cursor) - PageSize}
More(b, cursor) == Top(b, cursor) > PageSize

\* mutant: the shortcut is taken although there are more pages
UnchangedAlsoBehind(b) == Cardinality(Page(b, 0)) = count /\ More(b, 0) = hasNext

\* the shortcut: as many orders as last time, and all on the first page
Unchanged(b) == Cardinality(Page(b, 0)) = count /\ More(b, 0) = hasNext /\ ~More(b, 0)

Init ==
  /\ book = <<>> /\ rows = Nothing
  /\ count = -1 /\ hasNext = FALSE
  /\ task = [t \in Tasks |-> Idle]
  /\ basis = <<>> /\ lost = {} /\ faults = 0

-----------------------------------------------------------------------------
(***************************************************************************)
(* The exchange.  An accepted order and a notice of execution both raise   *)
(* order.filled, whose handler creates a task (_on_order_filled): bound,   *)
(* as many at once as there are Tasks.  A notice may be lost with the      *)
(* socket.                                                                 *)
(***************************************************************************)
\* _sync_trades_now: the memory is reset before the wait
EventFetch ==
  \E t \in Tasks \ {Loop} :
    /\ task[t].at = "idle"
    /\ task' = [task EXCEPT ![t].at = "wait"]
    /\ count' = -1

Place ==
  /\ Len(book) < MaxOrders
  /\ book' = Append(book, 0)
  /\ EventFetch
  /\ UNCHANGED <<rows, hasNext, basis, lost, faults>>

Execute(i) ==
  /\ i \in DOMAIN book /\ book[i] < OrderQty /\ SumFunction(book) < MaxShares
  /\ book' = [book EXCEPT ![i] = @ + 1]
  /\ \/ EventFetch /\ UNCHANGED faults
     \/ faults < MaxFaults /\ faults' = faults + 1 /\ UNCHANGED <<count, task>>
  /\ UNCHANGED <<rows, hasNext, basis, lost>>

-----------------------------------------------------------------------------
(***************************************************************************)
(* A fetch waits for the API lock, is answered, and reads the answer.      *)
(***************************************************************************)
LoopBegins ==
  /\ task[Loop].at = "idle"
  /\ task' = [task EXCEPT ![Loop].at = "wait"]
  /\ UNCHANGED <<book, rows, count, hasNext, basis, lost, faults>>

Ask(t) ==
  /\ task[t].at = "wait"
  /\ task' = [task EXCEPT ![t].at = "asked", ![t].snap = book]
  /\ UNCHANGED <<book, rows, count, hasNext, basis, lost, faults>>

\* the memory after a first page
Remember(t) ==
  IF task[t].page = 0
  THEN LET b == task[t].snap
       IN count' = Cardinality(Page(b, 0)) /\ hasNext' = More(b, 0) /\ basis' = b
  ELSE UNCHANGED <<count, hasNext, basis>>

Skips(t) == task[t].page = 0 /\ Unchanged(task[t].snap)

\* everything read so far, with the answer at hand
Items(t) ==
  [i \in DayOrders |-> IF i \in Page(task[t].snap, task[t].cursor) THEN task[t].snap[i]
                    ELSE task[t].items[i]]

LastPage(t) == ~More(task[t].snap, task[t].cursor) \/ task[t].page + 1 >= MaxPages

Skip(t) ==
  /\ task[t].at = "asked" /\ Skips(t)
  /\ task' = [task EXCEPT ![t] = Idle]
  /\ UNCHANGED <<book, rows, count, hasNext, basis, lost, faults>>

NextPage(t) ==
  /\ task[t].at = "asked" /\ ~Skips(t) /\ ~LastPage(t)
  /\ Remember(t)
  /\ task' = [task EXCEPT ![t].at = "wait", ![t].page = @ + 1, ![t].items = Items(t),
                          ![t].cursor = Top(task[t].snap, @) - PageSize + 1]
  /\ UNCHANGED <<book, rows, lost, faults>>

(***************************************************************************)
(* sync_trades: orders without an execution were left out by               *)
(* _parse_ccld_trades; the others are inserted, or updated whenever the    *)
(* quantity differs.  No wait between the last answer and the commit.      *)
(***************************************************************************)
\* mutant: only new orders are written
SyncInserting(items) ==
  rows' = [i \in DayOrders |-> IF items[i] > 0 /\ rows[i] = 0 THEN items[i] ELSE rows[i]]

Sync(items) == rows' = [i \in DayOrders |-> IF items[i] > 0 THEN items[i] ELSE rows[i]]

Differ(items) == {i \in DayOrders : items[i] > 0 /\ items[i] # rows[i]}

\* mutant: the list of items outlives the fetch
EndKeepingItems(t) ==
  task' = [u \in Tasks |-> IF u = t THEN [Idle EXCEPT !.items = Items(t)]
                           ELSE IF task[u].at = "idle" THEN task[u]
                           ELSE [task[u] EXCEPT !.overlap = TRUE]]

End(t) ==
  task' = [u \in Tasks |-> IF u = t \/ task[u].at = "idle" THEN Idle
                           ELSE [task[u] EXCEPT !.overlap = TRUE]]

\* the rows that are written, or, when the database refuses, none of them
Store(items) ==
  \/ Sync(items) /\ lost' = lost \ {i \in DayOrders : items[i] > 0} /\ UNCHANGED faults
  \/ faults < MaxFaults /\ faults' = faults + 1
     /\ lost' = lost \cup Differ(items) /\ UNCHANGED rows

Finish(t) ==
  /\ task[t].at = "asked" /\ ~Skips(t) /\ LastPage(t)
  /\ Remember(t)
  /\ Store(Items(t))
  /\ End(t)
  /\ UNCHANGED book

\* an error answer ends the paging and what was read is stored; an exception
\* ends the fetch
AskFails(t) ==
  /\ task[t].at = "asked" /\ faults < MaxFaults
  /\ \/ Sync(task[t].items) /\ End(t)
     \/ task' = [task EXCEPT ![t] = Idle] /\ UNCHANGED rows
  /\ faults' = faults + 1
  /\ UNCHANGED <<book, count, hasNext, basis, lost>>

-----------------------------------------------------------------------------
Progress(t) == Ask(t) \/ Skip(t) \/ NextPage(t) \/ Finish(t)

Next ==
  \/ Place
  \/ \E i \in DayOrders : Execute(i)
  \/ LoopBegins
  \/ \E t \in Tasks : Progress(t) \/ AskFails(t)

\* the loop comes round every minute; requests have a timeout
Fairness ==
  /\ WF_vars(LoopBegins)
  /\ \A t \in Tasks : WF_vars(Progress(t))

Spec == Init /\ [][Next]_vars /\ Fairness

-----------------------------------------------------------------------------
TypeOK ==
  /\ book \in UNION {[1 .. n -> Qtys] : n \in 0 .. MaxOrders}
  /\ rows \in [DayOrders -> Qtys]
  /\ count \in -1 .. PageSize /\ hasNext \in BOOLEAN
  /\ \A t \in Tasks : /\ task[t].at \in {"idle", "wait", "asked"}
                      /\ task[t].page \in 0 .. MaxPages - 1
                      /\ task[t].cursor \in 0 .. MaxOrders
                      /\ task[t].items \in [DayOrders -> Qtys]
  /\ lost \subseteq DayOrders /\ faults \in 0 .. MaxFaults

(***************************************************************************)
(* The shortcut of kis.py:445-447 forgets nothing that was there when the  *)
(* page it compares with was read: if a fetch would be skipped now, an     *)
(* execution that is not recorded came after that page, or the database    *)
(* refused it.  What tasks that overlap remember and write, in whatever    *)
(* order, must not break this.                                             *)
(***************************************************************************)
SkipIsSound ==
  (Unchanged(book) /\ \A t \in Tasks : task[t].at = "idle") =>
     \A i \in DOMAIN book : rows[i] = book[i] \/ book[i] # basis[i] \/ i \in lost

(***************************************************************************)
(* A recorded quantity goes back only when an older answer is applied      *)
(* after a newer one (repository.py:97-110 updates whatever differs),      *)
(* which takes two fetches that overlapped.                                *)
(***************************************************************************)
BackOnlyByOverlap ==
  [][(\E i \in DayOrders : rows'[i] < rows[i]) =>
        \E t \in Tasks : task[t].overlap /\ task'[t].at = "idle"]_vars

\* the orders that a fetch gets to see: the newest, MaxPages pages of them
Reached(b) == {i \in DOMAIN b : i > Len(b) - MaxPages * PageSize}

(***************************************************************************)
(* Once the orders do not fit on one page the shortcut is never taken, and *)
(* every execution gets into the database, whatever was lost or refused on *)
(* the way (kis.py:445, "not has_next"), unless so many orders came after  *)
(* its own that no page within the limit shows it any more (kis.py:421).   *)
(***************************************************************************)
LongListsRecorded ==
  \A i \in DayOrders :
    (Len(book) > PageSize /\ i \in DOMAIN book /\ rows[i] < book[i])
      ~> (i \in DOMAIN book /\ (rows[i] = book[i] \/ i \notin Reached(book)))

(***************************************************************************)
(* docs/01-plan/features/scalpy-mvp.plan.md:101 (FR-12): executions are    *)
(* stored in the database.                                                 *)
(***************************************************************************)
Recorded == \A i \in DayOrders :
  (i \in DOMAIN book /\ rows[i] < book[i]) ~> (i \in DOMAIN book /\ rows[i] = book[i])
=============================================================================
