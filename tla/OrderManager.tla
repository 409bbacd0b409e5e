---------------------------- MODULE OrderManager ----------------------------
(***************************************************************************)
(* trading/order.py (OrderManager) on top of the order path of             *)
(* broker/kis.py (KISBroker.place_order and _throttle).                    *)
(*                                                                         *)
(* submit() appends the order to a deque, awaits the broker and then drops *)
(* the LEFT end of the deque, whichever order stands there.  That is the   *)
(* right order only because place_order waits on an asyncio.Lock, whose    *)
(* waiters are served in arrival order, and continues from the lock to the *)
(* synchronous API call and back to popleft() without yielding.            *)
(*                                                                         *)
(* The tasks that wait are the engine's receive, risk, sync and dashboard  *)
(* tasks.  Two things may break the pairing, and `Faults' says which of    *)
(* them the environment may do:                                            *)
(*   "cancel"     - the waiting task is cancelled (stop_background_loops,  *)
(*                  _cleanup_recv_task): submit() has no try/finally, so   *)
(*                  the deque keeps an entry nobody will remove;           *)
(*   "disconnect" - the broker is disconnected, and place_order answers at *)
(*                  once, ahead of the orders still waiting on the lock.   *)
(* Balance, sync and cancel calls share the lock but do not reorder the    *)
(* orders, so they are left out here.                                      *)
(***************************************************************************)
EXTENDS Naturals, FiniteSets, SequencesExt

CONSTANTS
  Orders,     \* the Order objects the tasks create
  Symbols,
  SymbolOf,   \* the symbol of each order
  Faults      \* subset of {"cancel", "disconnect"}

ASSUME SymbolsAssumption == SymbolOf \in [Orders -> Symbols]
ASSUME FaultsAssumption == Faults \subseteq {"cancel", "disconnect"}

VARIABLES
  connected,  \* KISBroker._connected
  apiLock,    \* orders whose place_order waits on _api_lock, oldest first
  pending,    \* OrderManager._pending
  status,     \* "new", "submitted", an answer, or "cancelled"
  overtaken   \* history: an order was refused at once ahead of waiting ones

vars == <<connected, apiLock, pending, status, overtaken>>

Answers == {"filled", "rejected"}
Statuses == {"new", "submitted", "cancelled"} \cup Answers

InFlight == {o \in Orders : status[o] = "submitted"}
Cancelled == {o \in Orders : status[o] = "cancelled"}

(***************************************************************************)
(* The deque.                                                              *)
(***************************************************************************)
HasPendingFor(sym) == \E i \in 1..Len(pending) : SymbolOf[pending[i]] = sym

\* mutant: pop() for popleft()
PopNewest(q) == Front(q)

PopLeft(q) == Tail(q)

-----------------------------------------------------------------------------
Init ==
  /\ connected = TRUE
  /\ apiLock = <<>>
  /\ pending = <<>>
  /\ status = [o \in Orders |-> "new"]
  /\ overtaken = FALSE

\* mutant: the symbol is appended, not the order
SubmitSymbolOnly(o) ==
  /\ connected
  /\ status[o] = "new"
  /\ pending' = Append(pending, SymbolOf[o])
  /\ apiLock' = Append(apiLock, o)
  /\ status' = [status EXCEPT ![o] = "submitted"]
  /\ UNCHANGED <<connected, overtaken>>

\* submit() up to the wait on the API lock
Submit(o) ==
  /\ connected
  /\ status[o] = "new"
  /\ pending' = Append(pending, o)
  /\ apiLock' = Append(apiLock, o)
  /\ status' = [status EXCEPT ![o] = "submitted"]
  /\ UNCHANGED <<connected, overtaken>>

\* submit() while disconnected: append, immediate rejection, popleft, no await
SubmitOffline(o) ==
  /\ ~connected
  /\ status[o] = "new"
  /\ pending' = PopLeft(Append(pending, o))
  /\ status' = [status EXCEPT ![o] = "rejected"]
  /\ overtaken' = (overtaken \/ apiLock # <<>>)
  /\ UNCHANGED <<connected, apiLock>>

\* mutant: a rejection returns before the popleft
AnswerRejectionKept(o) ==
  /\ apiLock # <<>>
  /\ o = Head(apiLock)
  /\ apiLock' = Tail(apiLock)
  /\ \E a \in Answers :
        /\ status' = [status EXCEPT ![o] = a]
        /\ pending' = IF a = "filled" THEN PopLeft(pending) ELSE pending
  /\ UNCHANGED <<connected, overtaken>>

\* the lock's oldest waiter runs: API call, answer, popleft.  A broker that
\* was disconnected in the meantime has no _api: the call raises inside the
\* try block and the order is rejected
Answer(o) ==
  /\ apiLock # <<>>
  /\ o = Head(apiLock)
  /\ apiLock' = Tail(apiLock)
  /\ pending' = PopLeft(pending)
  /\ \E a \in (IF connected THEN Answers ELSE {"rejected"}) :
        status' = [status EXCEPT ![o] = a]
  /\ UNCHANGED <<connected, overtaken>>

\* mutant: the popleft moved into a finally block
CancelPopsLeft(i) ==
  /\ "cancel" \in Faults
  /\ i \in 1..Len(apiLock)
  /\ apiLock' = RemoveAt(apiLock, i)
  /\ pending' = PopLeft(pending)
  /\ status' = [status EXCEPT ![apiLock[i]] = "cancelled"]
  /\ UNCHANGED <<connected, overtaken>>

\* CancelledError leaves place_order and submit: the popleft is skipped
Cancel(i) ==
  /\ "cancel" \in Faults
  /\ i \in 1..Len(apiLock)
  /\ apiLock' = RemoveAt(apiLock, i)
  /\ status' = [status EXCEPT ![apiLock[i]] = "cancelled"]
  /\ UNCHANGED <<connected, pending, overtaken>>

Disconnect ==
  /\ "disconnect" \in Faults
  /\ connected
  /\ connected' = FALSE
  /\ UNCHANGED <<apiLock, pending, status, overtaken>>

Connect ==
  /\ ~connected
  /\ connected' = TRUE
  /\ UNCHANGED <<apiLock, pending, status, overtaken>>

Next ==
  \/ \E o \in Orders : Submit(o) \/ SubmitOffline(o) \/ Answer(o)
  \/ \E i \in 1..Len(apiLock) : Cancel(i)
  \/ Disconnect
  \/ Connect

\* the event loop runs the lock's oldest waiter once the API gap has elapsed
Fairness == \A o \in Orders : WF_vars(Answer(o))

Safe == Init /\ [][Next]_vars
Spec == Safe /\ Fairness
-----------------------------------------------------------------------------
TypeOK ==
  /\ connected \in BOOLEAN
  /\ apiLock \in Seq(Orders)
  /\ pending \in Seq(Orders)
  /\ status \in [Orders -> Statuses]
  /\ overtaken \in BOOLEAN

(***************************************************************************)
(* Every popleft finds an entry, and every entry that outlives its order   *)
(* is the doing of a cancelled submit(): the deque is as long as the       *)
(* orders in flight plus the orders cancelled in flight (order.py:36-37).  *)
(***************************************************************************)
PendingAccounting ==
  Len(pending) = Len(apiLock) + Cardinality(Cancelled)

(***************************************************************************)
(* has_pending_for never misses an order in flight, even though popleft    *)
(* may drop the entry of another order and cancelled orders leave entries  *)
(* behind: the entries dropped too early are always those of older orders. *)
(* The guard of engine.py:298 relies on it.  Only an immediate answer      *)
(* while disconnected can break it.                                        *)
(***************************************************************************)
InFlightIsPending ==
  ~overtaken =>
    \A o \in InFlight : HasPendingFor(SymbolOf[o])

(***************************************************************************)
(* A symbol is never blocked for good: whatever has_pending_for holds      *)
(* against a symbol goes away.  True only while nobody is cancelled.       *)
(***************************************************************************)
NeverBlockedForGood ==
  \A s \in Symbols : HasPendingFor(s) ~> ~HasPendingFor(s)

(***************************************************************************)
(* The deque as an implementation of the set of outstanding orders.        *)
(***************************************************************************)
Abstract == INSTANCE OutstandingOrders WITH
  outstanding <- {pending[i] : i \in 1..Len(pending)},
  answer <- [o \in Orders |-> IF status[o] \in Answers THEN status[o] ELSE "none"]

(***************************************************************************)
(* With nobody cancelled and the broker connected, popping the left end is *)
(* the same as removing the order that was answered (order.py:36-37).      *)
(***************************************************************************)
ImplementsOutstandingOrders == Abstract!ASpec
=============================================================================
