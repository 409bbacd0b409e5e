-------------------------- MODULE OutstandingOrders --------------------------
(***************************************************************************)
(* What the engine relies on when it asks has_pending_for(symbol): a set   *)
(* of outstanding orders that an order enters when it is submitted and     *)
(* leaves when, and only when, the broker has answered it.  No queue, no   *)
(* positions, no rate limiter: OrderManager.tla shows that the deque of    *)
(* trading/order.py and the FIFO lock of broker/kis.py implement this.     *)
(***************************************************************************)
CONSTANTS Orders, Answers

VARIABLES
  outstanding,   \* orders submitted and not yet answered
  answer         \* what the broker said of an order, or "none"

avars == <<outstanding, answer>>

AInit ==
  /\ outstanding = {}
  /\ answer = [o \in Orders |-> "none"]

Place(o) ==
  /\ o \notin outstanding
  /\ answer[o] = "none"
  /\ outstanding' = outstanding \cup {o}
  /\ UNCHANGED answer

Resolve(o) ==
  /\ o \in outstanding
  /\ outstanding' = outstanding \ {o}
  /\ \E a \in Answers : answer' = [answer EXCEPT ![o] = a]

ANext == \E o \in Orders : Place(o) \/ Resolve(o)

ASpec == AInit /\ [][ANext]_avars
=============================================================================
