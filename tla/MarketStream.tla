---------------------------- MODULE MarketStream ----------------------------
(***************************************************************************)
(* data/stream.py (MarketDataStream) on a socket that may break.           *)
(*                                                                         *)
(* Three kinds of tasks touch the socket and the set of subscribed         *)
(* symbols: the one that starts or stops the stream, the receive loop,     *)
(* which also reconnects, and the rescan loops, which replace the          *)
(* subscriptions.  Each yields after every symbol it sends, and each reads *)
(* self._ws anew for every send.                                           *)
(*                                                                         *)
(* The two or three messages of one symbol (executions, order book, market *)
(* information) are one send: between them nobody but the peer can change  *)
(* the socket, and then all subscriptions of that socket are void.  The    *)
(* dashboard lets one start or stop run at a time (routes.py:573-576,      *)
(* 631-634).  The simulator, which has no socket, is left out.             *)
(***************************************************************************)
EXTENDS Naturals, FiniteSets

CONSTANTS
  Symbols,
  Updaters,   \* tasks that call update_subscriptions
  MaxBreaks   \* bound: how often the socket or a handler fails

ASSUME MaxBreaksAssumption == MaxBreaks \in Nat

VARIABLES
  running,     \* _running
  ws,          \* _ws: "none", "open", or "dead" (closed or closing)
  served,      \* what the peer sends on the open socket
  subscribed,  \* _subscribed
  caller,      \* start and stop: "down", "connect", "send", "up", "stopping"
  wanted,      \* symbols of the start in progress
  toStart,     \* those it has still to send
  recv,        \* where the receive loop waits: "none", "reading", "delay",
               \* "closing", "connect", "resubscribe"
  toResub,     \* symbols the reconnect has still to send
  upd,         \* update_subscriptions in progress, per updater
  overlap,     \* history: the socket's subscriptions were written by two tasks at once
  breaks

vars == <<running, ws, served, subscribed, caller, wanted, toStart, recv, toResub,
          upd, overlap, breaks>>
startVars == <<caller, wanted, toStart>>
recvVars == <<recv, toResub>>

Idle == [busy |-> FALSE, target |-> {}, remove |-> {}, add |-> {}]
Update == [busy : BOOLEAN, target : SUBSET Symbols, remove : SUBSET Symbols, add : SUBSET Symbols]

Updating == \E u \in Updaters : upd[u].busy
Resubscribing == recv = "resubscribe" \/ caller = "send"

\* a subscribe message reaches the peer only on an open socket
Sent(s) == IF ws = "open" THEN served \cup {s} ELSE served

Init ==
  /\ running = FALSE
  /\ ws = "none"
  /\ served = {}
  /\ subscribed = {}
  /\ caller = "down" /\ wanted = {} /\ toStart = {}
  /\ recv = "none" /\ toResub = {}
  /\ upd = [u \in Updaters |-> Idle]
  /\ overlap = FALSE
  /\ breaks = 0

-----------------------------------------------------------------------------
(***************************************************************************)
(* start, also over a stream that is up.                                   *)
(***************************************************************************)
\* from "up": the dashboard starts a stream that main started by itself
\* (main.py:234).  The receive loop is cancelled; the old socket stays in _ws
\* until the new one replaces it
Start(S) ==
  /\ caller \in {"down", "up"}
  /\ caller' = "connect"
  /\ wanted' = S
  /\ recv' = "none" /\ toResub' = {}
  /\ UNCHANGED <<running, ws, served, subscribed, toStart, upd, overlap, breaks>>

StartConnected ==
  /\ caller = "connect"
  /\ caller' = "send"
  /\ ws' = "open" /\ served' = {}
  /\ running' = TRUE
  /\ toStart' = wanted
  /\ overlap' = Updating
  /\ UNCHANGED <<subscribed, wanted, recvVars, upd, breaks>>

StartSend(s) ==
  /\ caller = "send" /\ ws = "open"
  /\ s \in toStart
  /\ toStart' = toStart \ {s}
  /\ served' = Sent(s)
  /\ UNCHANGED <<running, ws, subscribed, caller, wanted, recvVars, upd, overlap, breaks>>

\* an exception leaves start: no connection, or the socket breaks meanwhile
StartFails ==
  /\ \/ caller = "connect" /\ breaks < MaxBreaks /\ breaks' = breaks + 1
     \/ caller = "send" /\ ws # "open" /\ toStart # {} /\ UNCHANGED breaks
  /\ caller' = "down" /\ wanted' = {} /\ toStart' = {}
  /\ UNCHANGED <<running, ws, served, subscribed, recvVars, upd, overlap>>

Started ==
  /\ caller = "send" /\ toStart = {}
  /\ caller' = "up" /\ wanted' = {}
  /\ subscribed' = wanted
  /\ recv' = "reading"
  /\ UNCHANGED <<running, ws, served, toStart, toResub, upd, overlap, breaks>>

-----------------------------------------------------------------------------
(***************************************************************************)
(* stop: the receive loop is cancelled wherever it waits, the socket       *)
(* closed.                                                                 *)
(***************************************************************************)
\* mutant: the receive loop is left to find out by itself
StopNotCancelling ==
  /\ caller = "up"
  /\ caller' = "stopping"
  /\ running' = FALSE
  /\ ws' = (IF ws = "none" THEN "none" ELSE "dead") /\ served' = {}
  /\ UNCHANGED <<subscribed, wanted, toStart, recvVars, upd, overlap, breaks>>

Stop ==
  /\ caller = "up"
  /\ caller' = "stopping"
  /\ running' = FALSE
  /\ recv' = "none" /\ toResub' = {}
  /\ ws' = (IF ws = "none" THEN "none" ELSE "dead") /\ served' = {}
  /\ UNCHANGED <<subscribed, wanted, toStart, upd, overlap, breaks>>

Stopped ==
  /\ caller = "stopping"
  /\ caller' = "down"
  /\ ws' = "none"
  /\ UNCHANGED <<running, served, subscribed, wanted, toStart, recvVars, upd, overlap, breaks>>

-----------------------------------------------------------------------------
(***************************************************************************)
(* The receive loop.                                                       *)
(***************************************************************************)
\* the socket is closed under it, or a handler raises
RecvBroken ==
  /\ recv = "reading"
  /\ \/ ws # "open" /\ UNCHANGED breaks
     \/ ws = "open" /\ breaks < MaxBreaks /\ breaks' = breaks + 1
  /\ recv' = IF running THEN "delay" ELSE "none"
  /\ UNCHANGED <<running, ws, served, subscribed, startVars, toResub, upd, overlap>>

\* after the delay: close what is left of the socket
RecvCloses ==
  /\ recv = "delay"
  /\ IF ws = "none" THEN recv' = "connect" /\ UNCHANGED ws
     ELSE recv' = "closing" /\ ws' = "dead"
  /\ served' = {}
  /\ UNCHANGED <<running, subscribed, startVars, toResub, upd, overlap, breaks>>

RecvClosed ==
  /\ recv = "closing"
  /\ recv' = "connect"
  /\ ws' = "none"
  /\ UNCHANGED <<running, served, subscribed, startVars, toResub, upd, overlap, breaks>>

\* mutant: the reconnect subscribes to nothing
RecvConnectedOnly ==
  /\ recv = "connect"
  /\ recv' = "resubscribe"
  /\ ws' = "open" /\ served' = {}
  /\ toResub' = {}
  /\ overlap' = Updating
  /\ UNCHANGED <<running, subscribed, startVars, upd, breaks>>

\* the loop below iterates over the set object _subscribed refers to now
RecvConnected ==
  /\ recv = "connect"
  /\ recv' = "resubscribe"
  /\ ws' = "open" /\ served' = {}
  /\ toResub' = subscribed
  /\ overlap' = Updating
  /\ UNCHANGED <<running, subscribed, startVars, upd, breaks>>

RecvSend(s) ==
  /\ recv = "resubscribe" /\ ws = "open"
  /\ s \in toResub
  /\ toResub' = toResub \ {s}
  /\ served' = Sent(s)
  /\ UNCHANGED <<running, ws, subscribed, startVars, recv, upd, overlap, breaks>>

\* mutant: an exception ends the loop
RecvFailsForGood ==
  /\ \/ recv = "connect" /\ breaks < MaxBreaks /\ breaks' = breaks + 1
     \/ recv = "resubscribe" /\ ws # "open" /\ toResub # {} /\ UNCHANGED breaks
  /\ recv' = "none" /\ toResub' = {}
  /\ UNCHANGED <<running, ws, served, subscribed, startVars, upd, overlap>>

\* no connection, or it breaks again: once more from the delay.  Without a
\* socket the loop's next read raises, with a broken one too
RecvFails ==
  /\ \/ recv = "connect" /\ breaks < MaxBreaks /\ breaks' = breaks + 1
     \/ recv = "resubscribe" /\ ws # "open" /\ toResub # {} /\ UNCHANGED breaks
  /\ recv' = "delay" /\ toResub' = {}
  /\ UNCHANGED <<running, ws, served, subscribed, startVars, upd, overlap>>

RecvResubscribed ==
  /\ recv = "resubscribe" /\ toResub = {}
  /\ recv' = "reading"
  /\ UNCHANGED <<running, ws, served, subscribed, startVars, toResub, upd, overlap, breaks>>

-----------------------------------------------------------------------------
(***************************************************************************)
(* update_subscriptions.  The difference is taken before the first send;   *)
(* failed sends are logged and forgotten.                                  *)
(***************************************************************************)
Difference(new) ==
  [busy |-> TRUE, target |-> new, remove |-> subscribed \ new, add |-> new \ subscribed]

UpdateBegin(u, new) ==
  /\ ~upd[u].busy
  /\ new # subscribed
  /\ IF ws = "none"
     THEN subscribed' = new /\ UNCHANGED <<upd, overlap>>
     ELSE /\ upd' = [upd EXCEPT ![u] = Difference(new)]
          /\ overlap' = (overlap \/ Updating \/ Resubscribing)
          /\ UNCHANGED subscribed
  /\ UNCHANGED <<running, ws, served, startVars, recvVars, breaks>>

UpdateRemove(u, s) ==
  /\ s \in upd[u].remove
  /\ upd' = [upd EXCEPT ![u].remove = @ \ {s}]
  /\ served' = served \ {s}
  /\ UNCHANGED <<running, ws, subscribed, startVars, recvVars, overlap, breaks>>

UpdateAdd(u, s) ==
  /\ upd[u].remove = {} /\ s \in upd[u].add
  /\ upd' = [upd EXCEPT ![u].add = @ \ {s}]
  /\ served' = Sent(s)
  /\ UNCHANGED <<running, ws, subscribed, startVars, recvVars, overlap, breaks>>

\* mutant: set([new_symbols]) for set(new_symbols)
UpdateEndNested(u) ==
  /\ upd[u].busy /\ upd[u].remove = {} /\ upd[u].add = {}
  /\ subscribed' = {upd[u].target}
  /\ upd' = [upd EXCEPT ![u] = Idle]
  /\ UNCHANGED <<running, ws, served, startVars, recvVars, overlap, breaks>>

UpdateEnd(u) ==
  /\ upd[u].busy /\ upd[u].remove = {} /\ upd[u].add = {}
  /\ subscribed' = upd[u].target
  /\ upd' = [upd EXCEPT ![u] = Idle]
  /\ UNCHANGED <<running, ws, served, startVars, recvVars, overlap, breaks>>

-----------------------------------------------------------------------------
\* the peer or the network closes the socket
Break ==
  /\ ws = "open" /\ breaks < MaxBreaks
  /\ ws' = "dead" /\ served' = {}
  /\ breaks' = breaks + 1
  /\ UNCHANGED <<running, subscribed, startVars, recvVars, upd, overlap>>

Starting ==
  \/ \E S \in SUBSET Symbols \ {{}} : Start(S)
  \/ StartConnected \/ StartFails \/ Started
  \/ \E s \in Symbols : StartSend(s)

Receiving ==
  \/ RecvBroken \/ RecvCloses \/ RecvClosed \/ RecvConnected \/ RecvFails \/ RecvResubscribed
  \/ \E s \in Symbols : RecvSend(s)

Rescanning(u) ==
  \/ \E s \in Symbols : UpdateRemove(u, s) \/ UpdateAdd(u, s)
  \/ UpdateEnd(u)

Next ==
  \/ Starting
  \/ Stop
  \/ Stopped
  \/ Receiving
  \/ \E u \in Updaters :
        Rescanning(u) \/ \E new \in SUBSET Symbols \ {{}} : UpdateBegin(u, new)
  \/ Break

(***************************************************************************)
(* The event loop runs what is ready, and sleeps, connects and closes end. *)
(* Nobody need start, stop or rescan.                                      *)
(***************************************************************************)
Fairness ==
  /\ WF_vars(Receiving)
  /\ WF_vars(Stopped)
  /\ \A u \in Updaters : WF_vars(Rescanning(u))

Safe == Init /\ [][Next]_vars
Spec == Safe /\ Fairness
-----------------------------------------------------------------------------
TypeOK ==
  /\ running \in BOOLEAN
  /\ ws \in {"none", "open", "dead"}
  /\ served \subseteq Symbols
  /\ subscribed \subseteq Symbols
  /\ caller \in {"down", "connect", "send", "up", "stopping"}
  /\ wanted \subseteq Symbols
  /\ toStart \subseteq Symbols
  /\ recv \in {"none", "reading", "delay", "closing", "connect", "resubscribe"}
  /\ toResub \subseteq Symbols
  /\ upd \in [Updaters -> Update]
  /\ overlap \in BOOLEAN
  /\ breaks \in Nat

(***************************************************************************)
(* What the peer sends is what the stream believes to be subscribed to,    *)
(* whenever the receive loop reads from an open socket and no update is in *)
(* progress: updates, reconnects and restarts may come in any order.  Only *)
(* an update that overlaps another one, a reconnect or a start breaks it,  *)
(* and the next reconnect repairs it (stream.py:229, 327-356).             *)
(***************************************************************************)
InStep ==
  (~overlap /\ ~Updating /\ recv = "reading" /\ ws = "open") => served = subscribed

(***************************************************************************)
(* Once stop has returned nothing reads and nothing reconnects, whatever   *)
(* the receive loop was doing when it was called (stream.py:373-386).      *)
(***************************************************************************)
StopIsFinal ==
  (caller \in {"down", "connect"} /\ ~running) => recv = "none" /\ ws = "none"

(***************************************************************************)
(* A stream that is up comes back, as long as it is not stopped and        *)
(* failures cease: to an open socket that is read, and, unless an update   *)
(* overlapped, with every symbol it should have (stream.py:188-239).       *)
(***************************************************************************)
ComesBack ==
  (caller = "up") ~>
     \/ caller # "up"
     \/ recv = "reading" /\ ws = "open" /\ (overlap \/ served = subscribed)
=============================================================================
