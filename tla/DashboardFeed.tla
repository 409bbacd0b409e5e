---------------------------- MODULE DashboardFeed ----------------------------
(***************************************************************************)
(* How the dashboards follow the program: events/bus.py, dashboard/state.py*)
(* and dashboard/sse.py, with the snapshots of dashboard/routes.py.        *)
(*                                                                         *)
(* An event is handled at once, by its subscribers in the order in which   *)
(* they subscribed: the dashboard's own state (main.py), the event stream  *)
(* (SSEManager), the snapshot (init_routes).  The last two put a message   *)
(* into the queue of every client; a client takes them out when its        *)
(* connection is ready.                                                    *)
(*                                                                         *)
(* A snapshot is built from three sources, which change separately, with   *)
(* or without an event: the engine's memory, the dashboard's state, and    *)
(* the table of the day's trades.  Each is a version that counts its       *)
(* changes.                                                                *)
(***************************************************************************)
EXTENDS Naturals, Sequences, SequencesExt

CONSTANTS
  Clients,
  MaxEvents  \* bound: events, snapshots without event, changes without event

Sources == {"memory", "state", "trades"}

VARIABLES
  version,  \* of every source, as it is now
  queue,    \* _queues: a client's messages
  client,   \* stream(): "none", "waiting" in q.get, "sending" (in yield), "over"
  stopped,  \* _stopped
  shown,    \* the last snapshot that reached the client's page
  sent,     \* history: messages since the client came
  received, \* history: messages that reached its page
  stale,    \* history: sources that changed since the last snapshot, or were not
            \* read for it
  steps

vars == <<version, queue, client, stopped, shown, sent, received, stale, steps>>
conn == <<client, shown, received>>

Nothing == [src \in Sources |-> 0]
Event(n) == [kind |-> "event", snap |-> Nothing, number |-> n]
\* what could not be read counts as nothing
Snapshot(v, unread) ==
  [kind |-> "state", number |-> 0,
   snap |-> [src \in Sources |-> IF src \in unread THEN 0 ELSE v[src]]]
Poison == [kind |-> "stop", snap |-> Nothing, number |-> 0]

Init ==
  /\ version = Nothing
  /\ queue = [c \in Clients |-> <<>>]
  /\ client = [c \in Clients |-> "none"]
  /\ stopped = FALSE
  /\ shown = [c \in Clients |-> Nothing]
  /\ sent = [c \in Clients |-> <<>>] /\ received = [c \in Clients |-> <<>>]
  /\ stale = {} /\ steps = 0

Connected(c) == client[c] \in {"waiting", "sending"}

\* put_nowait into every queue; the queues have no limit
Put(msgs) ==
  /\ queue' = [c \in Clients |-> IF Connected(c) THEN queue[c] \o msgs ELSE queue[c]]
  /\ sent' = [c \in Clients |-> IF Connected(c) THEN sent[c] \o msgs ELSE sent[c]]

Step == steps < MaxEvents /\ steps' = steps + 1

-----------------------------------------------------------------------------
\* the version after a change of the sources srcs
Changed(srcs) == [src \in Sources |-> version[src] + (IF src \in srcs THEN 1 ELSE 0)]

\* the database may refuse to be read (routes.py:163-170)
Unread == {{}, {"trades"}}

\* mutant: the snapshot is taken before the dashboard's state has the event
EmitSnapshotFirst ==
  /\ Step
  /\ version' = Changed({"memory", "state"})
  /\ \/ \E unread \in Unread :
          Put(<<Event(steps), Snapshot(Changed({"memory"}), unread)>>) /\ stale' = unread
     \/ Put(<<Event(steps)>>) /\ stale' = stale \cup {"memory", "state"}
  /\ UNCHANGED <<conn, stopped>>

\* a change of the memory and its event, which changes the dashboard's state.
\* An exception in the snapshot's handler, which emit swallows, leaves only the
\* event
Emit ==
  /\ Step
  /\ version' = Changed({"memory", "state"})
  /\ \/ \E unread \in Unread :
          Put(<<Event(steps), Snapshot(version', unread)>>) /\ stale' = unread
     \/ Put(<<Event(steps)>>) /\ stale' = stale \cup {"memory", "state"}
  /\ UNCHANGED <<conn, stopped>>

(***************************************************************************)
(* Changes that nobody is told of.                                         *)
(***************************************************************************)
ChangeSilently(src) ==
  /\ Step
  /\ version' = Changed({src})
  /\ stale' = stale \cup {src}
  /\ UNCHANGED <<queue, conn, stopped, sent>>

\* a refused order drops a position (engine.py:370, 481), a start, a request or a sync
\* in progress replaces them (engine.py:87-116)
Drop == ChangeSilently("memory")

\* a request leaves in the state what it found: the balance, the period's profit,
\* names of symbols; so do the scans (routes.py:290-295, 326-329, 382, 465, 526, 755)
Answer == ChangeSilently("state")

\* executions are stored, by main's loop, or before the wait for the period's profit
StoreTrades == ChangeSilently("trades")

\* after a request, or a sync of trades, which may just have got the period's profit:
\* a snapshot without event
Broadcast ==
  /\ Step
  /\ version' \in {version, Changed({"state"})}
  /\ \E unread \in Unread : Put(<<Snapshot(version', unread)>>) /\ stale' = unread
  /\ UNCHANGED <<conn, stopped>>

-----------------------------------------------------------------------------
(***************************************************************************)
(* stream(), one per client.                                               *)
(***************************************************************************)
\* after stop the loop is not entered
Connect(c) ==
  /\ client[c] = "none"
  /\ client' = [client EXCEPT ![c] = IF stopped THEN "over" ELSE "waiting"]
  /\ UNCHANGED <<version, queue, stopped, shown, sent, received, stale, steps>>

\* the generator ends: its queue is removed
Leave(c) ==
  /\ client' = [client EXCEPT ![c] = "over"]
  /\ queue' = [queue EXCEPT ![c] = <<>>]

Take(c) ==
  /\ client[c] = "waiting" /\ queue[c] # <<>>
  /\ LET msg == Head(queue[c])
     IN IF msg = Poison \/ stopped
        THEN Leave(c) /\ UNCHANGED <<shown, received>>
        ELSE /\ queue' = [queue EXCEPT ![c] = Tail(@)]
             /\ client' = [client EXCEPT ![c] = "sending"]
             /\ shown' = IF msg.kind = "state" THEN [shown EXCEPT ![c] = msg.snap] ELSE shown
             /\ received' = [received EXCEPT ![c] = Append(@, msg)]
  /\ UNCHANGED <<version, stopped, sent, stale, steps>>

\* the message is written to the connection
Sent(c) ==
  /\ client[c] = "sending"
  /\ IF stopped THEN Leave(c)
     ELSE client' = [client EXCEPT ![c] = "waiting"] /\ UNCHANGED queue
  /\ UNCHANGED <<version, stopped, shown, sent, received, stale, steps>>

Disconnect(c) ==
  /\ Connected(c)
  /\ Leave(c)
  /\ UNCHANGED <<version, stopped, shown, sent, received, stale, steps>>

\* mutant: the clients find out by themselves
StopQuietly ==
  /\ ~stopped /\ stopped' = TRUE
  /\ UNCHANGED <<version, queue, conn, sent, stale, steps>>

\* SSEManager.stop, at shutdown
Stop ==
  /\ ~stopped /\ stopped' = TRUE
  /\ queue' = [c \in Clients |-> IF Connected(c) THEN Append(queue[c], Poison) ELSE queue[c]]
  /\ UNCHANGED <<version, conn, sent, stale, steps>>

Next ==
  \/ Emit \/ Drop \/ Answer \/ StoreTrades \/ Broadcast \/ Stop
  \/ \E c \in Clients : Connect(c) \/ Take(c) \/ Sent(c) \/ Disconnect(c)

\* a message that is being sent is written, or its connection found broken
Delivered(c) == client[c] = "sending" /\ (Sent(c) \/ Disconnect(c))

Fairness == \A c \in Clients : WF_vars(Take(c)) /\ WF_vars(Delivered(c))

Spec == Init /\ [][Next]_vars /\ Fairness

-----------------------------------------------------------------------------
TypeOK ==
  /\ version \in [Sources -> 0 .. MaxEvents]
  /\ stopped \in BOOLEAN /\ stale \subseteq Sources
  /\ \A c \in Clients : /\ client[c] \in {"none", "waiting", "sending", "over"}
                        /\ Len(queue[c]) <= 2 * MaxEvents + 1
  /\ steps \in 0 .. MaxEvents

(***************************************************************************)
(* A page that has taken everything from its queue shows every source of   *)
(* the snapshot as it is now, however its connection was delayed, but for  *)
(* those that changed since the last snapshot or were not read for it; and *)
(* what it was sent since it came has reached it in order and without a    *)
(* gap, up to what is still in its queue (sse.py:40-68, routes.py:86-89).  *)
(***************************************************************************)
DrainedIsCurrent ==
  \A c \in Clients :
    Connected(c) /\ ~stopped =>
      /\ received[c] \o queue[c] = sent[c]
      /\ (queue[c] = <<>> /\ \E i \in DOMAIN received[c] : received[c][i].kind = "state")
           => \A src \in Sources \ stale : shown[c][src] = version[src]

(***************************************************************************)
(* stop ends every stream, that of a client that waits for a message as    *)
(* well as that of one with messages before it (main.py:504-507): the      *)
(* server can shut down.                                                   *)
(***************************************************************************)
StopEndsStreams == \A c \in Clients : (stopped /\ Connected(c)) ~> client[c] = "over"
=============================================================================
