------------------------- MODULE MarketStreamProofs -------------------------
(***************************************************************************)
(* Safety of MarketStream, for any symbols, any number of updaters and any *)
(* number of failures.                                                     *)
(***************************************************************************)
EXTENDS MarketStream, TLAPS

-----------------------------------------------------------------------------
\* the receive loop lives between a start and the next start or stop
Modes ==
  /\ caller \in {"up", "send"} => running
  /\ recv # "none" => caller = "up"

\* what an update has still to send lies between the old and the new symbols
Differences ==
  \A u \in Updaters :
     /\ upd[u].remove \cap upd[u].target = {}
     /\ upd[u].add \subseteq upd[u].target
     /\ ~upd[u].busy => upd[u].remove = {} /\ upd[u].add = {}

OneUpdate ==
  ~overlap => \A u, v \in Updaters : upd[u].busy /\ upd[v].busy => u = v

\* who writes to the open socket knows what it still lacks
Follows ==
  (~overlap /\ ws = "open") =>
     /\ recv = "reading" =>
           /\ ~Updating => served = subscribed
           /\ \A u \in Updaters :
                 upd[u].busy => served = (upd[u].target \cup upd[u].remove) \ upd[u].add
     /\ recv = "resubscribe" =>
           ~Updating /\ toResub \subseteq subscribed /\ served = subscribed \ toResub
     /\ caller = "send" =>
           ~Updating /\ toStart \subseteq wanted /\ served = wanted \ toStart

IInv ==
  /\ TypeOK
  /\ Modes
  /\ Differences
  /\ OneUpdate
  /\ Follows
  /\ StopIsFinal

-----------------------------------------------------------------------------
LEMMA InitIInv == Init => IInv
<1> SUFFICES ASSUME Init PROVE IInv
  OBVIOUS
<1>1. Idle \in Update /\ ~Idle.busy /\ Idle.remove = {} /\ Idle.add = {}
  BY DEF Idle, Update
<1>2. upd \in [Updaters -> Update] /\ \A u \in Updaters : upd[u] = Idle
  BY <1>1 DEF Init
<1>3. TypeOK
  BY <1>2 DEF Init, TypeOK
<1>4. Modes /\ Differences /\ OneUpdate /\ Follows /\ StopIsFinal
  BY <1>1, <1>2 DEF Init, Modes, Differences, OneUpdate, Follows, StopIsFinal
<1> QED
  BY <1>3, <1>4 DEF IInv

(***************************************************************************)
(* The actions of the tasks that start, stop and receive: none of them     *)
(* touches an update.                                                      *)
(***************************************************************************)
LEMMA StreamStep ==
  ASSUME IInv, Starting \/ Stop \/ Stopped \/ Receiving \/ Break
  PROVE  IInv'
<1> USE DEF IInv, startVars, recvVars
<1> DEFINE Other == Modes' /\ Differences' /\ OneUpdate' /\ Follows' /\ StopIsFinal'
<1>1. TypeOK'
  <2>1. Updating \in BOOLEAN
    BY DEF Updating
  <2> USE DEF TypeOK
  <2>2. ASSUME NEW S \in SUBSET Symbols, Start(S) PROVE TypeOK'
    BY <2>2 DEF Start
  <2>3. CASE StartConnected
    BY <2>1, <2>3 DEF StartConnected
  <2>4. ASSUME NEW s \in Symbols, StartSend(s) PROVE TypeOK'
    BY <2>4 DEF StartSend, Sent
  <2>5. CASE StartFails
    BY <2>5 DEF StartFails
  <2>6. CASE Started \/ Stop \/ Stopped
    BY <2>6 DEF Started, Stop, Stopped
  <2>7. CASE RecvBroken \/ RecvCloses \/ RecvClosed
    BY <2>7 DEF RecvBroken, RecvCloses, RecvClosed
  <2>8. CASE RecvConnected
    BY <2>1, <2>8 DEF RecvConnected
  <2>9. ASSUME NEW s \in Symbols, RecvSend(s) PROVE TypeOK'
    BY <2>9 DEF RecvSend, Sent
  <2>10. CASE RecvFails \/ RecvResubscribed \/ Break
    BY <2>10 DEF RecvFails, RecvResubscribed, Break
  <2> HIDE DEF TypeOK
  <2> QED
    BY <2>2, <2>3, <2>4, <2>5, <2>6, <2>7, <2>8, <2>9, <2>10 DEF Starting, Receiving
<1>2. upd' = upd
  BY DEF Starting, Start, StartConnected, StartSend, StartFails, Started, Stop, Stopped,
         Receiving, RecvBroken, RecvCloses, RecvClosed, RecvConnected, RecvSend, RecvFails,
         RecvResubscribed, Break
<1> USE <1>2 DEF Modes, Differences, OneUpdate, Follows, StopIsFinal, Updating, TypeOK
<1>3. ASSUME NEW S \in SUBSET Symbols, Start(S) PROVE Other
  BY <1>3 DEF Start
<1>4. CASE StartConnected
  BY <1>4 DEF StartConnected
<1>5. ASSUME NEW s \in Symbols, StartSend(s) PROVE Other
  BY <1>5 DEF StartSend, Sent
<1>6. CASE StartFails
  BY <1>6 DEF StartFails
<1>7. CASE Started
  BY <1>7 DEF Started
<1>8. CASE Stop
  BY <1>8 DEF Stop
<1>9. CASE Stopped
  BY <1>9 DEF Stopped
<1>10. CASE RecvBroken
  BY <1>10 DEF RecvBroken
<1>11. CASE RecvCloses
  BY <1>11 DEF RecvCloses
<1>12. CASE RecvClosed
  BY <1>12 DEF RecvClosed
<1>13. CASE RecvConnected
  BY <1>13 DEF RecvConnected
<1>14. ASSUME NEW s \in Symbols, RecvSend(s) PROVE Other
  BY <1>14 DEF RecvSend, Sent
<1>15. CASE RecvFails
  BY <1>15 DEF RecvFails
<1>16. CASE RecvResubscribed
  BY <1>16 DEF RecvResubscribed
<1>17. CASE Break
  BY <1>17 DEF Break
<1> QED
  BY <1>1, <1>3, <1>4, <1>5, <1>6, <1>7, <1>8, <1>9, <1>10, <1>11, <1>12, <1>13, <1>14, <1>15,
     <1>16, <1>17 DEF Starting, Receiving

(***************************************************************************)
(* The steps of update_subscriptions.  Under ~overlap the updater is alone *)
(* with the socket, and what it lacks shrinks until nothing is left.       *)
(***************************************************************************)
LEMMA UpdateStep ==
  ASSUME IInv, NEW u \in Updaters,
         Rescanning(u) \/ \E new \in SUBSET Symbols : UpdateBegin(u, new)
  PROVE  IInv'
<1> USE DEF IInv, TypeOK
<1> DEFINE Unchanged == UNCHANGED <<running, ws, startVars, recvVars, breaks>>
<1>1. Unchanged /\ Modes' /\ StopIsFinal'
  BY DEF Rescanning, UpdateRemove, UpdateAdd, UpdateEnd, UpdateBegin, Modes, StopIsFinal,
         startVars, recvVars
<1> USE DEF startVars, recvVars
<1>2. ASSUME NEW new \in SUBSET Symbols, UpdateBegin(u, new), ws = "none"
      PROVE  IInv'
  BY <1>1, <1>2 DEF UpdateBegin, Differences, OneUpdate, Follows, Updating
<1>3. ASSUME NEW new \in SUBSET Symbols, UpdateBegin(u, new), ws # "none"
      PROVE  IInv'
  <2>1. /\ upd' = [upd EXCEPT ![u] = Difference(new)]
        /\ overlap' = (overlap \/ Updating \/ Resubscribing)
        /\ UNCHANGED <<served, subscribed>>
    BY <1>3 DEF UpdateBegin
  <2>2. Difference(new) \in Update
    BY DEF Difference, Update
  <2>3. TypeOK'
    BY <1>1, <2>1, <2>2 DEF Updating, Resubscribing
  <2>4. /\ upd'[u] = Difference(new)
        /\ \A v \in Updaters \ {u} : upd'[v] = upd[v]
    BY <2>1
  <2>5. Differences'
    BY <2>4 DEF Differences, Difference
  <2>6. OneUpdate'
    BY <2>1, <2>4 DEF OneUpdate, Updating
  <2>7. Follows'
    BY <1>1, <2>1, <2>4 DEF Follows, Updating, Resubscribing, Difference
  <2> QED
    BY <1>1, <2>3, <2>5, <2>6, <2>7
<1>4. ASSUME NEW s \in Symbols, UpdateRemove(u, s) \/ UpdateAdd(u, s)
      PROVE  IInv'
  <2>1. /\ upd' \in [Updaters -> Update]
        /\ \A v \in Updaters \ {u} : upd'[v] = upd[v]
        /\ upd'[u].busy = upd[u].busy /\ upd'[u].target = upd[u].target
        /\ UNCHANGED <<subscribed, overlap>>
    BY <1>4 DEF UpdateRemove, UpdateAdd, Update
  <2>2. upd[u].busy
    BY <1>4 DEF Differences, UpdateRemove, UpdateAdd
  <2>3. CASE UpdateRemove(u, s)
    <3>1. /\ upd'[u].remove = upd[u].remove \ {s} /\ upd'[u].add = upd[u].add
          /\ served' = served \ {s} /\ s \in upd[u].remove
      BY <2>3 DEF UpdateRemove, Update
    <3>2. Differences' /\ OneUpdate'
      BY <2>1, <2>2, <3>1 DEF Differences, OneUpdate
    <3>3. Follows'
      <4> SUFFICES ASSUME ~overlap, ws = "open" PROVE Follows'
        BY <1>1, <2>1 DEF Follows
      <4>1. Updating /\ Updating' /\ \A v \in Updaters \ {u} : ~upd'[v].busy
        BY <2>1, <2>2 DEF OneUpdate, Updating
      <4>2. recv = "reading" => served = (upd[u].target \cup upd[u].remove) \ upd[u].add
        BY <2>2 DEF Follows
      <4>3. recv = "reading" => served' = (upd[u].target \cup upd'[u].remove) \ upd'[u].add
        BY <3>1, <4>2 DEF Differences
      <4> QED
        BY <1>1, <2>1, <4>1, <4>3 DEF Follows
    <3> QED
      BY <1>1, <2>1, <3>1, <3>2, <3>3
  <2>4. CASE UpdateAdd(u, s)
    <3>1. /\ upd'[u].remove = upd[u].remove /\ upd'[u].add = upd[u].add \ {s}
          /\ served' = Sent(s) /\ s \in upd[u].add /\ upd[u].remove = {}
      BY <2>4 DEF UpdateAdd, Update
    <3>2. Differences' /\ OneUpdate'
      BY <2>1, <2>2, <3>1 DEF Differences, OneUpdate
    <3>3. Follows'
      <4> SUFFICES ASSUME ~overlap, ws = "open" PROVE Follows'
        BY <1>1, <2>1 DEF Follows
      <4>1. Updating /\ Updating' /\ \A v \in Updaters \ {u} : ~upd'[v].busy
        BY <2>1, <2>2 DEF OneUpdate, Updating
      <4>2. recv = "reading" => served = (upd[u].target \cup upd[u].remove) \ upd[u].add
        BY <2>2 DEF Follows
      <4>3. recv = "reading" => served' = (upd[u].target \cup upd'[u].remove) \ upd'[u].add
        BY <3>1, <4>2 DEF Differences, Sent
      <4> QED
        BY <1>1, <2>1, <4>1, <4>3 DEF Follows
    <3> QED
      BY <1>1, <2>1, <3>1, <3>2, <3>3 DEF Sent
  <2> QED
    BY <1>4, <2>3, <2>4
<1>5. CASE UpdateEnd(u)
  <2>1. /\ upd[u].busy /\ upd[u].remove = {} /\ upd[u].add = {}
        /\ subscribed' = upd[u].target
        /\ upd' = [upd EXCEPT ![u] = Idle]
        /\ UNCHANGED <<served, overlap>>
    BY <1>5 DEF UpdateEnd
  <2>2. Idle \in Update /\ upd[u].target \in SUBSET Symbols
    BY DEF Idle, Update
  <2>3. TypeOK'
    BY <1>1, <2>1, <2>2
  <2>4. upd'[u] = Idle /\ \A v \in Updaters \ {u} : upd'[v] = upd[v]
    BY <2>1
  <2>5. Differences' /\ OneUpdate'
    BY <2>1, <2>4 DEF Differences, OneUpdate, Idle
  <2>6. Follows'
    <3> SUFFICES ASSUME ~overlap, ws = "open" PROVE Follows'
      BY <1>1, <2>1 DEF Follows
    <3>1. Updating /\ \A v \in Updaters : ~upd'[v].busy
      BY <2>1, <2>4 DEF OneUpdate, Idle, Updating
    <3>2. recv # "resubscribe" /\ caller # "send"
      BY <3>1 DEF Follows
    <3>3. recv = "reading" => served = upd[u].target
      BY <2>1 DEF Follows
    <3> QED
      BY <1>1, <2>1, <3>1, <3>2, <3>3 DEF Follows
  <2> QED
    BY <1>1, <2>3, <2>5, <2>6
<1> HIDE DEF IInv, TypeOK
<1> QED
  BY <1>2, <1>3, <1>4, <1>5 DEF Rescanning

-----------------------------------------------------------------------------
THEOREM Invariance == Spec => []IInv
<1>1. IInv /\ [Next]_vars => IInv'
  <2> SUFFICES ASSUME IInv, [Next]_vars PROVE IInv'
    OBVIOUS
  <2>1. CASE Next
    BY <2>1, StreamStep, UpdateStep DEF Next
  <2>2. CASE UNCHANGED vars
    BY <2>2 DEF vars, IInv, TypeOK, Modes, Differences, OneUpdate, Follows, StopIsFinal, Updating
  <2> QED
    BY <2>1, <2>2
<1> QED
  BY <1>1, InitIInv, PTL DEF Spec, Safe

(***************************************************************************)
(* The stream's state is always of its type (stream.py:80-101).            *)
(***************************************************************************)
THEOREM TypeCorrect == Spec => []TypeOK
  BY Invariance, PTL DEF IInv

(***************************************************************************)
(* Once stop has returned nothing reads and nothing reconnects             *)
(* (stream.py:366-387).                                                    *)
(***************************************************************************)
THEOREM StopAlwaysFinal == Spec => []StopIsFinal
  BY Invariance, PTL DEF IInv

(***************************************************************************)
(* However updates, reconnects, starts and stops follow each other, the    *)
(* socket serves what the stream believes, unless an update overlapped     *)
(* another writer (stream.py:175-184, 229-236, 327-356).                   *)
(***************************************************************************)
THEOREM AlwaysInStep == Spec => []InStep
<1>1. IInv => InStep
  BY DEF IInv, Follows, InStep
<1> QED
  BY <1>1, Invariance, PTL
=============================================================================
