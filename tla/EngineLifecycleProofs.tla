------------------------ MODULE EngineLifecycleProofs ------------------------
(***************************************************************************)
(* Safety of EngineLifecycle, for any number of clients.                   *)
(***************************************************************************)
EXTENDS EngineLifecycle, TLAPS

-----------------------------------------------------------------------------
\* a stop leaves nothing behind that could start something
StopHolds == stopped => ~tradingStarted

\* unless requests raced there is one start at a time, and none once started
OneStart ==
  ~raced =>
     /\ \A c, d \in Clients : StartPending(c) /\ StartPending(d) => c = d
     /\ \A c \in Clients : StartPending(c) => ~AutoStarting /\ ~tradingStarted

\* what the start under way has set, and what it leaves set
Prepares ==
  ~raced /\ ~autoStopped =>
     /\ \A c \in Clients : req[c] \in {"scan", "open"} => running /\ riskLoop
     /\ tradingStarted => running /\ riskLoop /\ (streamOn \/ AutoStarting)

IInv ==
  /\ TypeOK
  /\ StopHolds
  /\ StopIsFinal
  /\ OneStart
  /\ Prepares

-----------------------------------------------------------------------------
LEMMA InitIInv == Init => IInv
  BY FlagsAssumption
     DEF Init, IInv, TypeOK, StopHolds, StopIsFinal, OneStart, Prepares, StartPending,
         AutoStarting, Phases

LEMMA TypeStep ==
  ASSUME TypeOK, Next
  PROVE  TypeOK'
<1> USE DEF TypeOK
<1>1. Starting \in BOOLEAN
  BY DEF Starting, AutoStarting, StartPending
<1>2. ASSUME NEW c \in Clients, NEW p \in Phases, GoOn(c, p)
      PROVE  req' \in [Clients -> Phases] /\ answer' \in [Clients -> {"none", "success", "error"}]
  BY <1>2 DEF GoOn
<1>3. ASSUME NEW c \in Clients, NEW a \in {"none", "success", "error"}, Answer(c, a)
      PROVE  req' \in [Clients -> Phases] /\ answer' \in [Clients -> {"none", "success", "error"}]
  BY <1>3 DEF Answer, Phases
<1>4. {"idle", "start", "sync", "scan", "open", "stop", "closing"} = Phases
  BY DEF Phases
<1>5. ASSUME NEW c \in Clients, Request(c) PROVE TypeOK'
  <2>1. req' \in [Clients -> Phases] /\ answer' \in [Clients -> {"none", "success", "error"}]
    BY <1>4, <1>5 DEF Request
  <2> QED
    BY <1>5, <2>1 DEF Request
<1>6. ASSUME NEW c \in Clients, HandleStart(c) PROVE TypeOK'
  BY <1>1, <1>2, <1>3, <1>4, <1>6 DEF HandleStart
<1>7. ASSUME NEW c \in Clients, Prepared(c) PROVE TypeOK'
  BY <1>2, <1>4, <1>7 DEF Prepared
<1>8. ASSUME NEW c \in Clients, Scanned(c) PROVE TypeOK'
  BY <1>2, <1>4, <1>8 DEF Scanned, QuantStart
<1>9. ASSUME NEW c \in Clients, Opened(c) PROVE TypeOK'
  BY <1>3, <1>9 DEF Opened
<1>10. ASSUME NEW c \in Clients, StartFails(c) \/ StopRefused(c) PROVE TypeOK'
  BY <1>3, <1>10 DEF StartFails, StopRefused
<1>11. ASSUME NEW c \in Clients, StopAccepted(c) PROVE TypeOK'
  BY <1>1, <1>2, <1>4, <1>11 DEF StopAccepted
<1>12. ASSUME NEW c \in Clients, Stopped(c) PROVE TypeOK'
  BY <1>1, <1>3, <1>12 DEF Stopped
<1>13. CASE RescanStep
  BY <1>13 DEF RescanStep, RescanRuns
<1>14. CASE AutoBegin
  BY <1>1, <1>14 DEF AutoBegin
<1>15. CASE AutoScanned \/ AutoOpened \/ MarketClose
  BY <1>15 DEF AutoScanned, AutoOpened, MarketClose
<1> HIDE DEF TypeOK
<1> QED
  BY <1>5, <1>6, <1>7, <1>8, <1>9, <1>10, <1>11, <1>12, <1>13, <1>14, <1>15
     DEF Next, Dashboard

-----------------------------------------------------------------------------
(***************************************************************************)
(* One step per action.  An action moves the request of one client only.   *)
(***************************************************************************)
LEMMA Step ==
  ASSUME IInv, Next
  PROVE  IInv'
<1> DEFINE Rest == StopHolds' /\ StopIsFinal' /\ OneStart' /\ Prepares'
<1>1. TypeOK'
  BY TypeStep DEF IInv
<1>2. ASSUME NEW c \in Clients, NEW p, GoOn(c, p) \/ \E a : Answer(c, a)
      PROVE  \A d \in Clients \ {c} : req'[d] = req[d]
  BY <1>2 DEF GoOn, Answer, IInv, TypeOK
<1>3. ASSUME NEW c \in Clients, NEW p, GoOn(c, p) PROVE req'[c] = p
  BY <1>3 DEF GoOn, IInv, TypeOK
<1>4. ASSUME NEW c \in Clients, NEW a, Answer(c, a) PROVE req'[c] = "idle"
  BY <1>4 DEF Answer, IInv, TypeOK
<1> USE DEF StopHolds, StopIsFinal, OneStart, Prepares, StartPending, AutoStarting
<1>5. ASSUME NEW c \in Clients, Request(c) PROVE Rest
  <2>1. \A d \in Clients : StartPending(d)' <=> StartPending(d)
    BY <1>5 DEF Request, IInv, TypeOK
  <2>2. \A d \in Clients : req'[d] \in {"scan", "open"} <=> req[d] \in {"scan", "open"}
    BY <1>5 DEF Request, IInv, TypeOK
  <2> QED
    BY <1>5, <2>1, <2>2 DEF Request, IInv
<1>6. ASSUME NEW c \in Clients, HandleStart(c) PROVE Rest
  BY <1>2, <1>3, <1>4, <1>6 DEF HandleStart, Starting, IInv
<1>7. ASSUME NEW c \in Clients, Prepared(c) PROVE Rest
  BY <1>2, <1>3, <1>7 DEF Prepared, IInv
<1>8. ASSUME NEW c \in Clients, Scanned(c) PROVE Rest
  BY <1>2, <1>3, <1>8 DEF Scanned, QuantStart, IInv
<1>9. ASSUME NEW c \in Clients, Opened(c) PROVE Rest
  BY <1>2, <1>4, <1>9 DEF Opened, IInv
<1>10. ASSUME NEW c \in Clients, StartFails(c) PROVE Rest
  BY <1>2, <1>4, <1>10 DEF StartFails, IInv
<1>11. ASSUME NEW c \in Clients, StopRefused(c) PROVE Rest
  BY <1>2, <1>4, <1>11 DEF StopRefused, IInv
<1>12. ASSUME NEW c \in Clients, StopAccepted(c) PROVE Rest
  BY <1>2, <1>3, <1>12 DEF StopAccepted, Starting, IInv
<1>13. ASSUME NEW c \in Clients, Stopped(c) PROVE Rest
  BY <1>2, <1>4, <1>13 DEF Stopped, Starting, IInv
<1>14. ASSUME RescanStep PROVE Rest
  BY <1>14 DEF RescanStep, RescanRuns, IInv
<1>15. ASSUME AutoBegin PROVE Rest
  BY <1>15 DEF AutoBegin, Starting, IInv
<1>16. ASSUME AutoScanned \/ AutoOpened PROVE Rest
  BY <1>16 DEF AutoScanned, AutoOpened, IInv
<1>17. ASSUME MarketClose PROVE Rest
  BY <1>17 DEF MarketClose, IInv
<1>18. Rest
  BY <1>5, <1>6, <1>7, <1>8, <1>9, <1>10, <1>11, <1>12, <1>13, <1>14, <1>15, <1>16, <1>17
     DEF Next, Dashboard
<1> QED
  BY <1>1, <1>18 DEF IInv

-----------------------------------------------------------------------------
THEOREM Invariance == Spec => []IInv
<1>1. IInv /\ UNCHANGED vars => IInv'
  BY DEF vars, IInv, TypeOK, StopHolds, StopIsFinal, OneStart, Prepares, StartPending,
         AutoStarting
<1> QED
  BY <1>1, InitIInv, Step, PTL DEF Spec

(***************************************************************************)
(* The flags and requests are always of their type.                        *)
(***************************************************************************)
THEOREM TypeCorrect == Spec => []TypeOK
  BY Invariance, PTL DEF IInv

(***************************************************************************)
(* However many clients race, once stop was accepted nothing goes on until *)
(* something is started (routes.py:627-647).                               *)
(***************************************************************************)
THEOREM StopAlwaysFinal == Spec => []StopIsFinal
  BY Invariance, PTL DEF IInv

(***************************************************************************)
(* With any number of clients that do not race, started means trading,     *)
(* until the market closes (routes.py:568-623).                            *)
(***************************************************************************)
THEOREM StartedAlwaysTrades == Spec => []StartedTrades
<1>1. IInv => StartedTrades
  BY DEF IInv, Prepares, StartedTrades, Starting
<1> QED
  BY <1>1, Invariance, PTL
=============================================================================
