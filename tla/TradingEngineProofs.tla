------------------------- MODULE TradingEngineProofs -------------------------
(***************************************************************************)
(* Proofs about TradingEngine.tla, for every set of symbols and of         *)
(* strategies, every limit and whatever the environment may do.            *)
(***************************************************************************)
EXTENDS TradingEngine, SequenceLemmas, TLAPS

(***************************************************************************)
(* The inductive invariant.  Beside the types: a task that waits with an   *)
(* order carries one, and only the receive loop buys (Carrying); the       *)
(* exchange never works on more SELL quantity than there are shares        *)
(* (Covered); and what the receive loop decided still stands.              *)
(***************************************************************************)
Memory == [Symbols -> Position \cup {NoPos}]

TaskTypes ==
  /\ running \in BOOLEAN
  /\ pending \in Seq(Symbols)
  /\ apiLock \in Seq(Tasks)
  /\ pc \in [Tasks -> Places]
  /\ job \in [Tasks -> Order \cup {NoJob}]
  /\ todo \in [Tasks -> SUBSET Symbols]

Carrying ==
  \A t \in Tasks :
    /\ pc[t] \in Ordering => job[t] \in Order /\ job[t].qty > 0
    /\ pc[t] = "balance" => job[t] \in Order
    /\ pc[t] \in Ordering /\ t # "recv" => job[t].side = "sell"

Covered == \A s \in Symbols : working[s]["sell"] <= shares[s]

Standing == Carrying /\ Covered /\ DecisionStands

IInv == TypeOK /\ Standing

(***************************************************************************)
(* What a step in which task t goes on does to the tasks: every type and   *)
(* Carrying are kept, t does not end up where a decision of the receive    *)
(* loop is pending, and another task leaves the receive loop alone.        *)
(***************************************************************************)
GoesOn(t) ==
  /\ TaskTypes'
  /\ Carrying'
  /\ pc'[t] # "merge"
  /\ IF t = "recv" THEN pc'["recv"] \notin {"balance", "signal"}
     ELSE pc'["recv"] = pc["recv"] /\ job'["recv"] = job["recv"]

-----------------------------------------------------------------------------
LEMMA HeldPosition ==
  ASSUME NEW m \in Memory, NEW s \in Symbols
  PROVE  /\ m[s].qty \in Nat
         /\ Held(m, s) => m[s] \in Position
         /\ ~Held(m, s) => m[s] = NoPos
BY DEF Memory, Held, Position, NoPos

LEMMA SellIsOrder ==
  ASSUME NEW s \in Symbols, NEW q \in Nat, NEW by \in Owners
  PROVE  /\ Sell(s, q, by) \in Order
         /\ Sell(s, q, by).side = "sell"
         /\ Sell(s, q, by).qty = q
BY DEF Sell, Order, Sides

LEMMA RestGoesOn ==
  ASSUME TaskTypes, Carrying, NEW t \in Tasks,
         NEW p \in Seq(Symbols), NEW l \in Seq(Tasks), Rest(t, p, l)
  PROVE  GoesOn(t)
<1>1. TaskTypes'
  BY DEF Rest, TaskTypes, Places
<1>2. Carrying'
  BY DEF Rest, TaskTypes, Carrying, Ordering
<1>3. QED
  BY <1>1, <1>2 DEF GoesOn, Rest, TaskTypes, Tasks

LEMMA SubmitGoesOn ==
  ASSUME TaskTypes, Carrying, NEW t \in Tasks, NEW at \in {"order", "liquidate"},
         NEW o \in Order, o.side = "sell", o.qty > 0, NEW rest \in SUBSET Symbols,
         NEW p \in Seq(Symbols), NEW l \in Seq(Tasks), Submit(t, at, o, rest, p, l)
  PROVE  GoesOn(t)
<1>0. o.sym \in Symbols
  BY DEF Order
<1>1. TaskTypes'
  <2>1. pending' \in Seq(Symbols) /\ apiLock' \in Seq(Tasks)
    BY <1>0, AppendProperties DEF Submit
  <2>2. QED
    BY <2>1 DEF Submit, TaskTypes, Places, Ordering
<1>2. Carrying'
  BY DEF Submit, TaskTypes, Carrying, Ordering
<1>3. QED
  BY <1>1, <1>2 DEF GoesOn, Submit, TaskTypes, Tasks

LEMMA AutoStopGoesOn ==
  ASSUME TaskTypes, Carrying,
         NEW p \in Seq(Symbols), NEW l \in Seq(Tasks), AutoStop(p, l)
  PROVE  GoesOn("recv")
<1>1. TaskTypes'
  <2>1. apiLock' \in Seq(Tasks)
    BY RemoveFirstProperties DEF AutoStop
  <2>2. QED
    BY <2>1 DEF AutoStop, TaskTypes, Places
<1>2. Carrying'
  BY DEF AutoStop, TaskTypes, Carrying, Ordering, Tasks
<1>3. QED
  BY <1>1, <1>2 DEF GoesOn, AutoStop, TaskTypes, Tasks

(***************************************************************************)
(* The loops over positions.                                               *)
(***************************************************************************)
LEMMA LiquidateGoesOn ==
  ASSUME TaskTypes, Carrying, NEW t \in Tasks, NEW S \in SUBSET Symbols,
         NEW m \in Memory, NEW p \in Seq(Symbols), NEW l \in Seq(Tasks),
         Liquidate(t, S, m, p, l)
  PROVE  GoesOn(t)
<1>1. CASE t = "recv" /\ AutoStop(p, l)
  BY <1>1, AutoStopGoesOn
<1>2. CASE Rest(t, p, l)
  BY <1>2, RestGoesOn
<1>3. ASSUME NEW s \in S, NEW q \in LastKnownQty(m, s),
             Submit(t, "liquidate",
                    Sell(s, q, IF Held(m, s) THEN m[s].owner ELSE "synced"),
                    S \ {s}, p, l)
      PROVE  GoesOn(t)
  <2> DEFINE by == IF Held(m, s) THEN m[s].owner ELSE "synced"
  <2>1. q \in Nat /\ q > 0
    BY <1>3, HeldPosition, SizesAssumption DEF LastKnownQty, Held
  <2>2. by \in Owners
    BY HeldPosition DEF Owners, Position
  <2> HIDE DEF by
  <2>3. /\ Sell(s, q, by) \in Order
        /\ Sell(s, q, by).side = "sell"
        /\ Sell(s, q, by).qty > 0
    BY <2>1, <2>2, SellIsOrder
  <2>4. Submit(t, "liquidate", Sell(s, q, by), S \ {s}, p, l)
    BY <1>3 DEF by
  <2>5. QED
    BY <2>3, <2>4, SubmitGoesOn
<1>4. QED
  BY <1>1, <1>2, <1>3 DEF Liquidate

LEMMA CheckRiskGoesOn ==
  ASSUME TaskTypes, Carrying, NEW t \in Tasks, NEW S \in SUBSET Symbols,
         NEW m \in Memory, NEW p \in Seq(Symbols), NEW l \in Seq(Tasks),
         CheckRisk(t, S, m, p, l)
  PROVE  GoesOn(t)
<1> DEFINE fire == {s \in S : Held(m, s) /\ m[s].exit}
<1>1. CASE RisksChecked(t, m, p, l)
  <2>1. CASE Rest(t, p, l)
    BY <2>1, RestGoesOn
  <2>2. CASE t = "recv" /\ Liquidate("recv", HeldIn(m), m, p, l)
    <3>1. HeldIn(m) \in SUBSET Symbols
      BY DEF HeldIn
    <3>2. QED
      BY <2>2, <3>1, LiquidateGoesOn
  <2>3. QED
    BY <1>1, <2>1, <2>2 DEF RisksChecked, CheckMarketClose
<1>2. ASSUME NEW s \in fire, NEW rest \in SUBSET (S \ fire),
             Submit(t, "order", Sell(s, m[s].qty, m[s].owner),
                    rest \cup (fire \ {s}), p, l)
      PROVE  GoesOn(t)
  <2>1. m[s].qty \in Nat /\ m[s].qty > 0 /\ m[s].owner \in Owners
    BY HeldPosition DEF Position, Held
  <2>2. /\ Sell(s, m[s].qty, m[s].owner) \in Order
        /\ Sell(s, m[s].qty, m[s].owner).side = "sell"
        /\ Sell(s, m[s].qty, m[s].owner).qty > 0
    BY <2>1, SellIsOrder
  <2>3. (rest \cup (fire \ {s})) \in SUBSET Symbols
    OBVIOUS
  <2>4. QED
    BY <1>2, <2>2, <2>3, SubmitGoesOn
<1>3. QED
  BY <1>1, <1>2 DEF CheckRisk

LEMMA ResumeGoesOn ==
  ASSUME TaskTypes, Carrying, NEW t \in Tasks, NEW m \in Memory,
         OrderServed(t), Resume(t, m)
  PROVE  GoesOn(t)
<1>1. Tail(pending) \in Seq(Symbols) /\ Tail(apiLock) \in Seq(Tasks)
  BY TailProperties DEF OrderServed, Oldest, TaskTypes
<1>2. todo[t] \in SUBSET Symbols
  BY DEF TaskTypes
<1>3. CASE pc[t] = "signal"
  <2>1. Rest(t, Tail(pending), Tail(apiLock))
    BY <1>3 DEF Resume
  <2>2. QED
    BY <1>1, <2>1, RestGoesOn
<1>4. CASE pc[t] = "order"
  <2>1. CheckRisk(t, todo[t], m, Tail(pending), Tail(apiLock))
    BY <1>4 DEF Resume
  <2>2. QED
    BY <1>1, <1>2, <2>1, CheckRiskGoesOn
<1>5. CASE pc[t] = "liquidate"
  <2>1. Liquidate(t, todo[t], m, Tail(pending), Tail(apiLock))
    BY <1>5 DEF Resume
  <2>2. QED
    BY <1>1, <1>2, <2>1, LiquidateGoesOn
<1>6. QED
  BY <1>3, <1>4, <1>5 DEF OrderServed, Ordering

-----------------------------------------------------------------------------
(***************************************************************************)
(* The memory after a fill: what it is, whom it belongs to, what is gone.  *)
(***************************************************************************)
LEMMA DropMemory ==
  ASSUME NEW m \in Memory, NEW s \in Symbols
  PROVE  /\ Drop(m, s) \in Memory
         /\ \A r \in Symbols : Drop(m, s)[r] = IF r = s THEN NoPos ELSE m[r]
BY DEF Drop, Memory

LEMMA OpenOrAddMemory ==
  ASSUME NEW m \in Memory, NEW s \in Symbols,
         NEW q \in Nat \ {0}, NEW owner \in Owners
  PROVE  /\ OpenOrAdd(m, s, q, owner) \in Memory
         /\ \A r \in Symbols :
              Held(m, r) => /\ Held(OpenOrAdd(m, s, q, owner), r)
                            /\ OpenOrAdd(m, s, q, owner)[r].owner = m[r].owner
<1> DEFINE new == IF Held(m, s) THEN [m[s] EXCEPT !.qty = m[s].qty + q]
                  ELSE [qty |-> q, owner |-> owner, exit |-> FALSE]
<1>1. OpenOrAdd(m, s, q, owner) = [m EXCEPT ![s] = new]
  BY DEF OpenOrAdd
<1>2. new \in Position /\ new.qty > 0 /\ (Held(m, s) => new.owner = m[s].owner)
  <2>1. CASE Held(m, s)
    <3>1. m[s] \in Position
      BY <2>1, HeldPosition
    <3>2. m[s].qty + q \in Nat \ {0}
      BY <3>1 DEF Position
    <3>3. QED
      BY <2>1, <3>1, <3>2 DEF Position
  <2>2. CASE ~Held(m, s)
    BY <2>2 DEF Position
  <2>3. QED
    BY <2>1, <2>2
<1> HIDE DEF new
<1>3. OpenOrAdd(m, s, q, owner) \in Memory
  BY <1>1, <1>2 DEF Memory
<1>4. OpenOrAdd(m, s, q, owner)[s] = new
  BY <1>1 DEF Memory
<1>5. \A r \in Symbols : r # s => OpenOrAdd(m, s, q, owner)[r] = m[r]
  BY <1>1 DEF Memory
<1>6. QED
  BY <1>2, <1>3, <1>4, <1>5 DEF Held

LEMMA CloseOrReduceMemory ==
  ASSUME NEW m \in Memory, NEW s \in Symbols, NEW q \in Nat
  PROVE  /\ CloseOrReduce(m, s, q) \in Memory
         /\ \A r \in Symbols : r # s => CloseOrReduce(m, s, q)[r] = m[r]
         /\ Held(CloseOrReduce(m, s, q), s) =>
              /\ Held(m, s)
              /\ CloseOrReduce(m, s, q)[s].owner = m[s].owner
         /\ Held(m, s) /\ q < m[s].qty => Held(CloseOrReduce(m, s, q), s)
<1>1. m[s].qty \in Nat
  BY HeldPosition
<1>2. CASE q >= m[s].qty
  <2>1. CloseOrReduce(m, s, q) = Drop(m, s)
    BY <1>2 DEF CloseOrReduce
  <2>2. ~Held(Drop(m, s), s)
    BY DropMemory DEF Held, NoPos
  <2>3. QED
    BY <1>1, <1>2, <2>1, <2>2, DropMemory
<1>3. CASE q < m[s].qty
  <2> DEFINE new == [m[s] EXCEPT !.qty = m[s].qty - q]
  <2>1. CloseOrReduce(m, s, q) = [m EXCEPT ![s] = new]
    BY <1>1, <1>3 DEF CloseOrReduce
  <2>2. Held(m, s) /\ m[s] \in Position
    BY <1>1, <1>3, HeldPosition DEF Held
  <2>3. new \in Position /\ new.owner = m[s].owner /\ new.qty > 0
    BY <1>1, <1>3, <2>2 DEF Position
  <2> HIDE DEF new
  <2>4. QED
    BY <2>1, <2>2, <2>3 DEF Memory, Held
<1>4. QED
  BY <1>1, <1>2, <1>3

-----------------------------------------------------------------------------
(***************************************************************************)
(* The parts of a step's obligation.                                       *)
(***************************************************************************)
DataTypes ==
  /\ mem \in Memory
  /\ untradeable \subseteq Symbols
  /\ rejected \subseteq Symbols
  /\ closed \subseteq Symbols
  /\ snap \in [Syncing -> [Symbols -> Nat]]
  /\ shares \in [Symbols -> Nat]
  /\ working \in [Symbols -> [Sides -> Nat]]
  /\ notices \in Seq(Notice)
  /\ phase \in {"open", "cutoff", "closing"}
  /\ buys \in Nat

OwnerStep ==
  \A s \in Symbols :
    Held(mem, s) /\ Held(mem', s) => mem'[s].owner = mem[s].owner

BlockedStep ==
  \A s \in Symbols :
    Held(mem, s) /\ ~Held(mem', s) =>
      \/ s \in closed' \cup rejected' \cup untradeable'
      \/ \E t \in Syncing : pc[t] = "merge" /\ pc'[t] # "merge"

StepOK == IInv' /\ OwnerStep /\ BlockedStep

\* nothing is handed to another strategy
Tame ==
  \A s \in Symbols :
    Held(mem', s) =>
      (Held(mem, s) /\ mem'[s].owner = mem[s].owner) \/ mem'[s].owner = "synced"

LEMMA TypeParts == TypeOK <=> TaskTypes /\ DataTypes
BY DEF TypeOK, TaskTypes, DataTypes, Memory

LEMMA TypePartsNext == TypeOK' <=> TaskTypes' /\ DataTypes'
BY DEF TypeOK, TaskTypes, DataTypes, Memory

LEMMA SameMemory ==
  ASSUME mem' = mem
  PROVE  OwnerStep /\ BlockedStep /\ Tame
BY DEF OwnerStep, BlockedStep, Tame, Held

(***************************************************************************)
(* A decision of the receive loop outlives a tame step of another task,    *)
(* and is gone when the receive loop itself has gone on.                   *)
(***************************************************************************)
LEMMA DecisionOutlives ==
  ASSUME TaskTypes, Carrying, DecisionStands, Tame,
         pc'["recv"] = pc["recv"], job'["recv"] = job["recv"]
  PROVE  DecisionStands'
<1> DEFINE o == job["recv"]
<1> SUFFICES ASSUME pc["recv"] \in {"balance", "signal"}
             PROVE  /\ o.side = "buy" => ~Held(mem', o.sym) \/ mem'[o.sym].owner = "synced"
                    /\ (o.side = "sell" /\ pc["recv"] = "signal") =>
                         ~Held(mem', o.sym) \/ mem'[o.sym].owner \in {"synced", o.by}
  BY DEF DecisionStands
<1>1. o.sym \in Symbols
  BY DEF Carrying, Tasks, Order, Ordering
<1>2. QED
  BY <1>1 DEF DecisionStands, Tame

LEMMA GoesOnDecision ==
  ASSUME TaskTypes, Carrying, DecisionStands, NEW t \in Tasks, GoesOn(t),
         t # "recv" => Tame
  PROVE  DecisionStands'
<1>1. CASE t = "recv"
  BY <1>1 DEF GoesOn, DecisionStands
<1>2. CASE t # "recv"
  BY <1>2, DecisionOutlives DEF GoesOn
<1>3. QED
  BY <1>1, <1>2

(***************************************************************************)
(* A step in which task t goes on and the data stay in order.              *)
(***************************************************************************)
LEMMA GoesOnStep ==
  ASSUME IInv, NEW t \in Tasks, GoesOn(t), DataTypes', Covered',
         t # "recv" => Tame, OwnerStep, BlockedStep
  PROVE  StepOK
<1>1. TypeOK'
  BY TypePartsNext DEF GoesOn
<1>2. DecisionStands'
  BY GoesOnDecision, TypeParts DEF IInv, Standing
<1>3. QED
  BY <1>1, <1>2 DEF StepOK, IInv, Standing, GoesOn

(***************************************************************************)
(* A step that leaves the tasks alone.                                     *)
(***************************************************************************)
LEMMA DataStep ==
  ASSUME IInv, UNCHANGED <<running, pending, taskVars>>, DataTypes', Covered',
         Tame \/ pc["recv"] \notin {"balance", "signal"}, OwnerStep, BlockedStep
  PROVE  StepOK
<1>1. UNCHANGED <<running, pending, apiLock, pc, job, todo>>
  BY DEF taskVars
<1>2. TypeOK'
  BY <1>1, TypeParts, TypePartsNext DEF IInv, TaskTypes
<1>3. Carrying'
  BY <1>1 DEF IInv, Standing, Carrying
<1>4. DecisionStands'
  <2>1. CASE Tame
    BY <1>1, <2>1, DecisionOutlives, TypeParts DEF IInv, Standing
  <2>2. CASE pc["recv"] \notin {"balance", "signal"}
    BY <1>1, <2>2 DEF DecisionStands
  <2>3. QED
    BY <2>1, <2>2
<1>5. QED
  BY <1>2, <1>3, <1>4 DEF StepOK, IInv, Standing

-----------------------------------------------------------------------------
LEMMA InitIInv == Init => IInv
<1> SUFFICES ASSUME Init PROVE IInv
  OBVIOUS
<1>1. TypeOK
  BY DEF Init, TypeOK, Places, Ordering, NoShares, Sides, Tasks, Syncing
<1>2. Standing
  BY DEF Init, Standing, Carrying, Covered, DecisionStands, Ordering, NoShares,
         Sides, Tasks
<1>3. QED
  BY <1>1, <1>2 DEF IInv

(***************************************************************************)
(* The receive loop's own messages.                                        *)
(***************************************************************************)
LEMMA TickStep ==
  ASSUME IInv, NEW s \in Symbols, Tick(s)
  PROVE  StepOK
<1>0. TaskTypes /\ DataTypes /\ Carrying /\ Covered
  BY TypeParts DEF IInv, Standing
<1>1. PICK x \in BOOLEAN :
        /\ mem' = IF Held(mem, s) THEN [mem EXCEPT ![s].exit = x] ELSE mem
        /\ CheckRisk("recv", {s}, mem', pending, apiLock)
  BY DEF Tick
<1>2. mem' \in Memory /\ \A r \in Symbols : /\ mem'[r].qty = mem[r].qty
                                           /\ mem'[r].owner = mem[r].owner
  <2>1. CASE Held(mem, s)
    <3>1. mem[s] \in Position
      BY <1>0, <2>1, HeldPosition DEF DataTypes
    <3>2. [mem[s] EXCEPT !.exit = x] \in Position
      BY <3>1 DEF Position
    <3>3. mem' = [mem EXCEPT ![s] = [mem[s] EXCEPT !.exit = x]]
      BY <1>1, <2>1
    <3>4. QED
      BY <1>0, <3>1, <3>2, <3>3 DEF DataTypes, Memory, Position
  <2>2. CASE ~Held(mem, s)
    BY <1>0, <1>1, <2>2 DEF DataTypes
  <2>3. QED
    BY <2>1, <2>2
<1>3. GoesOn("recv")
  BY <1>0, <1>1, <1>2, CheckRiskGoesOn DEF TaskTypes, Tasks
<1>4. OwnerStep /\ BlockedStep
  BY <1>2 DEF OwnerStep, BlockedStep, Held
<1>5. DataTypes' /\ Covered'
  BY <1>0, <1>2 DEF Tick, DataTypes, Covered, outsideVars
<1>6. QED
  BY <1>3, <1>4, <1>5, GoesOnStep DEF Tasks

(***************************************************************************)
(* PlaceSignal leaves the receive loop idle or with an order that its      *)
(* checks allow.                                                           *)
(***************************************************************************)
LEMMA PlaceSignalStep ==
  ASSUME TaskTypes, Carrying, mem \in Memory, mem' = mem,
         NEW sig \in Order,
         sig.side = "buy" => ~Held(mem, sig.sym) \/ mem[sig.sym].owner = "synced",
         NEW p \in Seq(Symbols), NEW l \in Seq(Tasks), PlaceSignal(sig, p, l)
  PROVE  TaskTypes' /\ Carrying' /\ DecisionStands'
<1>1. CASE Rest("recv", p, l)
  <2>1. GoesOn("recv")
    BY <1>1, RestGoesOn DEF Tasks
  <2>2. QED
    BY <2>1 DEF GoesOn, DecisionStands
<1>2. ASSUME NEW q \in Nat \ {0},
             Submit("recv", "signal", [sig EXCEPT !.qty = q], {}, p, l),
             sig.side = "sell" =>
               Held(mem, sig.sym) /\ mem[sig.sym].owner \in {"synced", sig.by}
      PROVE  TaskTypes' /\ Carrying' /\ DecisionStands'
  <2> DEFINE o == [sig EXCEPT !.qty = q]
  <2>1. /\ o \in Order /\ o.qty > 0
        /\ o.sym = sig.sym /\ o.side = sig.side /\ o.by = sig.by
        /\ o.sym \in Symbols
    BY DEF Order
  <2>2. /\ pc' = [pc EXCEPT !["recv"] = "signal"]
        /\ job' = [job EXCEPT !["recv"] = o]
        /\ todo' = [todo EXCEPT !["recv"] = {}]
        /\ pending' = Append(p, o.sym)
        /\ apiLock' = Append(l, "recv")
        /\ running' = running
    BY <1>2 DEF Submit
  <2> HIDE DEF o
  <2>3. TaskTypes'
    <3>1. pending' \in Seq(Symbols) /\ apiLock' \in Seq(Tasks)
      BY <2>1, <2>2, AppendProperties DEF Tasks
    <3>2. QED
      BY <2>1, <2>2, <3>1 DEF TaskTypes, Places, Ordering
  <2>4. Carrying'
    BY <2>1, <2>2 DEF TaskTypes, Carrying, Ordering, Tasks
  <2>5. pc'["recv"] = "signal" /\ job'["recv"] = o
    BY <2>2 DEF TaskTypes, Tasks
  <2>6. DecisionStands'
    BY <1>2, <2>1, <2>5 DEF DecisionStands, Held
  <2>7. QED
    BY <2>3, <2>4, <2>6
<1>3. CASE sig.side = "sell" /\ ~Rest("recv", p, l)
  <2>1. /\ Held(mem, sig.sym)
        /\ mem[sig.sym].owner \in {"synced", sig.by}
        /\ Submit("recv", "signal", [sig EXCEPT !.qty = mem[sig.sym].qty], {}, p, l)
    BY <1>3 DEF PlaceSignal
  <2>2. mem[sig.sym].qty \in Nat \ {0}
    BY <2>1, HeldPosition DEF Held, Order
  <2>3. QED
    BY <1>2, <2>1, <2>2
<1>4. CASE sig.side # "sell" /\ ~Rest("recv", p, l)
  <2>1. PICK q \in 0..MaxSize :
          q # 0 /\ Submit("recv", "signal", [sig EXCEPT !.qty = q], {}, p, l)
    BY <1>4 DEF PlaceSignal
  <2>2. q \in Nat \ {0}
    BY <2>1, SizesAssumption
  <2>3. QED
    BY <1>2, <1>4, <2>1, <2>2
<1>5. QED
  BY <1>1, <1>3, <1>4

LEMMA ProcessSignalStep ==
  ASSUME IInv, NEW s \in Symbols, NEW side \in Sides, NEW by \in Strategies,
         ProcessSignal(s, side, by)
  PROVE  StepOK
<1> DEFINE sig == [sym |-> s, side |-> side, qty |-> 0, by |-> by]
<1>0. TaskTypes /\ DataTypes /\ Carrying /\ Covered
  BY TypeParts DEF IInv, Standing
<1>1. /\ sig \in Order /\ sig.sym = s /\ sig.side = side
      /\ side = "buy" => ~Held(mem, s)
  BY DEF Order, Owners, ProcessSignal, MayBuy
<1>2. /\ PlaceSignal(sig, pending, apiLock) \/ AwaitApi("recv", "balance", sig)
      /\ buys' = IF side = "buy" THEN buys + 1 ELSE buys
      /\ UNCHANGED <<mem, untradeable, rejected, closed, snap,
                     shares, working, notices, phase>>
  BY DEF ProcessSignal
<1> HIDE DEF sig
<1>3. DataTypes' /\ Covered'
  BY <1>0, <1>2 DEF DataTypes, Covered
<1>4. TaskTypes' /\ Carrying' /\ DecisionStands'
  <2>1. CASE PlaceSignal(sig, pending, apiLock)
    BY <1>0, <1>1, <1>2, <2>1, PlaceSignalStep DEF TaskTypes, DataTypes
  <2>2. CASE AwaitApi("recv", "balance", sig)
    <3>1. TaskTypes'
      <4>1. apiLock' \in Seq(Tasks)
        BY <1>0, <2>2, AppendProperties DEF AwaitApi, TaskTypes, Tasks
      <4>2. QED
        BY <1>0, <1>1, <2>2, <4>1 DEF AwaitApi, TaskTypes, Places
    <3>2. Carrying'
      BY <1>0, <1>1, <2>2 DEF AwaitApi, TaskTypes, Carrying, Ordering, Tasks
    <3>3. pc'["recv"] = "balance" /\ job'["recv"] = sig
      BY <1>0, <2>2 DEF AwaitApi, TaskTypes, Tasks
    <3>4. DecisionStands'
      BY <1>1, <1>2, <3>3 DEF DecisionStands, Held
    <3>5. QED
      BY <3>1, <3>2, <3>4
  <2>3. QED
    BY <1>2, <2>1, <2>2
<1>5. QED
  BY <1>2, <1>3, <1>4, TypePartsNext, SameMemory DEF StepOK, IInv, Standing

LEMMA BalanceFetchedStep ==
  ASSUME IInv, BalanceFetched
  PROVE  StepOK
<1> DEFINE sig == job["recv"]
<1>0. TaskTypes /\ DataTypes /\ Carrying /\ Covered /\ DecisionStands
  BY TypeParts DEF IInv, Standing
<1>1. /\ pc["recv"] = "balance" /\ Oldest("recv")
      /\ PlaceSignal(sig, pending, Tail(apiLock))
      /\ UNCHANGED <<mem, untradeable, rejected, closed, snap,
                     shares, working, notices, phase, buys>>
  BY DEF BalanceFetched, outsideVars
<1>2. /\ sig \in Order
      /\ sig.side = "buy" => ~Held(mem, sig.sym) \/ mem[sig.sym].owner = "synced"
  BY <1>0, <1>1 DEF Carrying, DecisionStands, Tasks
<1>3. Tail(apiLock) \in Seq(Tasks)
  BY <1>0, <1>1, TailProperties DEF TaskTypes, Oldest
<1> HIDE DEF sig
<1>4. TaskTypes' /\ Carrying' /\ DecisionStands'
  BY <1>0, <1>1, <1>2, <1>3, PlaceSignalStep DEF TaskTypes, DataTypes
<1>5. DataTypes' /\ Covered'
  BY <1>0, <1>1 DEF DataTypes, Covered
<1>6. QED
  BY <1>1, <1>4, <1>5, TypePartsNext, SameMemory DEF StepOK, IInv, Standing

LEMMA FillNoticeStep ==
  ASSUME IInv, FillNotice
  PROVE  StepOK
<1> DEFINE n == Head(notices)
<1>0. TaskTypes /\ DataTypes /\ Carrying /\ Covered
  BY TypeParts DEF IInv, Standing
<1>1. /\ pc["recv"] = "idle"
      /\ mem' = CASE n.kind = "buy" -> OpenOrAdd(mem, n.sym, n.qty, "ws_fill")
                  [] n.kind = "sell" /\ Held(mem, n.sym) -> CloseOrReduce(mem, n.sym, n.qty)
                  [] OTHER -> mem
      /\ closed' = IF n.kind = "sell" /\ Held(mem, n.sym) /\ n.qty >= mem[n.sym].qty
                   THEN closed \cup {n.sym} ELSE closed
      /\ rejected' = IF n.kind = "refused" THEN rejected \cup {n.sym} ELSE rejected
      /\ notices' = Tail(notices)
      /\ UNCHANGED <<running, untradeable, pending, taskVars, shares, working, phase, buys>>
  BY DEF FillNotice, Receiving
<1>2. n \in Notice /\ Tail(notices) \in Seq(Notice)
  BY <1>0, TailProperties DEF FillNotice, DataTypes
<1>3. /\ n.sym \in Symbols /\ n.qty \in Nat \ {0} /\ n.qty \in Nat
      /\ "ws_fill" \in Owners
      /\ mem \in Memory
      /\ mem[n.sym].qty \in Nat
  BY <1>0, <1>2, HeldPosition DEF Notice, Owners, DataTypes
<1> HIDE DEF n
<1>4. mem' \in Memory /\ OwnerStep /\ BlockedStep
  <2>1. CASE n.kind = "buy"
    <3>1. mem' = OpenOrAdd(mem, n.sym, n.qty, "ws_fill")
      BY <1>1, <2>1
    <3>2. QED
      BY <1>3, <3>1, OpenOrAddMemory DEF OwnerStep, BlockedStep
  <2>2. CASE n.kind = "sell" /\ Held(mem, n.sym)
    <3>1. mem' = CloseOrReduce(mem, n.sym, n.qty)
      BY <1>1, <2>2
    <3>2. /\ mem' \in Memory
          /\ \A r \in Symbols : r # n.sym => mem'[r] = mem[r]
          /\ Held(mem', n.sym) => mem'[n.sym].owner = mem[n.sym].owner
          /\ n.qty < mem[n.sym].qty => Held(mem', n.sym)
      BY <1>3, <2>2, <3>1, CloseOrReduceMemory
    <3>3. OwnerStep
      BY <3>2 DEF OwnerStep
    <3>4. ASSUME NEW s \in Symbols, Held(mem, s), ~Held(mem', s)
          PROVE  s \in closed'
      <4>1. s = n.sym
        BY <3>2, <3>4 DEF Held
      <4>2. n.qty >= mem[n.sym].qty
        BY <1>3, <3>2, <3>4, <4>1
      <4>3. QED
        BY <1>1, <2>2, <4>1, <4>2
    <3>5. QED
      BY <3>2, <3>3, <3>4 DEF BlockedStep
  <2>3. CASE n.kind # "buy" /\ ~(n.kind = "sell" /\ Held(mem, n.sym))
    <3>1. mem' = mem
      BY <1>1, <2>3
    <3>2. QED
      BY <1>3, <3>1, SameMemory
  <2>4. QED
    BY <2>1, <2>2, <2>3
<1>5. DataTypes' /\ Covered'
  <2>1. closed' \subseteq Symbols /\ rejected' \subseteq Symbols
    BY <1>0, <1>1, <1>3 DEF DataTypes
  <2>2. notices' \in Seq(Notice)
    BY <1>1, <1>2
  <2>3. UNCHANGED <<untradeable, snap, shares, working, phase, buys>>
    BY <1>1 DEF taskVars
  <2>4. DataTypes'
    BY <1>0, <1>4, <2>1, <2>2, <2>3 DEF DataTypes
  <2>5. QED
    BY <1>0, <2>3, <2>4 DEF Covered
<1>6. QED
  BY <1>1, <1>4, <1>5, DataStep

-----------------------------------------------------------------------------
(***************************************************************************)
(* The other tasks.                                                        *)
(***************************************************************************)
LEMMA RiskPassStep ==
  ASSUME IInv, RiskPass
  PROVE  StepOK
<1>0. TaskTypes /\ DataTypes /\ Carrying /\ Covered
  BY TypeParts DEF IInv, Standing
<1>1. GoesOn("risk")
  <2>1. HeldIn(mem) \in SUBSET Symbols
    BY DEF HeldIn
  <2>2. QED
    BY <1>0, <2>1, CheckRiskGoesOn DEF RiskPass, TaskTypes, DataTypes, Tasks
<1>2. DataTypes' /\ Covered' /\ mem' = mem
  BY <1>0 DEF RiskPass, DataTypes, Covered, outsideVars
<1>3. QED
  BY <1>1, <1>2, SameMemory, GoesOnStep DEF Tasks

LEMMA LiquidateRequestStep ==
  ASSUME IInv, NEW S \in SUBSET Symbols, LiquidateRequest(S)
  PROVE  StepOK
<1>0. TaskTypes /\ DataTypes /\ Carrying /\ Covered
  BY TypeParts DEF IInv, Standing
<1>1. GoesOn("dash")
  BY <1>0, LiquidateGoesOn DEF LiquidateRequest, TaskTypes, DataTypes, Tasks
<1>2. DataTypes' /\ Covered' /\ mem' = mem
  BY <1>0 DEF LiquidateRequest, DataTypes, Covered, outsideVars
<1>3. QED
  BY <1>1, <1>2, SameMemory, GoesOnStep DEF Tasks

\* a task other than the receive loop moves to a place without an order
LEMMA MovesStep ==
  ASSUME IInv, NEW t \in Syncing, NEW at \in {"snapshot", "merge", "cancel"},
         pc' = [pc EXCEPT ![t] = at], job' = job \/ job' = [job EXCEPT ![t] = NoJob],
         apiLock' \in Seq(Tasks), UNCHANGED <<running, pending, todo>>,
         mem' = mem, DataTypes', Covered'
  PROVE  StepOK
<1>0. TaskTypes /\ DataTypes /\ Carrying /\ DecisionStands
  BY TypeParts DEF IInv, Standing
<1>1. TaskTypes'
  BY <1>0 DEF TaskTypes, Places, Syncing
<1>2. Carrying'
  BY <1>0 DEF TaskTypes, Carrying, Ordering, Syncing
<1>3. pc'["recv"] = pc["recv"] /\ job'["recv"] = job["recv"]
  BY <1>0 DEF TaskTypes, Syncing, Tasks
<1>4. DecisionStands'
  BY <1>0, <1>3, SameMemory, DecisionOutlives
<1>5. QED
  BY <1>1, <1>2, <1>4, TypePartsNext, SameMemory DEF StepOK, IInv, Standing

LEMMA SyncBeginStep ==
  ASSUME IInv, SyncBegin
  PROVE  StepOK
<1>0. TaskTypes /\ DataTypes /\ Carrying /\ Covered
  BY TypeParts DEF IInv, Standing
<1>1. DataTypes' /\ Covered' /\ mem' = mem
  BY <1>0 DEF SyncBegin, DataTypes, Covered, outsideVars
<1>2. apiLock' \in Seq(Tasks)
  BY <1>0, AppendProperties DEF SyncBegin, AwaitApi, TaskTypes, Tasks
<1>3. QED
  BY <1>1, <1>2, MovesStep DEF SyncBegin, AwaitApi, Syncing

LEMMA CancelRequestStep ==
  ASSUME IInv, CancelRequest
  PROVE  StepOK
<1>0. TaskTypes /\ DataTypes /\ Carrying /\ Covered
  BY TypeParts DEF IInv, Standing
<1>1. DataTypes' /\ Covered' /\ mem' = mem
  BY <1>0 DEF CancelRequest, DataTypes, Covered, outsideVars
<1>2. apiLock' \in Seq(Tasks)
  BY <1>0, AppendProperties DEF CancelRequest, AwaitApi, TaskTypes, Tasks
<1>3. QED
  BY <1>1, <1>2, MovesStep DEF CancelRequest, AwaitApi, Syncing

LEMMA SyncFetchStep ==
  ASSUME IInv, NEW t \in Syncing, SyncFetch(t)
  PROVE  StepOK
<1>0. TaskTypes /\ DataTypes /\ Carrying /\ Covered
  BY TypeParts DEF IInv, Standing
<1>1. DataTypes' /\ Covered' /\ mem' = mem
  BY <1>0 DEF SyncFetch, DataTypes, Covered, engineVars, outsideVars
<1>2. apiLock' \in Seq(Tasks)
  BY <1>0, TailProperties DEF SyncFetch, Oldest, TaskTypes
<1>3. QED
  BY <1>1, <1>2, MovesStep DEF SyncFetch, engineVars

LEMMA OrdersCancelledStep ==
  ASSUME IInv, OrdersCancelled
  PROVE  StepOK
<1>0. TaskTypes /\ DataTypes /\ Carrying /\ Covered
  BY TypeParts DEF IInv, Standing
<1>1. /\ mem' = mem
      /\ UNCHANGED <<untradeable, rejected, closed, snap, shares, notices, phase, buys>>
  BY DEF OrdersCancelled
<1>2. Tail(apiLock) \in Seq(Tasks)
  BY <1>0, TailProperties DEF OrdersCancelled, Oldest, TaskTypes
<1>3. CASE Rest("dash", pending, Tail(apiLock)) /\ UNCHANGED working
  <2>1. GoesOn("dash")
    BY <1>0, <1>2, <1>3, RestGoesOn DEF TaskTypes, Tasks
  <2>2. DataTypes' /\ Covered'
    BY <1>0, <1>1, <1>3 DEF DataTypes, Covered
  <2>3. QED
    BY <1>1, <2>1, <2>2, SameMemory, GoesOnStep DEF Tasks
<1>4. CASE /\ working' = [s \in Symbols |-> [d \in Sides |-> 0]]
           /\ pc' = [pc EXCEPT !["dash"] = "snapshot"]
           /\ apiLock' = Append(Tail(apiLock), "dash")
           /\ UNCHANGED <<running, pending, job, todo>>
  <2>1. DataTypes' /\ Covered'
    BY <1>0, <1>1, <1>4 DEF DataTypes, Covered, Sides
  <2>2. apiLock' \in Seq(Tasks)
    BY <1>2, <1>4, AppendProperties DEF Tasks
  <2>3. QED
    BY <1>1, <1>4, <2>1, <2>2, MovesStep DEF Syncing
<1>5. QED
  BY <1>3, <1>4 DEF OrdersCancelled

(***************************************************************************)
(* sync_positions: the memory is emptied or keeps its owners, and what is  *)
(* new belongs to nobody.                                                  *)
(***************************************************************************)
LEMMA MergedMemory ==
  ASSUME NEW m \in Memory, NEW got \in [Symbols -> Nat],
         NEW x \in [Symbols -> BOOLEAN]
  PROVE  /\ Merged(m, got, x) \in Memory
         /\ \A s \in Symbols :
              Held(Merged(m, got, x), s) =>
                Merged(m, got, x)[s].owner = IF Held(m, s) THEN m[s].owner ELSE "synced"
<1> DEFINE entry(s) == IF got[s] = 0 \/ s \in untradeable \cup rejected THEN NoPos
                       ELSE [qty |-> got[s],
                             owner |-> IF Held(m, s) THEN m[s].owner ELSE "synced",
                             exit |-> x[s]]
<1>1. Merged(m, got, x) = [s \in Symbols |-> entry(s)]
  BY DEF Merged
<1>2. ASSUME NEW s \in Symbols
      PROVE  /\ entry(s) \in Position \cup {NoPos}
             /\ entry(s).qty > 0 =>
                  entry(s).owner = IF Held(m, s) THEN m[s].owner ELSE "synced"
  <2>1. CASE got[s] = 0 \/ s \in untradeable \cup rejected
    BY <2>1 DEF NoPos
  <2>2. CASE ~(got[s] = 0 \/ s \in untradeable \cup rejected)
    <3>1. got[s] \in Nat \ {0} /\ x[s] \in BOOLEAN
      BY <2>2
    <3>2. (IF Held(m, s) THEN m[s].owner ELSE "synced") \in Owners
      BY HeldPosition DEF Owners, Position
    <3>3. QED
      BY <2>2, <3>1, <3>2 DEF Position
  <2>3. QED
    BY <2>1, <2>2
<1> HIDE DEF entry
<1>3. QED
  BY <1>1, <1>2 DEF Memory, Held

LEMMA SyncMergeStep ==
  ASSUME IInv, NEW t \in Syncing, SyncMerge(t)
  PROVE  StepOK
<1>0. TaskTypes /\ DataTypes /\ Carrying /\ Covered
  BY TypeParts DEF IInv, Standing
<1>1. PICK x \in [Symbols -> BOOLEAN] : mem' = Merged(mem, snap[t], x)
  BY DEF SyncMerge
<1>2. /\ mem' \in Memory
      /\ \A s \in Symbols :
           Held(mem', s) => mem'[s].owner = IF Held(mem, s) THEN mem[s].owner ELSE "synced"
  BY <1>0, <1>1, MergedMemory DEF DataTypes
<1>3. /\ pc[t] = "merge"
      /\ snap' = [snap EXCEPT ![t] = NoShares]
      /\ \/ CheckRisk(t, HeldIn(mem'), mem', pending, apiLock)
         \/ Rest(t, pending, apiLock)
      /\ UNCHANGED <<untradeable, rejected, closed, shares, working, notices, phase, buys>>
  BY DEF SyncMerge, outsideVars
<1>4. GoesOn(t)
  <2>1. HeldIn(mem') \in SUBSET Symbols
    BY DEF HeldIn
  <2>2. QED
    BY <1>0, <1>2, <1>3, <2>1, CheckRiskGoesOn, RestGoesOn
    DEF TaskTypes, Syncing, Tasks
<1>5. OwnerStep /\ Tame
  BY <1>2 DEF OwnerStep, Tame
<1>6. BlockedStep
  BY <1>3, <1>4 DEF BlockedStep, GoesOn
<1>7. DataTypes' /\ Covered'
  <2>1. snap' \in [Syncing -> [Symbols -> Nat]]
    BY <1>0, <1>3 DEF DataTypes, NoShares
  <2>2. QED
    BY <1>0, <1>2, <1>3, <2>1 DEF DataTypes, Covered
<1>8. QED
  BY <1>4, <1>5, <1>6, <1>7, GoesOnStep DEF Syncing, Tasks

LEMMA SyncFailedStep ==
  ASSUME IInv, NEW t \in Syncing, SyncFailed(t)
  PROVE  StepOK
<1>0. TaskTypes /\ DataTypes /\ Carrying /\ Covered
  BY TypeParts DEF IInv, Standing
<1>1. /\ snap' = [snap EXCEPT ![t] = NoShares]
      /\ Rest(t, pending, apiLock)
      /\ UNCHANGED <<mem, untradeable, rejected, closed,
                     shares, working, notices, phase, buys>>
  BY DEF SyncFailed, outsideVars
<1>2. GoesOn(t)
  BY <1>0, <1>1, RestGoesOn DEF TaskTypes, Syncing, Tasks
<1>3. DataTypes' /\ Covered'
  <2>1. snap' \in [Syncing -> [Symbols -> Nat]]
    BY <1>0, <1>1 DEF DataTypes, NoShares
  <2>2. QED
    BY <1>0, <1>1, <2>1 DEF DataTypes, Covered
<1>4. QED
  BY <1>1, <1>2, <1>3, SameMemory, GoesOnStep DEF Syncing, Tasks

-----------------------------------------------------------------------------
(***************************************************************************)
(* The broker's answers.                                                   *)
(***************************************************************************)
LEMMA AcceptedStep ==
  ASSUME IInv, NEW t \in Tasks, Accepted(t)
  PROVE  StepOK
<1> DEFINE o == job[t]
<1>0. TaskTypes /\ DataTypes /\ Carrying /\ Covered
  BY TypeParts DEF IInv, Standing
<1>1. /\ OrderServed(t)
      /\ o.side = "sell" => o.qty <= Sellable(o.sym)
      /\ mem' = UpdateOnFill(mem, o)
      /\ closed' = IF o.side = "sell" THEN closed \cup {o.sym} ELSE closed
      /\ working' = [working EXCEPT ![o.sym][o.side] = @ + o.qty]
      /\ Resume(t, mem')
      /\ UNCHANGED <<untradeable, rejected, snap, shares, notices, phase, buys>>
  BY DEF Accepted
<1>2. /\ o \in Order /\ o.qty \in Nat \ {0} /\ o.sym \in Symbols
      /\ o.side \in Sides /\ o.by \in Owners
      /\ t # "recv" => o.side = "sell"
  BY <1>0, <1>1 DEF Carrying, OrderServed, Order
<1>3. mem \in Memory
  BY <1>0 DEF DataTypes
<1> HIDE DEF o
<1>4. /\ mem' \in Memory /\ OwnerStep /\ BlockedStep
      /\ t # "recv" => Tame
  <2>1. CASE o.side = "buy"
    <3>1. mem' = OpenOrAdd(mem, o.sym, o.qty, o.by)
      BY <1>1, <2>1 DEF UpdateOnFill
    <3>2. QED
      BY <1>2, <1>3, <2>1, <3>1, OpenOrAddMemory DEF OwnerStep, BlockedStep
  <2>2. CASE o.side = "sell"
    <3>1. mem' = CloseOrReduce(mem, o.sym, o.qty)
      BY <1>1, <2>2 DEF UpdateOnFill
    <3>2. /\ mem' \in Memory
          /\ \A r \in Symbols : r # o.sym => mem'[r] = mem[r]
          /\ Held(mem', o.sym) => /\ Held(mem, o.sym)
                                  /\ mem'[o.sym].owner = mem[o.sym].owner
      BY <1>2, <1>3, <3>1, CloseOrReduceMemory
    <3>3. OwnerStep /\ Tame
      BY <3>2 DEF OwnerStep, Tame, Held
    <3>4. BlockedStep
      BY <1>1, <2>2, <3>2 DEF BlockedStep, Held
    <3>5. QED
      BY <3>2, <3>3, <3>4
  <2>3. QED
    BY <1>2, <2>1, <2>2 DEF Sides
<1>5. GoesOn(t)
  BY <1>0, <1>1, <1>4, ResumeGoesOn
<1>6. DataTypes' /\ Covered'
  <2>1. /\ working' \in [Symbols -> [Sides -> Nat]]
        /\ \A s \in Symbols, d \in Sides :
             working'[s][d] = IF s = o.sym /\ d = o.side THEN working[s][d] + o.qty
                              ELSE working[s][d]
    BY <1>0, <1>1, <1>2 DEF DataTypes
  <2>2. closed' \subseteq Symbols
    BY <1>0, <1>1, <1>2 DEF DataTypes
  <2>3. DataTypes'
    BY <1>0, <1>1, <1>4, <2>1, <2>2 DEF DataTypes
  <2>4. ASSUME NEW s \in Symbols PROVE working'[s]["sell"] <= shares'[s]
    <3>1. /\ shares[s] \in Nat /\ working[s]["sell"] \in Nat
          /\ working[s]["sell"] <= shares[s] /\ shares' = shares
      BY <1>0, <1>1 DEF DataTypes, Covered, Sides
    <3>2. CASE s = o.sym /\ o.side = "sell"
      <4>1. o.qty <= shares[s] - working[s]["sell"]
        BY <1>1, <3>2 DEF Sellable
      <4>2. working'[s]["sell"] = working[s]["sell"] + o.qty
        BY <2>1, <3>2 DEF Sides
      <4>3. QED
        BY <1>2, <3>1, <4>1, <4>2
    <3>3. CASE ~(s = o.sym /\ o.side = "sell")
      BY <2>1, <3>1, <3>3 DEF Sides
    <3>4. QED
      BY <3>2, <3>3
  <2>5. QED
    BY <2>3, <2>4 DEF Covered
<1>7. QED
  BY <1>4, <1>5, <1>6, GoesOnStep

LEMMA RefusedStep ==
  ASSUME IInv, NEW t \in Tasks, Refused(t)
  PROVE  StepOK
<1> DEFINE o == job[t]
<1>0. TaskTypes /\ DataTypes /\ Carrying /\ Covered
  BY TypeParts DEF IInv, Standing
<1>1. /\ OrderServed(t)
      /\ \/ untradeable' = untradeable \cup {o.sym} /\ rejected' = rejected
         \/ rejected' = rejected \cup {o.sym} /\ untradeable' = untradeable
      /\ mem' = IF o.side = "sell" THEN Drop(mem, o.sym) ELSE mem
      /\ Resume(t, mem')
      /\ UNCHANGED <<closed, snap, shares, working, notices, phase, buys>>
  BY DEF Refused, outsideVars
<1>2. o.sym \in Symbols /\ mem \in Memory
  BY <1>0, <1>1 DEF Carrying, OrderServed, Order, DataTypes
<1> HIDE DEF o
<1>3. mem' \in Memory /\ OwnerStep /\ BlockedStep /\ Tame
  <2>1. CASE mem' = mem
    BY <1>2, <2>1, SameMemory
  <2>2. CASE mem' = Drop(mem, o.sym)
    <3>1. /\ mem' \in Memory
          /\ \A r \in Symbols : mem'[r] = IF r = o.sym THEN NoPos ELSE mem[r]
      BY <1>2, <2>2, DropMemory
    <3>2. ~Held(mem', o.sym)
      BY <1>2, <3>1 DEF Held, NoPos
    <3>3. QED
      BY <1>1, <3>1, <3>2 DEF OwnerStep, BlockedStep, Tame, Held
  <2>3. QED
    BY <1>1, <2>1, <2>2
<1>4. GoesOn(t)
  BY <1>0, <1>1, <1>3, ResumeGoesOn
<1>5. DataTypes' /\ Covered'
  BY <1>0, <1>1, <1>2, <1>3 DEF DataTypes, Covered
<1>6. QED
  BY <1>3, <1>4, <1>5, GoesOnStep

-----------------------------------------------------------------------------
(***************************************************************************)
(* VI events, the exchange and the clock leave the tasks alone.            *)
(***************************************************************************)
LEMMA FillStep ==
  ASSUME IInv, NEW s \in Symbols, NEW d \in Sides, NEW q \in 1..working[s][d],
         Fill(s, d, q)
  PROVE  StepOK
<1>0. TaskTypes /\ DataTypes /\ Covered
  BY TypeParts DEF IInv, Standing
<1>1. /\ working' = [working EXCEPT ![s][d] = @ - q]
      /\ shares' = [shares EXCEPT ![s] = IF d = "buy" THEN @ + q ELSE @ - q]
      /\ notices' = Append(notices, [kind |-> d, sym |-> s, qty |-> q])
      /\ UNCHANGED <<running, pending, taskVars, mem, untradeable, rejected, closed,
                     snap, phase, buys>>
  BY DEF Fill, engineVars, taskVars
<1>2. /\ working[s][d] \in Nat /\ shares[s] \in Nat
      /\ q \in Nat \ {0} /\ q <= working[s][d] /\ working[s][d] - q \in Nat
  BY <1>0 DEF DataTypes
<1>3. /\ working' \in [Symbols -> [Sides -> Nat]]
      /\ \A r \in Symbols, e \in Sides :
           working'[r][e] = IF r = s /\ e = d THEN working[s][d] - q ELSE working[r][e]
  BY <1>0, <1>1, <1>2 DEF DataTypes
<1>4. /\ d = "buy" => shares[s] + q \in Nat
      /\ d = "sell" => shares[s] - q \in Nat /\ working[s]["sell"] <= shares[s]
  BY <1>0, <1>2 DEF Covered
<1>5. /\ shares' \in [Symbols -> Nat]
      /\ \A r \in Symbols :
           shares'[r] = IF r # s THEN shares[r]
                        ELSE IF d = "buy" THEN shares[s] + q ELSE shares[s] - q
  BY <1>0, <1>1, <1>4 DEF DataTypes, Sides
<1>6. notices' \in Seq(Notice)
  <2>1. [kind |-> d, sym |-> s, qty |-> q] \in Notice
    BY <1>2 DEF Notice, Sides
  <2>2. QED
    BY <1>0, <1>1, <2>1, AppendProperties DEF DataTypes
<1>7. DataTypes'
  BY <1>0, <1>1, <1>3, <1>5, <1>6 DEF DataTypes
<1>8. ASSUME NEW r \in Symbols PROVE working'[r]["sell"] <= shares'[r]
  <2>1. working[r]["sell"] <= shares[r] /\ "sell" \in Sides
        /\ working[r]["sell"] \in Nat /\ shares[r] \in Nat
    BY <1>0 DEF Covered, Sides, DataTypes
  <2>2. CASE r # s
    BY <1>3, <1>5, <2>1, <2>2
  <2>3. CASE r = s /\ d = "buy"
    BY <1>2, <1>3, <1>5, <2>1, <2>3
  <2>4. CASE r = s /\ d = "sell"
    BY <1>2, <1>3, <1>5, <2>1, <2>4
  <2>5. QED
    BY <2>2, <2>3, <2>4 DEF Sides
<1>9. QED
  BY <1>1, <1>7, <1>8, SameMemory, DataStep DEF Covered

LEMMA LateRefusalStep ==
  ASSUME IInv, NEW s \in Symbols, NEW d \in Sides, LateRefusal(s, d)
  PROVE  StepOK
<1>0. TaskTypes /\ DataTypes /\ Covered
  BY TypeParts DEF IInv, Standing
<1>1. /\ working[s][d] > 0
      /\ working' = [working EXCEPT ![s][d] = 0]
      /\ notices' = Append(notices, [kind |-> "refused", sym |-> s, qty |-> working[s][d]])
      /\ UNCHANGED <<running, pending, taskVars, mem, untradeable, rejected, closed,
                     snap, shares, phase, buys>>
  BY DEF LateRefusal, engineVars, taskVars
<1>2. notices' \in Seq(Notice)
  <2>1. [kind |-> "refused", sym |-> s, qty |-> working[s][d]] \in Notice
    BY <1>0, <1>1 DEF Notice, DataTypes
  <2>2. QED
    BY <1>0, <1>1, <2>1, AppendProperties DEF DataTypes
<1>3. /\ working' \in [Symbols -> [Sides -> Nat]]
      /\ \A r \in Symbols, e \in Sides :
           working'[r][e] = IF r = s /\ e = d THEN 0 ELSE working[r][e]
  BY <1>0, <1>1 DEF DataTypes
<1>4. DataTypes'
  BY <1>0, <1>1, <1>2, <1>3 DEF DataTypes
<1>5. Covered'
  BY <1>0, <1>1, <1>3 DEF Covered, DataTypes, Sides
<1>6. QED
  BY <1>1, <1>4, <1>5, SameMemory, DataStep

LEMMA StagnatesStep ==
  ASSUME IInv, NEW s \in Symbols, Stagnates(s)
  PROVE  StepOK
<1>0. TaskTypes /\ DataTypes /\ Covered
  BY TypeParts DEF IInv, Standing
<1>1. /\ Held(mem, s)
      /\ mem' = [mem EXCEPT ![s].exit = TRUE]
      /\ UNCHANGED <<running, pending, taskVars, untradeable, rejected, closed,
                     snap, shares, working, notices, phase, buys>>
  BY DEF Stagnates, taskVars, outsideVars
<1>2. mem[s] \in Position /\ [mem[s] EXCEPT !.exit = TRUE] \in Position
  <2>1. mem[s] \in Position
    BY <1>0, <1>1, HeldPosition DEF DataTypes
  <2>2. QED
    BY <2>1 DEF Position
<1>3. /\ mem' \in Memory
      /\ \A r \in Symbols : mem'[r].qty = mem[r].qty /\ mem'[r].owner = mem[r].owner
  BY <1>0, <1>1, <1>2 DEF DataTypes, Memory, Position
<1>4. OwnerStep /\ BlockedStep /\ Tame
  BY <1>3 DEF OwnerStep, BlockedStep, Tame, Held
<1>5. DataTypes' /\ Covered'
  BY <1>0, <1>1, <1>3 DEF DataTypes, Covered, taskVars
<1>6. QED
  BY <1>1, <1>4, <1>5, DataStep

\* the steps that change at most a cooldown, untradeable, the notices or the hour
LEMMA QuietStep ==
  ASSUME IInv,
         UNCHANGED <<running, pending, taskVars, mem, shares, working, buys>>,
         untradeable' \subseteq Symbols, rejected' \subseteq Symbols,
         closed' \subseteq Symbols, notices' \in Seq(Notice),
         phase' \in {"open", "cutoff", "closing"}
  PROVE  StepOK
<1>1. DataTypes' /\ Covered'
  BY TypeParts DEF IInv, Standing, DataTypes, Covered, taskVars
<1>2. QED
  BY <1>1, SameMemory, DataStep

-----------------------------------------------------------------------------
LEMMA ReceiveStep ==
  ASSUME IInv, Receive
  PROVE  StepOK
<1>0. DataTypes
  BY TypeParts DEF IInv
<1>1. CASE \E s \in Symbols : Tick(s)
  BY <1>1, TickStep
<1>2. CASE \E s \in Symbols, side \in Sides, by \in Strategies : ProcessSignal(s, side, by)
  BY <1>2, ProcessSignalStep
<1>3. CASE BalanceFetched
  BY <1>3, BalanceFetchedStep
<1>4. CASE FillNotice
  BY <1>4, FillNoticeStep
<1>5. CASE \E s \in Symbols, triggered \in BOOLEAN : ViEvent(s, triggered)
  <2>1. /\ untradeable' \subseteq Symbols
        /\ UNCHANGED <<running, mem, rejected, closed, pending, taskVars,
                       shares, working, notices, phase, buys>>
    BY <1>0, <1>5 DEF ViEvent, DataTypes, outsideVars
  <2>2. QED
    BY <1>0, <2>1, QuietStep DEF DataTypes
<1>6. QED
  BY <1>1, <1>2, <1>3, <1>4, <1>5 DEF Receive

LEMMA OutsideStep ==
  ASSUME IInv, Outside
  PROVE  StepOK
<1>0. DataTypes
  BY TypeParts DEF IInv
<1>1. CASE \E s \in Symbols, d \in Sides : \E q \in 1..working[s][d] : Fill(s, d, q)
  BY <1>1, FillStep
<1>2. CASE \E s \in Symbols, d \in Sides : LateRefusal(s, d)
  BY <1>2, LateRefusalStep
<1>3. CASE \E s \in Symbols : Stagnates(s)
  BY <1>3, StagnatesStep
<1>4. CASE NoticesLost
  <2>1. notices' \in Seq(Notice)
    BY <1>4 DEF NoticesLost
  <2>2. QED
    BY <1>0, <1>4, <2>1, QuietStep DEF NoticesLost, DataTypes, engineVars
<1>5. CASE \E s \in Symbols : RejectCooldownOver(s)
  <2>1. /\ rejected' \subseteq Symbols
        /\ UNCHANGED <<running, mem, untradeable, closed, pending, taskVars,
                       shares, working, notices, phase, buys>>
    BY <1>0, <1>5 DEF RejectCooldownOver, DataTypes, outsideVars
  <2>2. QED
    BY <1>0, <2>1, QuietStep DEF DataTypes
<1>6. CASE \E s \in Symbols : CloseCooldownOver(s)
  <2>1. /\ closed' \subseteq Symbols
        /\ UNCHANGED <<running, mem, untradeable, rejected, pending, taskVars,
                       shares, working, notices, phase, buys>>
    BY <1>0, <1>6 DEF CloseCooldownOver, DataTypes, outsideVars
  <2>2. QED
    BY <1>0, <2>1, QuietStep DEF DataTypes
<1>7. CASE ClockAdvances
  <2>1. phase' \in {"open", "cutoff", "closing"}
    BY <1>7 DEF ClockAdvances
  <2>2. QED
    BY <1>0, <1>7, <2>1, QuietStep DEF ClockAdvances, DataTypes, engineVars
<1>8. QED
  BY <1>1, <1>2, <1>3, <1>4, <1>5, <1>6, <1>7 DEF Outside

LEMMA NextStep ==
  ASSUME IInv, [Next]_vars
  PROVE  StepOK
<1>1. CASE Receive
  BY <1>1, ReceiveStep
<1>2. CASE RiskPass
  BY <1>2, RiskPassStep
<1>3. CASE SyncBegin
  BY <1>3, SyncBeginStep
<1>4. CASE \E t \in Syncing : SyncFetch(t) \/ SyncMerge(t) \/ SyncFailed(t)
  BY <1>4, SyncFetchStep, SyncMergeStep, SyncFailedStep
<1>5. CASE \E S \in {HeldIn(mem)} \cup {{s} : s \in HeldIn(mem)} : LiquidateRequest(S)
  BY <1>5, LiquidateRequestStep DEF HeldIn
<1>6. CASE CancelRequest \/ OrdersCancelled
  BY <1>6, CancelRequestStep, OrdersCancelledStep
<1>7. CASE \E t \in Tasks : Accepted(t) \/ Refused(t)
  BY <1>7, AcceptedStep, RefusedStep
<1>8. CASE Outside
  BY <1>8, OutsideStep
<1>9. CASE UNCHANGED vars
  <2>1. UNCHANGED <<running, mem, untradeable, rejected, closed, pending, taskVars,
                    shares, working, notices, phase, buys>>
    BY <1>9 DEF vars, engineVars, outsideVars
  <2>2. QED
    BY <2>1, TypeParts, QuietStep DEF IInv, DataTypes
<1>10. QED
  BY <1>1, <1>2, <1>3, <1>4, <1>5, <1>6, <1>7, <1>8, <1>9 DEF Next

-----------------------------------------------------------------------------
(***************************************************************************)
(* The inductive invariant holds of every behaviour.                       *)
(***************************************************************************)
THEOREM Invariance == Safe => []IInv
<1>1. IInv /\ [Next]_vars => IInv'
  BY NextStep DEF StepOK
<1>2. QED
  BY InitIInv, <1>1, PTL DEF Safe

(***************************************************************************)
(* Types, for every instance: among others no quantity in memory, at the   *)
(* exchange or in a notice is ever negative or a position of zero shares   *)
(* (position.py:70-75, engine.py:252-261).                                 *)
(***************************************************************************)
THEOREM TypeCorrect == Safe => []TypeOK
<1>1. IInv => TypeOK
  BY DEF IInv
<1>2. QED
  BY <1>1, Invariance, PTL

(***************************************************************************)
(* What _process_signal decided before it awaited the API still stands     *)
(* when the order is executed (engine.py:315-337).                         *)
(***************************************************************************)
THEOREM DecisionAlwaysStands == Safe => []DecisionStands
<1>1. IInv => DecisionStands
  BY DEF IInv, Standing
<1>2. QED
  BY <1>1, Invariance, PTL

(***************************************************************************)
(* A position keeps its owner while it is in memory (kis.py:252-260,       *)
(* position.py:39-59, engine.py:241-248).                                  *)
(***************************************************************************)
THEOREM OwnerAlwaysKept == Safe => OwnerKept
<1>1. IInv /\ [Next]_vars => OwnerStep
  BY NextStep DEF StepOK
<1>2. IInv /\ [Next]_vars =>
        [\A s \in Symbols :
           Held(mem, s) /\ Held(mem', s) => mem'[s].owner = mem[s].owner]_vars
  BY <1>1 DEF OwnerStep
<1>3. QED
  BY <1>2, Invariance, PTL DEF Safe, OwnerKept

(***************************************************************************)
(* A symbol leaves the memory only with a block on buying it again, unless *)
(* sync_positions finds it gone (engine.py:253-255, 363-370, 395, 481-500). *)
(***************************************************************************)
THEOREM AlwaysLeavesBlocked == Safe => LeavesBlocked
<1>1. IInv /\ [Next]_vars => BlockedStep
  BY NextStep DEF StepOK
<1>2. IInv /\ [Next]_vars =>
        [\A s \in Symbols :
           Held(mem, s) /\ ~Held(mem', s) =>
             \/ s \in closed' \cup rejected' \cup untradeable'
             \/ \E t \in Syncing : pc[t] = "merge" /\ pc'[t] # "merge"]_vars
  BY <1>1 DEF BlockedStep
<1>3. QED
  BY <1>2, Invariance, PTL DEF Safe, LeavesBlocked

-----------------------------------------------------------------------------
(***************************************************************************)
(* An order in flight is always among the pending ones, for any symbols    *)
(* and strategies: the API lock serves its waiters in the order in which   *)
(* their symbols stand in the deque of pending orders.  The queue c, l     *)
(* of the tasks' places and of the lock holds every waiting task once, and *)
(* nobody else (LineUp).  Every task that waits with an order has an entry *)
(* f[t] of its own in the deque, which names its symbol, and the entries   *)
(* stand in the order in which the tasks will be served (Matched).  The    *)
(* deque may hold further entries: the risk task, cancelled by the market  *)
(* close, leaves its own behind.  Serving an order takes the oldest entry, *)
(* which is then its own or one in front of it: hence the order.           *)
(***************************************************************************)
Waiting == Ordering \cup {"balance", "snapshot", "cancel"}

LineUp(c, l) ==
  /\ \A i \in 1..Len(l) : c[l[i]] \in Waiting
  /\ \A t \in Tasks : c[t] \in Waiting => \E i \in 1..Len(l) : l[i] = t
  /\ \A i, k \in 1..Len(l) : l[i] = l[k] => i = k

Matched(f, c, j, l, p) ==
  /\ \A t \in Tasks : c[t] \in Ordering => f[t] \in 1..Len(p) /\ p[f[t]] = j[t].sym
  /\ \A i, k \in 1..Len(l) :
       i < k /\ c[l[i]] \in Ordering /\ c[l[k]] \in Ordering => f[l[i]] < f[l[k]]

InLine(c, j, l, p) ==
  /\ l \in Seq(Tasks) /\ p \in Seq(Symbols)
  /\ c \in [Tasks -> Places] /\ j \in [Tasks -> Order \cup {NoJob}]
  /\ LineUp(c, l)
  /\ \E f \in [Tasks -> Nat] : Matched(f, c, j, l, p)

OrdersInLine == InLine(pc, job, apiLock, pending)

\* the oldest waiter leaves the queue
LEMMA HeadLeaves ==
  ASSUME NEW c \in [Tasks -> Places], NEW l \in Seq(Tasks), LineUp(c, l),
         NEW t \in Tasks, l # <<>>, Head(l) = t,
         NEW c2, c2 = [c EXCEPT ![t] = "idle"]
  PROVE  /\ c2 \in [Tasks -> Places]
         /\ \A u \in Tasks : c2[u] = IF u = t THEN "idle" ELSE c[u]
         /\ LineUp(c2, Tail(l))
<1>1. /\ Tail(l) \in Seq(Tasks) /\ Len(Tail(l)) = Len(l) - 1 /\ Len(l) \in Nat \ {0}
      /\ \A k \in 1..(Len(l) - 1) : Tail(l)[k] = l[k + 1]
      /\ l[1] = t
  BY TailProperties
<1>2. /\ c2 \in [Tasks -> Places] /\ c2[t] = "idle"
      /\ \A u \in Tasks : u # t => c2[u] = c[u]
  BY DEF Places
<1>3. "idle" \notin Waiting
  BY DEF Waiting, Ordering
<1>4. \A i \in 1..(Len(l) - 1) : i + 1 \in 1..Len(l) /\ l[i + 1] # t
  BY <1>1 DEF LineUp
<1>5. ASSUME NEW i \in 1..Len(Tail(l)) PROVE c2[Tail(l)[i]] \in Waiting
  <2>1. Tail(l)[i] = l[i + 1] /\ l[i + 1] # t /\ i + 1 \in 1..Len(l) /\ l[i + 1] \in Tasks
    BY <1>1, <1>4
  <2>2. QED
    BY <1>2, <2>1 DEF LineUp
<1>6. ASSUME NEW u \in Tasks, c2[u] \in Waiting
      PROVE  \E i \in 1..Len(Tail(l)) : Tail(l)[i] = u
  <2>1. u # t /\ c[u] \in Waiting
    BY <1>2, <1>3, <1>6
  <2>2. PICK i \in 1..Len(l) : l[i] = u
    BY <2>1 DEF LineUp
  <2>3. i - 1 \in 1..(Len(l) - 1)
    BY <1>1, <2>1, <2>2
  <2>4. Tail(l)[i - 1] = u
    BY <1>1, <2>2, <2>3
  <2>5. QED
    BY <1>1, <2>3, <2>4
<1>7. ASSUME NEW i \in 1..Len(Tail(l)), NEW k \in 1..Len(Tail(l)),
             Tail(l)[i] = Tail(l)[k]
      PROVE  i = k
  <2>1. l[i + 1] = l[k + 1] /\ i + 1 \in 1..Len(l) /\ k + 1 \in 1..Len(l)
    BY <1>1, <1>4, <1>7
  <2>2. QED
    BY <1>1, <2>1 DEF LineUp
<1>8. LineUp(c2, Tail(l))
  BY <1>5, <1>6, <1>7 DEF LineUp
<1>9. QED
  BY <1>2, <1>4, <1>8

\* the order of the oldest waiter is answered, and the oldest entry of the deque popped
LEMMA OrderLeaves ==
  ASSUME NEW c, NEW j, NEW l, NEW p, InLine(c, j, l, p),
         NEW t \in Tasks, c[t] \in Ordering, l # <<>>, Head(l) = t
  PROVE  /\ p # <<>>
         /\ InLine([c EXCEPT ![t] = "idle"], j, Tail(l), Tail(p))
<1>c. PICK c2 : c2 = [c EXCEPT ![t] = "idle"]
  OBVIOUS
<1>0. /\ l \in Seq(Tasks) /\ p \in Seq(Symbols)
      /\ c \in [Tasks -> Places] /\ j \in [Tasks -> Order \cup {NoJob}]
      /\ LineUp(c, l)
  BY DEF InLine
<1>1. PICK f \in [Tasks -> Nat] : Matched(f, c, j, l, p)
  BY DEF InLine
<1>2. f[t] \in 1..Len(p) /\ Len(p) \in Nat
  BY <1>0, <1>1 DEF Matched
<1>3. p # <<>>
  BY <1>0, <1>2
<1>4. /\ Tail(l) \in Seq(Tasks) /\ Len(Tail(l)) = Len(l) - 1 /\ Len(l) \in Nat \ {0}
      /\ \A k \in 1..(Len(l) - 1) : Tail(l)[k] = l[k + 1]
      /\ l[1] = t
  BY <1>0, TailProperties
<1>5. /\ Tail(p) \in Seq(Symbols) /\ Len(Tail(p)) = Len(p) - 1
      /\ \A k \in 1..(Len(p) - 1) : Tail(p)[k] = p[k + 1]
  BY <1>0, <1>3, TailProperties
<1>6. /\ c2 \in [Tasks -> Places]
      /\ \A u \in Tasks : c2[u] = IF u = t THEN "idle" ELSE c[u]
      /\ \A i \in 1..(Len(l) - 1) : i + 1 \in 1..Len(l) /\ l[i + 1] # t
      /\ LineUp(c2, Tail(l))
  <2>1. c2 \in [Tasks -> Places] /\ LineUp(c2, Tail(l))
    BY <1>c, <1>0, HeadLeaves
  <2>2. \A u \in Tasks : c2[u] = IF u = t THEN "idle" ELSE c[u]
    BY <1>c, <1>0, HeadLeaves
  <2>3. \A i \in 1..(Len(l) - 1) : i + 1 \in 1..Len(l) /\ l[i + 1] # t
    BY <1>0, <1>4 DEF LineUp
  <2>4. QED
    BY <2>1, <2>2, <2>3
<1>7. "idle" \notin Ordering /\ Ordering \subseteq Waiting
  BY DEF Waiting, Ordering
<1> DEFINE g == [u \in Tasks |-> IF f[u] = 0 THEN 0 ELSE f[u] - 1]
<1>8. g \in [Tasks -> Nat]
  OBVIOUS
<1>9. ASSUME NEW u \in Tasks, c2[u] \in Ordering
       PROVE  /\ c[u] \in Ordering /\ f[u] \in 1..Len(p) /\ f[t] < f[u]
              /\ g[u] \in 1..Len(Tail(p)) /\ g[u] = f[u] - 1
              /\ Tail(p)[g[u]] = j[u].sym
  <2>1. u # t /\ c[u] \in Ordering
    BY <1>6, <1>7, <1>9
  <2>2. f[u] \in 1..Len(p) /\ p[f[u]] = j[u].sym
    BY <1>1, <2>1 DEF Matched
  <2>3. PICK i \in 1..Len(l) : l[i] = u
    BY <1>0, <1>7, <2>1 DEF LineUp
  <2>4. i # 1 /\ 1 \in 1..Len(l) /\ 1 < i
    BY <1>4, <2>1, <2>3
  <2>5. f[t] < f[u]
    BY <1>1, <1>4, <2>1, <2>3, <2>4 DEF Matched
  <2>6. g[u] = f[u] - 1 /\ f[u] - 1 \in 1..(Len(p) - 1)
    BY <1>2, <2>2, <2>5
  <2>7. QED
    BY <1>2, <1>5, <2>1, <2>2, <2>5, <2>6
<1>10. Matched(g, c2, j, Tail(l), Tail(p))
  <2>1. ASSUME NEW i \in 1..Len(Tail(l)), NEW k \in 1..Len(Tail(l)), i < k,
               c2[Tail(l)[i]] \in Ordering, c2[Tail(l)[k]] \in Ordering
        PROVE  g[Tail(l)[i]] < g[Tail(l)[k]]
    <3>1. /\ Tail(l)[i] = l[i + 1] /\ i + 1 \in 1..Len(l) /\ l[i + 1] \in Tasks
          /\ Tail(l)[k] = l[k + 1] /\ k + 1 \in 1..Len(l) /\ l[k + 1] \in Tasks
          /\ i + 1 < k + 1
      BY <1>0, <1>4, <1>6, <2>1
    <3>2. c[l[i + 1]] \in Ordering /\ c[l[k + 1]] \in Ordering
      BY <1>9, <2>1, <3>1
    <3>3. f[l[i + 1]] < f[l[k + 1]]
      BY <1>1, <3>1, <3>2 DEF Matched
    <3>4. /\ g[l[i + 1]] = f[l[i + 1]] - 1 /\ f[l[i + 1]] \in 1..Len(p)
          /\ g[l[k + 1]] = f[l[k + 1]] - 1 /\ f[l[k + 1]] \in 1..Len(p)
      BY <1>9, <2>1, <3>1
    <3> HIDE DEF g
    <3>5. QED
      BY <1>2, <3>1, <3>3, <3>4
  <2> HIDE DEF g
  <2>2. QED
    BY <1>9, <2>1 DEF Matched
<1> HIDE DEF g
<1>11. InLine(c2, j, Tail(l), Tail(p))
  BY <1>0, <1>4, <1>5, <1>6, <1>8, <1>10 DEF InLine
<1>12. QED
  BY <1>c, <1>3, <1>11

\* the oldest waiter leaves, and it had no order
LEMMA WaiterLeaves ==
  ASSUME NEW c, NEW j, NEW l, NEW p, InLine(c, j, l, p),
         NEW t \in Tasks, c[t] \notin Ordering, l # <<>>, Head(l) = t
  PROVE  InLine([c EXCEPT ![t] = "idle"], j, Tail(l), p)
<1>c. PICK c2 : c2 = [c EXCEPT ![t] = "idle"]
  OBVIOUS
<1>0. /\ l \in Seq(Tasks) /\ p \in Seq(Symbols)
      /\ c \in [Tasks -> Places] /\ j \in [Tasks -> Order \cup {NoJob}]
      /\ LineUp(c, l)
  BY DEF InLine
<1>1. PICK f \in [Tasks -> Nat] : Matched(f, c, j, l, p)
  BY DEF InLine
<1>2. /\ Tail(l) \in Seq(Tasks) /\ Len(Tail(l)) = Len(l) - 1 /\ Len(l) \in Nat \ {0}
      /\ \A k \in 1..(Len(l) - 1) : Tail(l)[k] = l[k + 1]
      /\ l[1] = t
  BY <1>0, TailProperties
<1>3. /\ c2 \in [Tasks -> Places]
      /\ \A u \in Tasks : c2[u] = IF u = t THEN "idle" ELSE c[u]
      /\ \A i \in 1..(Len(l) - 1) : i + 1 \in 1..Len(l) /\ l[i + 1] # t
      /\ LineUp(c2, Tail(l))
  <2>1. c2 \in [Tasks -> Places] /\ LineUp(c2, Tail(l))
    BY <1>c, <1>0, HeadLeaves
  <2>2. \A u \in Tasks : c2[u] = IF u = t THEN "idle" ELSE c[u]
    BY <1>c, <1>0, HeadLeaves
  <2>3. \A i \in 1..(Len(l) - 1) : i + 1 \in 1..Len(l) /\ l[i + 1] # t
    BY <1>0, <1>2 DEF LineUp
  <2>4. QED
    BY <2>1, <2>2, <2>3
<1>4. \A u \in Tasks : c2[u] \in Ordering => c[u] \in Ordering
  BY <1>3 DEF Ordering
<1>5. ASSUME NEW i \in 1..Len(Tail(l)), NEW k \in 1..Len(Tail(l)), i < k,
             c2[Tail(l)[i]] \in Ordering, c2[Tail(l)[k]] \in Ordering
      PROVE  f[Tail(l)[i]] < f[Tail(l)[k]]
  <2>1. /\ Tail(l)[i] = l[i + 1] /\ i + 1 \in 1..Len(l) /\ l[i + 1] \in Tasks
        /\ Tail(l)[k] = l[k + 1] /\ k + 1 \in 1..Len(l) /\ l[k + 1] \in Tasks
        /\ i + 1 < k + 1
    BY <1>0, <1>2, <1>3, <1>5
  <2>2. c[l[i + 1]] \in Ordering /\ c[l[k + 1]] \in Ordering
    BY <1>4, <1>5, <2>1
  <2>3. QED
    BY <1>1, <2>1, <2>2 DEF Matched
<1>6. Matched(f, c2, j, Tail(l), p)
  BY <1>1, <1>4, <1>5 DEF Matched
<1>7. InLine(c2, j, Tail(l), p)
  BY <1>0, <1>2, <1>3, <1>6 DEF InLine
<1>8. QED
  BY <1>c, <1>7

\* a task that does not wait goes elsewhere
LEMMA GoesElsewhere ==
  ASSUME NEW c, NEW j, NEW l, NEW p, InLine(c, j, l, p),
         NEW c2 \in [Tasks -> Places], NEW j2 \in [Tasks -> Order \cup {NoJob}],
         \A u \in Tasks : c2[u] = c[u] \/ {c[u], c2[u]} \cap Waiting = {},
         \A u \in Tasks : c[u] \in Ordering => j2[u] = j[u]
  PROVE  InLine(c2, j2, l, p)
<1>0. /\ l \in Seq(Tasks) /\ p \in Seq(Symbols) /\ LineUp(c, l)
      /\ \A i \in 1..Len(l) : l[i] \in Tasks
  BY DEF InLine
<1>1. PICK f \in [Tasks -> Nat] : Matched(f, c, j, l, p)
  BY DEF InLine
<1>2. \A u \in Tasks : /\ c2[u] \in Waiting <=> c[u] \in Waiting
                       /\ c2[u] \in Ordering <=> c[u] \in Ordering
  BY DEF Waiting
<1>3. LineUp(c2, l)
  BY <1>0, <1>2 DEF LineUp
<1>4. Matched(f, c2, j2, l, p)
  BY <1>0, <1>1, <1>2 DEF Matched
<1>5. QED
  BY <1>0, <1>3, <1>4 DEF InLine

\* a task joins the queue
LEMMA TaskJoins ==
  ASSUME NEW c \in [Tasks -> Places], NEW l \in Seq(Tasks), LineUp(c, l),
         NEW t \in Tasks, c[t] \notin Waiting, NEW at \in Waiting,
         NEW c2, c2 = [c EXCEPT ![t] = at]
  PROVE  /\ c2 \in [Tasks -> Places]
         /\ \A u \in Tasks : c2[u] = IF u = t THEN at ELSE c[u]
         /\ \A i \in 1..Len(l) : l[i] # t
         /\ LineUp(c2, Append(l, t))
<1>1. /\ Append(l, t) \in Seq(Tasks) /\ Len(Append(l, t)) = Len(l) + 1 /\ Len(l) \in Nat
      /\ \A k \in 1..(Len(l) + 1) : Append(l, t)[k] = IF k <= Len(l) THEN l[k] ELSE t
  BY AppendProperties
<1>2. /\ c2 \in [Tasks -> Places] /\ c2[t] = at
      /\ \A u \in Tasks : u # t => c2[u] = c[u]
  BY DEF Places, Waiting, Ordering
<1>3. \A i \in 1..Len(l) : l[i] # t /\ l[i] \in Tasks
  BY DEF LineUp
<1>4. ASSUME NEW i \in 1..Len(Append(l, t)) PROVE c2[Append(l, t)[i]] \in Waiting
  <2>1. CASE i <= Len(l)
    BY <1>1, <1>2, <1>3, <2>1 DEF LineUp
  <2>2. CASE i > Len(l)
    BY <1>1, <1>2, <2>2
  <2>3. QED
    BY <1>1, <2>1, <2>2
<1>5. ASSUME NEW u \in Tasks, c2[u] \in Waiting
      PROVE  \E i \in 1..Len(Append(l, t)) : Append(l, t)[i] = u
  <2>1. CASE u = t
    BY <1>1, <2>1
  <2>2. CASE u # t
    <3>1. PICK i \in 1..Len(l) : l[i] = u
      BY <1>2, <1>5, <2>2 DEF LineUp
    <3>2. i \in 1..Len(Append(l, t)) /\ Append(l, t)[i] = u
      BY <1>1, <3>1
    <3>3. QED
      BY <3>2
  <2>3. QED
    BY <2>1, <2>2
<1>6. ASSUME NEW i \in 1..Len(Append(l, t)), NEW k \in 1..Len(Append(l, t)),
             Append(l, t)[i] = Append(l, t)[k]
      PROVE  i = k
  <2>1. CASE i <= Len(l) /\ k <= Len(l)
    BY <1>1, <1>6, <2>1 DEF LineUp
  <2>2. CASE ~(i <= Len(l) /\ k <= Len(l))
    BY <1>1, <1>3, <1>6, <2>2
  <2>3. QED
    BY <2>1, <2>2
<1>7. LineUp(c2, Append(l, t))
  BY <1>4, <1>5, <1>6 DEF LineUp
<1>8. QED
  BY <1>2, <1>3, <1>7

\* a task joins the queue with an order, which enters the deque
LEMMA OrderJoins ==
  ASSUME NEW c, NEW j, NEW l, NEW p, InLine(c, j, l, p),
         NEW t \in Tasks, c[t] \notin Waiting, NEW at \in Ordering, NEW o \in Order,
         NEW c2, c2 = [c EXCEPT ![t] = at], NEW j2, j2 = [j EXCEPT ![t] = o]
  PROVE  InLine(c2, j2, Append(l, t), Append(p, o.sym))
<1>l. PICK l2 : l2 = Append(l, t)
  OBVIOUS
<1>p. PICK p2 : p2 = Append(p, o.sym)
  OBVIOUS
<1>0. /\ l \in Seq(Tasks) /\ p \in Seq(Symbols)
      /\ c \in [Tasks -> Places] /\ j \in [Tasks -> Order \cup {NoJob}]
      /\ LineUp(c, l) /\ o.sym \in Symbols
  BY DEF InLine, Order
<1>1. PICK f \in [Tasks -> Nat] : Matched(f, c, j, l, p)
  BY DEF InLine
<1>2. /\ l2 \in Seq(Tasks) /\ Len(l2) = Len(l) + 1 /\ Len(l) \in Nat
      /\ \A k \in 1..(Len(l) + 1) : l2[k] = IF k <= Len(l) THEN l[k] ELSE t
  BY <1>l, <1>0, AppendProperties
<1>3. /\ p2 \in Seq(Symbols) /\ Len(p2) = Len(p) + 1 /\ Len(p) \in Nat
      /\ \A k \in 1..(Len(p) + 1) : p2[k] = IF k <= Len(p) THEN p[k] ELSE o.sym
  BY <1>p, <1>0, AppendProperties
<1>4. at \in Waiting /\ Ordering \subseteq Waiting
  BY DEF Waiting
<1>5. c2 \in [Tasks -> Places] /\ LineUp(c2, l2)
  BY <1>l, <1>0, <1>4, TaskJoins
<1>6. /\ \A u \in Tasks : c2[u] = IF u = t THEN at ELSE c[u]
      /\ j2 \in [Tasks -> Order \cup {NoJob}]
      /\ \A u \in Tasks : j2[u] = IF u = t THEN o ELSE j[u]
  BY <1>0
<1>7. \A i \in 1..Len(l) : l[i] # t /\ l[i] \in Tasks
  BY <1>0 DEF LineUp
<1> DEFINE g == [f EXCEPT ![t] = Len(p) + 1]
<1>8. /\ g \in [Tasks -> Nat]
      /\ \A u \in Tasks : g[u] = IF u = t THEN Len(p) + 1 ELSE f[u]
  BY <1>3
<1> HIDE DEF g
<1>9. ASSUME NEW u \in Tasks, c2[u] \in Ordering
      PROVE  g[u] \in 1..Len(p2) /\ p2[g[u]] = j2[u].sym
  <2>1. CASE u = t
    BY <1>3, <1>6, <1>8, <2>1
  <2>2. CASE u # t
    <3>1. f[u] \in 1..Len(p) /\ p[f[u]] = j[u].sym
      BY <1>1, <1>6, <1>9, <2>2 DEF Matched
    <3>2. QED
      BY <1>3, <1>6, <1>8, <2>2, <3>1
  <2>3. QED
    BY <2>1, <2>2
<1>10. ASSUME NEW i \in 1..Len(l2), NEW k \in 1..Len(l2), i < k,
              c2[l2[i]] \in Ordering, c2[l2[k]] \in Ordering
       PROVE  g[l2[i]] < g[l2[k]]
  <2>1. i \in 1..Len(l) /\ l2[i] = l[i]
    BY <1>2, <1>10
  <2>2. c[l[i]] \in Ordering /\ g[l[i]] = f[l[i]]
    BY <1>6, <1>7, <1>8, <1>10, <2>1
  <2>3. CASE k = Len(l) + 1
    <3>1. l2[k] = t /\ g[t] = Len(p) + 1
      <4>1. k \in 1..(Len(l) + 1) /\ ~(k <= Len(l))
        BY <1>2, <2>3
      <4>2. QED
        BY <1>2, <1>8, <4>1
    <3>2. f[l[i]] \in 1..Len(p)
      BY <1>1, <1>7, <2>1, <2>2 DEF Matched
    <3>3. QED
      BY <1>3, <2>1, <2>2, <3>1, <3>2
  <2>4. CASE k # Len(l) + 1
    <3>1. k \in 1..Len(l) /\ l2[k] = l[k]
      BY <1>2, <2>4
    <3>2. c[l[k]] \in Ordering /\ g[l[k]] = f[l[k]]
      BY <1>6, <1>7, <1>8, <1>10, <3>1
    <3>3. QED
      BY <1>1, <1>10, <2>1, <2>2, <3>1, <3>2 DEF Matched
  <2>5. QED
    BY <2>3, <2>4
<1>11. Matched(g, c2, j2, l2, p2)
  BY <1>9, <1>10 DEF Matched
<1>12. InLine(c2, j2, l2, p2)
  BY <1>2, <1>3, <1>5, <1>6, <1>8, <1>11 DEF InLine
<1>13. QED
  BY <1>l, <1>p, <1>12

\* a task joins the queue without an order
LEMMA WaiterJoins ==
  ASSUME NEW c, NEW j, NEW l, NEW p, InLine(c, j, l, p),
         NEW t \in Tasks, c[t] \notin Waiting, NEW at \in Waiting \ Ordering,
         NEW o \in Order \cup {NoJob},
         NEW c2, c2 = [c EXCEPT ![t] = at], NEW j2, j2 = [j EXCEPT ![t] = o]
  PROVE  InLine(c2, j2, Append(l, t), p)
<1>l. PICK l2 : l2 = Append(l, t)
  OBVIOUS
<1>0. /\ l \in Seq(Tasks) /\ p \in Seq(Symbols)
      /\ c \in [Tasks -> Places] /\ j \in [Tasks -> Order \cup {NoJob}]
      /\ LineUp(c, l)
  BY DEF InLine
<1>1. PICK f \in [Tasks -> Nat] : Matched(f, c, j, l, p)
  BY DEF InLine
<1>2. /\ l2 \in Seq(Tasks) /\ Len(l2) = Len(l) + 1 /\ Len(l) \in Nat
      /\ \A k \in 1..(Len(l) + 1) : l2[k] = IF k <= Len(l) THEN l[k] ELSE t
  BY <1>l, <1>0, AppendProperties
<1>3. c2 \in [Tasks -> Places] /\ LineUp(c2, l2)
  BY <1>l, <1>0, TaskJoins
<1>4. /\ \A u \in Tasks : c2[u] = IF u = t THEN at ELSE c[u]
      /\ j2 \in [Tasks -> Order \cup {NoJob}]
      /\ \A u \in Tasks : j2[u] = IF u = t THEN o ELSE j[u]
  BY <1>0
<1>5. \A u \in Tasks : c2[u] \in Ordering => u # t /\ c[u] \in Ordering
  BY <1>4
<1>6. ASSUME NEW i \in 1..Len(l2), NEW k \in 1..Len(l2), i < k,
             c2[l2[i]] \in Ordering, c2[l2[k]] \in Ordering
      PROVE  f[l2[i]] < f[l2[k]]
  <2>1. /\ i \in 1..Len(l) /\ l2[i] = l[i] /\ c[l[i]] \in Ordering
        /\ k \in 1..Len(l) /\ l2[k] = l[k] /\ c[l[k]] \in Ordering
    BY <1>0, <1>2, <1>5, <1>6
  <2>2. QED
    BY <1>1, <1>6, <2>1 DEF Matched
<1>7. Matched(f, c2, j2, l2, p)
  BY <1>1, <1>4, <1>5, <1>6 DEF Matched
<1>8. InLine(c2, j2, l2, p)
  BY <1>0, <1>2, <1>3, <1>4, <1>7 DEF InLine
<1>9. QED
  BY <1>l, <1>8

\* the risk task is cancelled wherever it waits; its entry stays in the deque
LEMMA RiskCancelled ==
  ASSUME NEW c, NEW j, NEW l, NEW p, InLine(c, j, l, p),
         NEW t \in Tasks, c[t] \in Waiting, NEW x \in Places \ Waiting,
         NEW c2, c2 = [c EXCEPT ![t] = x]
  PROVE  InLine(c2, j, RemoveFirst(l, t), p)
<1>0. /\ l \in Seq(Tasks) /\ p \in Seq(Symbols)
      /\ c \in [Tasks -> Places] /\ j \in [Tasks -> Order \cup {NoJob}]
      /\ LineUp(c, l)
  BY DEF InLine
<1>1. PICK f \in [Tasks -> Nat] : Matched(f, c, j, l, p)
  BY DEF InLine
<1>2. PICK n \in 1..Len(l) : l[n] = t
  BY <1>0 DEF LineUp
<1>3. PICK r \in 1..Len(l) : l[r] = t /\ RemoveFirst(l, t) = RemoveAt(l, r)
  BY <1>0, <1>2, RemoveFirstProperties
<1>l. PICK l2 : l2 = RemoveAt(l, r)
  OBVIOUS
<1>w. PICK was : was = [i \in 1..(Len(l) - 1) |-> IF i < r THEN i ELSE i + 1]
  OBVIOUS
<1>a. \A i \in 1..(Len(l) - 1) : was[i] = IF i < r THEN i ELSE i + 1
  BY <1>w
<1>4. /\ l2 \in Seq(Tasks) /\ Len(l2) = Len(l) - 1 /\ Len(l) \in Nat
      /\ \A k \in 1..(Len(l) - 1) : l2[k] = l[was[k]]
  <2>1. l2 \in Seq(Tasks) /\ Len(l2) = Len(l) - 1 /\ Len(l) \in Nat
    BY <1>l, <1>0, RemoveAtProperties
  <2>2. ASSUME NEW k \in 1..(Len(l) - 1) PROVE l2[k] = l[was[k]]
    <3>1. l2[k] = IF k < r THEN l[k] ELSE l[k + 1]
      BY <1>l, <1>0, RemoveAtProperties
    <3>2. QED
      BY <1>a, <3>1
  <2>3. QED
    BY <2>1, <2>2
<1>5. \A i \in 1..(Len(l) - 1) :
        was[i] \in 1..Len(l) /\ was[i] # r /\ l[was[i]] # t /\ l[was[i]] \in Tasks
  <2>1. \A i \in 1..(Len(l) - 1) : was[i] \in 1..Len(l) /\ was[i] # r
    BY <1>4, <1>a
  <2>2. ASSUME NEW i \in 1..Len(l), i # r PROVE l[i] # t /\ l[i] \in Tasks
    <3>1. l[i] # l[r]
      BY <1>0, <2>2 DEF LineUp
    <3>2. QED
      BY <1>0, <1>3, <3>1
  <2>3. QED
    BY <2>1, <2>2
<1>6. \A i, k \in 1..(Len(l) - 1) : i < k => was[i] < was[k]
  BY <1>4, <1>a
<1>7. \A k \in 1..Len(l) : k # r => \E i \in 1..(Len(l) - 1) : was[i] = k
  <2> SUFFICES ASSUME NEW k \in 1..Len(l), k # r
               PROVE  \E i \in 1..(Len(l) - 1) : was[i] = k
    OBVIOUS
  <2>1. CASE k < r
    BY <1>4, <1>a, <2>1
  <2>2. CASE k > r
    <3>1. k - 1 \in 1..(Len(l) - 1) /\ was[k - 1] = k
      BY <1>4, <1>a, <2>2
    <3>2. QED
      BY <3>1
  <2>3. QED
    BY <2>1, <2>2
<1>8. /\ c2 \in [Tasks -> Places]
      /\ \A u \in Tasks : c2[u] = IF u = t THEN x ELSE c[u]
  BY <1>0
<1>9. \A u \in Tasks : /\ c2[u] \in Ordering => u # t /\ c[u] \in Ordering
                       /\ c2[u] \in Waiting <=> u # t /\ c[u] \in Waiting
  BY <1>8 DEF Waiting
<1>10. LineUp(c2, l2)
  <2>1. \A i \in 1..Len(l2) : c2[l2[i]] \in Waiting
    BY <1>0, <1>4, <1>5, <1>9 DEF LineUp
  <2>2. ASSUME NEW u \in Tasks, c2[u] \in Waiting PROVE \E i \in 1..Len(l2) : l2[i] = u
    <3>1. PICK k \in 1..Len(l) : l[k] = u
      BY <1>0, <1>9, <2>2 DEF LineUp
    <3>2. k # r
      BY <1>3, <1>9, <2>2, <3>1
    <3>3. QED
      BY <1>4, <1>7, <3>1, <3>2
  <2>3. ASSUME NEW i \in 1..Len(l2), NEW k \in 1..Len(l2), l2[i] = l2[k] PROVE i = k
    <3>0. i \in 1..(Len(l) - 1) /\ k \in 1..(Len(l) - 1)
      BY <1>4
    <3>1. was[i] = was[k]
      <4>1. l[was[i]] = l[was[k]] /\ was[i] \in 1..Len(l) /\ was[k] \in 1..Len(l)
        BY <1>4, <1>5, <2>3, <3>0
      <4>2. QED
        BY <1>0, <4>1 DEF LineUp
    <3>2. ~(i < k) /\ ~(k < i)
      BY <1>4, <1>5, <1>6, <3>1
    <3>3. QED
      BY <1>4, <3>2
  <2>4. QED
    BY <2>1, <2>2, <2>3 DEF LineUp
<1>11. ASSUME NEW i \in 1..Len(l2), NEW k \in 1..Len(l2), i < k,
              c2[l2[i]] \in Ordering, c2[l2[k]] \in Ordering
       PROVE  f[l2[i]] < f[l2[k]]
  <2>1. /\ was[i] \in 1..Len(l) /\ l2[i] = l[was[i]] /\ c[l[was[i]]] \in Ordering
        /\ was[k] \in 1..Len(l) /\ l2[k] = l[was[k]] /\ c[l[was[k]]] \in Ordering
        /\ was[i] < was[k]
    BY <1>4, <1>5, <1>6, <1>9, <1>11
  <2>2. QED
    BY <1>1, <2>1 DEF Matched
<1>12. Matched(f, c2, j, l2, p)
  BY <1>1, <1>9, <1>11 DEF Matched
<1>13. QED
  BY <1>0, <1>3, <1>4, <1>8, <1>10, <1>12, <1>l DEF InLine

-----------------------------------------------------------------------------
(***************************************************************************)
(* A task that goes on: it has left the queue, which is then c, l and p,   *)
(* and rests, submits an order, or stops the engine.                       *)
(***************************************************************************)
Left(t) == [pc EXCEPT ![t] = "idle"]

LEMMA RestInLine ==
  ASSUME TaskTypes, TaskTypes', NEW t \in Tasks, NEW p, NEW l,
         InLine(Left(t), job, l, p), Rest(t, p, l)
  PROVE  OrdersInLine'
<1>1. pc' = Left(t) /\ pending' = p /\ apiLock' = l
  BY DEF Rest, Left
<1>2. /\ pc' \in [Tasks -> Places] /\ job' \in [Tasks -> Order \cup {NoJob}]
      /\ \A u \in Tasks : pc'[u] \in Ordering => job'[u] = job[u]
  BY <1>1 DEF TaskTypes, Rest, Left, Ordering
<1>3. InLine(pc', job', l, p)
  BY <1>1, <1>2, GoesElsewhere
<1>4. QED
  BY <1>1, <1>3 DEF OrdersInLine

LEMMA SubmitInLine ==
  ASSUME TaskTypes, NEW t \in Tasks, NEW at \in Ordering, NEW o \in Order, NEW rest,
         NEW p, NEW l, InLine(Left(t), job, l, p), Submit(t, at, o, rest, p, l)
  PROVE  OrdersInLine'
<1>1. /\ pc' = [Left(t) EXCEPT ![t] = at] /\ Left(t)[t] \notin Waiting
  BY DEF Submit, Left, TaskTypes, Waiting, Ordering
<1>2. job' = [job EXCEPT ![t] = o] /\ pending' = Append(p, o.sym) /\ apiLock' = Append(l, t)
  BY DEF Submit
<1>3. InLine(pc', job', Append(l, t), Append(p, o.sym))
  BY <1>1, <1>2, OrderJoins
<1>4. QED
  BY <1>2, <1>3 DEF OrdersInLine

LEMMA AutoStopInLine ==
  ASSUME TaskTypes, TaskTypes', NEW p, NEW l,
         InLine(Left("recv"), job, l, p), AutoStop(p, l)
  PROVE  OrdersInLine'
<1>1. /\ pc' = [Left("recv") EXCEPT !["risk"] = "off"]
      /\ pending' = p /\ apiLock' = RemoveFirst(l, "risk")
  BY DEF AutoStop, Left, TaskTypes, Tasks
<1>2. /\ "off" \in Places \ Waiting /\ "risk" \in Tasks
      /\ Left("recv") \in [Tasks -> Places]
      /\ \A u \in Tasks : pc'[u] = IF u = "risk" THEN "off" ELSE Left("recv")[u]
  BY <1>1 DEF Places, Waiting, Ordering, Tasks, Left, TaskTypes
<1>3. InLine(pc', job, RemoveFirst(l, "risk"), p)
  <2>1. CASE Left("recv")["risk"] \in Waiting
    BY <1>1, <1>2, <2>1, RiskCancelled
  <2>2. CASE Left("recv")["risk"] \notin Waiting
    <3>1. l \in Seq(Tasks) /\ LineUp(Left("recv"), l) /\ job \in [Tasks -> Order \cup {NoJob}]
      BY DEF InLine
    <3>2. \A i \in 1..Len(l) : l[i] # "risk"
      BY <2>2, <3>1 DEF LineUp
    <3>3. RemoveFirst(l, "risk") = l
      BY <3>1, <3>2, RemoveFirstProperties
    <3>4. \A u \in Tasks : pc'[u] = Left("recv")[u] \/ {Left("recv")[u], pc'[u]} \cap Waiting = {}
      BY <1>2, <2>2
    <3>5. pc' \in [Tasks -> Places]
      BY DEF TaskTypes
    <3>6. InLine(pc', job, l, p)
      BY <3>1, <3>4, <3>5, GoesElsewhere
    <3>7. QED
      BY <3>3, <3>6
  <2>3. QED
    BY <2>1, <2>2
<1>4. /\ pc' \in [Tasks -> Places] /\ job' \in [Tasks -> Order \cup {NoJob}]
      /\ \A u \in Tasks : pc'[u] \in Ordering => job'[u] = job[u]
  BY DEF TaskTypes, AutoStop, Ordering
<1>5. InLine(pc', job', RemoveFirst(l, "risk"), p)
  BY <1>3, <1>4, GoesElsewhere
<1>6. QED
  BY <1>1, <1>5 DEF OrdersInLine

LEMMA LiquidateInLine ==
  ASSUME TaskTypes, TaskTypes', NEW t \in Tasks, NEW S \in SUBSET Symbols,
         NEW m \in Memory, NEW p, NEW l,
         InLine(Left(t), job, l, p), Liquidate(t, S, m, p, l)
  PROVE  OrdersInLine'
<1>1. CASE t = "recv" /\ AutoStop(p, l)
  BY <1>1, AutoStopInLine
<1>2. CASE Rest(t, p, l)
  BY <1>2, RestInLine
<1>3. ASSUME NEW s \in S, NEW q \in LastKnownQty(m, s),
             Submit(t, "liquidate",
                    Sell(s, q, IF Held(m, s) THEN m[s].owner ELSE "synced"),
                    S \ {s}, p, l)
      PROVE  OrdersInLine'
  <2> DEFINE by == IF Held(m, s) THEN m[s].owner ELSE "synced"
  <2>1. q \in Nat /\ "liquidate" \in Ordering
    BY <1>3, HeldPosition, SizesAssumption DEF LastKnownQty, Ordering
  <2>2. by \in Owners
    BY HeldPosition DEF Owners, Position
  <2> HIDE DEF by
  <2>3. Sell(s, q, by) \in Order
    BY <2>1, <2>2, SellIsOrder
  <2>4. Submit(t, "liquidate", Sell(s, q, by), S \ {s}, p, l)
    BY <1>3 DEF by
  <2>5. QED
    BY <2>1, <2>3, <2>4, SubmitInLine
<1>4. QED
  BY <1>1, <1>2, <1>3 DEF Liquidate

LEMMA CheckRiskInLine ==
  ASSUME TaskTypes, TaskTypes', NEW t \in Tasks, NEW S \in SUBSET Symbols,
         NEW m \in Memory, NEW p, NEW l,
         InLine(Left(t), job, l, p), CheckRisk(t, S, m, p, l)
  PROVE  OrdersInLine'
<1> DEFINE fire == {s \in S : Held(m, s) /\ m[s].exit}
<1>1. CASE RisksChecked(t, m, p, l)
  <2>1. CASE Rest(t, p, l)
    BY <2>1, RestInLine
  <2>2. CASE t = "recv" /\ Liquidate("recv", HeldIn(m), m, p, l)
    <3>1. HeldIn(m) \in SUBSET Symbols
      BY DEF HeldIn
    <3>2. QED
      BY <2>2, <3>1, LiquidateInLine
  <2>3. QED
    BY <1>1, <2>1, <2>2 DEF RisksChecked, CheckMarketClose
<1>2. ASSUME NEW s \in fire, NEW rest \in SUBSET (S \ fire),
             Submit(t, "order", Sell(s, m[s].qty, m[s].owner),
                    rest \cup (fire \ {s}), p, l)
      PROVE  OrdersInLine'
  <2>1. m[s].qty \in Nat /\ m[s].owner \in Owners /\ "order" \in Ordering
    BY HeldPosition DEF Position, Held, Ordering
  <2>2. Sell(s, m[s].qty, m[s].owner) \in Order
    BY <2>1, SellIsOrder
  <2>3. QED
    BY <1>2, <2>1, <2>2, SubmitInLine
<1>3. QED
  BY <1>1, <1>2 DEF CheckRisk

LEMMA ResumeInLine ==
  ASSUME TaskTypes, TaskTypes', OrdersInLine, NEW t \in Tasks, NEW m \in Memory,
         OrderServed(t), Resume(t, m)
  PROVE  OrdersInLine'
<1>1. InLine(Left(t), job, Tail(apiLock), Tail(pending))
  BY OrderLeaves DEF OrdersInLine, OrderServed, Oldest, Left
<1>2. todo[t] \in SUBSET Symbols
  BY DEF TaskTypes
<1>3. CASE pc[t] = "signal"
  BY <1>1, <1>3, RestInLine DEF Resume
<1>4. CASE pc[t] = "order"
  <2>1. CheckRisk(t, todo[t], m, Tail(pending), Tail(apiLock))
    BY <1>4 DEF Resume
  <2>2. QED
    BY <1>1, <1>2, <2>1, CheckRiskInLine
<1>5. CASE pc[t] = "liquidate"
  <2>1. Liquidate(t, todo[t], m, Tail(pending), Tail(apiLock))
    BY <1>5 DEF Resume
  <2>2. QED
    BY <1>1, <1>2, <2>1, LiquidateInLine
<1>6. QED
  BY <1>3, <1>4, <1>5 DEF OrderServed, Ordering

LEMMA AwaitInLine ==
  ASSUME TaskTypes, OrdersInLine, NEW t \in Tasks, pc[t] = "idle",
         NEW at \in {"balance", "snapshot", "cancel"}, NEW o \in Order \cup {NoJob},
         AwaitApi(t, at, o)
  PROVE  OrdersInLine'
<1>1. /\ pc' = [pc EXCEPT ![t] = at] /\ pc[t] \notin Waiting /\ at \in Waiting \ Ordering
      /\ job' = [job EXCEPT ![t] = o]
      /\ apiLock' = Append(apiLock, t) /\ pending' = pending
  BY DEF AwaitApi, Waiting, Ordering
<1>2. InLine(pc', job', Append(apiLock, t), pending)
  BY <1>1, WaiterJoins DEF OrdersInLine
<1>3. QED
  BY <1>1, <1>2 DEF OrdersInLine

\* a task that was not waiting has left the queue already
LEMMA IdleHasLeft ==
  ASSUME TaskTypes, OrdersInLine, NEW t \in Tasks, pc[t] \notin Waiting
  PROVE  InLine(Left(t), job, apiLock, pending)
<1>1. /\ Left(t) \in [Tasks -> Places] /\ job \in [Tasks -> Order \cup {NoJob}]
      /\ \A u \in Tasks : Left(t)[u] = IF u = t THEN "idle" ELSE pc[u]
      /\ "idle" \notin Waiting
  BY DEF Left, TaskTypes, Places, Waiting, Ordering
<1>2. \A u \in Tasks : Left(t)[u] = pc[u] \/ {pc[u], Left(t)[u]} \cap Waiting = {}
  BY <1>1
<1>3. QED
  BY <1>1, <1>2, GoesElsewhere DEF OrdersInLine

(***************************************************************************)
(* The queue and the deque under every step.                               *)
(***************************************************************************)
LEMMA PlaceSignalInLine ==
  ASSUME TaskTypes, TaskTypes', mem \in Memory, NEW sig \in Order, NEW p, NEW l,
         InLine(Left("recv"), job, l, p), PlaceSignal(sig, p, l)
  PROVE  OrdersInLine'
<1>0. "recv" \in Tasks /\ "signal" \in Ordering
  BY DEF Tasks, Ordering
<1>1. CASE Rest("recv", p, l)
  BY <1>0, <1>1, RestInLine
<1>2. ASSUME NEW q \in Nat, Submit("recv", "signal", [sig EXCEPT !.qty = q], {}, p, l)
      PROVE  OrdersInLine'
  <2> DEFINE o == [sig EXCEPT !.qty = q]
  <2>1. o \in Order
    BY DEF Order
  <2> HIDE DEF o
  <2>2. Submit("recv", "signal", o, {}, p, l)
    BY <1>2 DEF o
  <2>3. QED
    BY <1>0, <2>1, <2>2, SubmitInLine
<1>3. mem[sig.sym].qty \in Nat
  BY HeldPosition DEF Order
<1>4. CASE sig.side = "sell" /\ ~Rest("recv", p, l)
  BY <1>2, <1>3, <1>4 DEF PlaceSignal
<1>5. CASE sig.side # "sell" /\ ~Rest("recv", p, l)
  <2>1. PICK q \in 0..MaxSize :
          q # 0 /\ Submit("recv", "signal", [sig EXCEPT !.qty = q], {}, p, l)
    BY <1>5 DEF PlaceSignal
  <2>2. QED
    BY <1>2, <2>1
<1>6. QED
  BY <1>1, <1>4, <1>5

LEMMA ReceiveInLine ==
  ASSUME IInv, IInv', OrdersInLine, Receive
  PROVE  OrdersInLine'
<1>0. TaskTypes /\ TaskTypes' /\ mem \in Memory /\ mem' \in Memory /\ Carrying
  BY TypeParts, TypePartsNext DEF IInv, Standing, DataTypes
<1>i. /\ "recv" \in Tasks /\ "idle" \notin Waiting /\ "balance" \notin Ordering
  BY DEF Tasks, Waiting, Ordering
<1>1. ASSUME NEW s \in Symbols, Tick(s) PROVE OrdersInLine'
  <2>1. pc["recv"] = "idle" /\ CheckRisk("recv", {s}, mem', pending, apiLock)
    BY <1>1 DEF Tick, Receiving
  <2>2. InLine(Left("recv"), job, apiLock, pending)
    BY <1>0, <1>i, <2>1, IdleHasLeft
  <2>3. QED
    BY <1>0, <1>i, <2>1, <2>2, CheckRiskInLine
<1>2. ASSUME NEW s \in Symbols, NEW side \in Sides, NEW by \in Strategies,
             ProcessSignal(s, side, by)
      PROVE  OrdersInLine'
  <2> DEFINE sig == [sym |-> s, side |-> side, qty |-> 0, by |-> by]
  <2>1. sig \in Order
    BY DEF Order, Owners
  <2>2. /\ pc["recv"] = "idle"
        /\ PlaceSignal(sig, pending, apiLock) \/ AwaitApi("recv", "balance", sig)
    BY <1>2 DEF ProcessSignal, Receiving
  <2> HIDE DEF sig
  <2>3. InLine(Left("recv"), job, apiLock, pending)
    BY <1>0, <1>i, <2>2, IdleHasLeft
  <2>4. QED
    BY <1>0, <1>i, <2>1, <2>2, <2>3, PlaceSignalInLine, AwaitInLine
<1>3. ASSUME BalanceFetched PROVE OrdersInLine'
  <2>1. /\ pc["recv"] = "balance" /\ apiLock # <<>> /\ Head(apiLock) = "recv"
        /\ PlaceSignal(job["recv"], pending, Tail(apiLock))
    BY <1>3 DEF BalanceFetched, Oldest
  <2>2. InLine(Left("recv"), job, Tail(apiLock), pending)
    BY <1>i, <2>1, WaiterLeaves DEF OrdersInLine, Left
  <2>3. job["recv"] \in Order
    BY <1>0, <1>i, <2>1 DEF Carrying
  <2>4. QED
    BY <1>0, <2>1, <2>2, <2>3, PlaceSignalInLine
<1>4. CASE \/ FillNotice
           \/ \E s \in Symbols, triggered \in BOOLEAN : ViEvent(s, triggered)
  BY <1>4 DEF FillNotice, ViEvent, taskVars, OrdersInLine
<1>5. QED
  BY <1>1, <1>2, <1>3, <1>4 DEF Receive

LEMMA SyncInLine ==
  ASSUME IInv, IInv', OrdersInLine, NEW t \in Syncing,
         SyncFetch(t) \/ SyncMerge(t) \/ SyncFailed(t)
  PROVE  OrdersInLine'
<1>0. /\ TaskTypes /\ TaskTypes' /\ mem' \in Memory /\ t \in Tasks
      /\ "snapshot" \notin Ordering
  BY TypeParts, TypePartsNext DEF IInv, DataTypes, Syncing, Tasks, Ordering
<1>1. CASE SyncFetch(t)
  <2>1. /\ pc[t] = "snapshot" /\ apiLock # <<>> /\ Head(apiLock) = t
        /\ pc' = [pc EXCEPT ![t] = "merge"] /\ apiLock' = Tail(apiLock)
        /\ pending' = pending /\ job' = job
    BY <1>1 DEF SyncFetch, Oldest, engineVars
  <2>2. InLine(Left(t), job, Tail(apiLock), pending)
    BY <1>0, <2>1, WaiterLeaves DEF OrdersInLine, Left
  <2>3. \A u \in Tasks : pc'[u] = Left(t)[u] \/ {Left(t)[u], pc'[u]} \cap Waiting = {}
    BY <1>0, <2>1 DEF Left, TaskTypes, Waiting, Ordering
  <2>4. InLine(pc', job', Tail(apiLock), pending)
    BY <1>0, <2>1, <2>2, <2>3, GoesElsewhere DEF TaskTypes
  <2>5. QED
    BY <2>1, <2>4 DEF OrdersInLine
<1>2. CASE SyncMerge(t) \/ SyncFailed(t)
  <2>1. /\ pc[t] = "merge"
        /\ \/ CheckRisk(t, HeldIn(mem'), mem', pending, apiLock)
           \/ Rest(t, pending, apiLock)
    BY <1>2 DEF SyncMerge, SyncFailed
  <2>2. InLine(Left(t), job, apiLock, pending)
    BY <1>0, <2>1, IdleHasLeft DEF Waiting, Ordering
  <2>3. HeldIn(mem') \in SUBSET Symbols
    BY DEF HeldIn
  <2>4. QED
    BY <1>0, <2>1, <2>2, <2>3, CheckRiskInLine, RestInLine
<1>3. QED
  BY <1>1, <1>2

LEMMA DashInLine ==
  ASSUME IInv, IInv', OrdersInLine,
         \/ CancelRequest
         \/ OrdersCancelled
         \/ \E S \in SUBSET Symbols : LiquidateRequest(S)
  PROVE  OrdersInLine'
<1>0. /\ TaskTypes /\ TaskTypes' /\ mem \in Memory /\ "dash" \in Tasks
      /\ "cancel" \notin Ordering /\ "idle" \notin Waiting
  BY TypeParts, TypePartsNext DEF IInv, DataTypes, Tasks, Ordering, Waiting
<1>1. CASE CancelRequest
  BY <1>0, <1>1, AwaitInLine DEF CancelRequest
<1>2. ASSUME NEW S \in SUBSET Symbols, LiquidateRequest(S) PROVE OrdersInLine'
  <2>1. pc["dash"] = "idle" /\ Liquidate("dash", S, mem, pending, apiLock)
    BY <1>2 DEF LiquidateRequest
  <2>2. InLine(Left("dash"), job, apiLock, pending)
    BY <1>0, <2>1, IdleHasLeft
  <2>3. QED
    BY <1>0, <2>1, <2>2, LiquidateInLine
<1>3. CASE OrdersCancelled
  <2>1. /\ pc["dash"] = "cancel" /\ apiLock # <<>> /\ Head(apiLock) = "dash"
        /\ \/ Rest("dash", pending, Tail(apiLock))
           \/ /\ pc' = [pc EXCEPT !["dash"] = "snapshot"]
              /\ apiLock' = Append(Tail(apiLock), "dash")
              /\ UNCHANGED <<running, pending, job, todo>>
    BY <1>3 DEF OrdersCancelled, Oldest
  <2>2. InLine(Left("dash"), job, Tail(apiLock), pending)
    BY <1>0, <2>1, WaiterLeaves DEF OrdersInLine, Left
  <2>3. CASE Rest("dash", pending, Tail(apiLock))
    BY <1>0, <2>2, <2>3, RestInLine
  <2>4. CASE /\ pc' = [pc EXCEPT !["dash"] = "snapshot"]
             /\ apiLock' = Append(Tail(apiLock), "dash")
             /\ UNCHANGED <<running, pending, job, todo>>
    <3>1. /\ pc' = [Left("dash") EXCEPT !["dash"] = "snapshot"]
          /\ Left("dash")["dash"] \notin Waiting
          /\ "snapshot" \in Waiting \ Ordering
          /\ job["dash"] \in Order \cup {NoJob} /\ job' = [job EXCEPT !["dash"] = job["dash"]]
      BY <1>0, <2>4 DEF Left, TaskTypes, Waiting, Ordering
    <3>2. InLine(pc', job', Append(Tail(apiLock), "dash"), pending)
      BY <1>0, <2>2, <3>1, WaiterJoins
    <3>3. QED
      BY <2>4, <3>2 DEF OrdersInLine
  <2>5. QED
    BY <2>1, <2>3, <2>4
<1>4. QED
  BY <1>1, <1>2, <1>3

LEMMA NextInLine ==
  ASSUME IInv, IInv', OrdersInLine, [Next]_vars
  PROVE  OrdersInLine'
<1>0. TaskTypes /\ TaskTypes' /\ mem \in Memory /\ mem' \in Memory
  BY TypeParts, TypePartsNext DEF IInv, DataTypes
<1>1. CASE Receive
  BY <1>1, ReceiveInLine
<1>2. CASE RiskPass
  <2>1. /\ pc["risk"] = "idle" /\ CheckRisk("risk", HeldIn(mem), mem, pending, apiLock)
        /\ "risk" \in Tasks /\ HeldIn(mem) \in SUBSET Symbols
    BY <1>2 DEF RiskPass, Tasks, HeldIn
  <2>2. InLine(Left("risk"), job, apiLock, pending)
    BY <1>0, <2>1, IdleHasLeft DEF Waiting, Ordering
  <2>3. QED
    BY <1>0, <2>1, <2>2, CheckRiskInLine
<1>3. CASE SyncBegin
  BY <1>0, <1>3, AwaitInLine DEF SyncBegin, Tasks
<1>4. CASE \E t \in Syncing : SyncFetch(t) \/ SyncMerge(t) \/ SyncFailed(t)
  BY <1>4, SyncInLine
<1>5. CASE \E S \in {HeldIn(mem)} \cup {{s} : s \in HeldIn(mem)} : LiquidateRequest(S)
  BY <1>5, DashInLine DEF HeldIn
<1>6. CASE CancelRequest \/ OrdersCancelled
  BY <1>6, DashInLine
<1>7. ASSUME NEW t \in Tasks, Accepted(t) \/ Refused(t) PROVE OrdersInLine'
  <2>1. OrderServed(t) /\ Resume(t, mem')
    BY <1>7 DEF Accepted, Refused
  <2>2. QED
    BY <1>0, <2>1, ResumeInLine
<1>8. CASE Outside
  BY <1>8 DEF Outside, Fill, LateRefusal, NoticesLost, Stagnates, RejectCooldownOver,
              CloseCooldownOver, ClockAdvances, engineVars, taskVars, OrdersInLine
<1>9. CASE UNCHANGED vars
  BY <1>9 DEF vars, engineVars, taskVars, OrdersInLine
<1>10. QED
  BY <1>1, <1>2, <1>3, <1>4, <1>5, <1>6, <1>7, <1>8, <1>9 DEF Next

LEMMA InitInLine == Init => OrdersInLine
<1> SUFFICES ASSUME Init PROVE OrdersInLine
  OBVIOUS
<1>1. /\ apiLock \in Seq(Tasks) /\ pending \in Seq(Symbols)
      /\ pc \in [Tasks -> Places] /\ job \in [Tasks -> Order \cup {NoJob}]
      /\ Len(apiLock) = 0 /\ \A t \in Tasks : pc[t] \notin Waiting /\ pc[t] \notin Ordering
  BY DEF Init, Places, Waiting, Ordering
<1>2. LineUp(pc, apiLock)
  BY <1>1 DEF LineUp
<1>3. Matched([t \in Tasks |-> 0], pc, job, apiLock, pending)
  BY <1>1 DEF Matched
<1>4. [t \in Tasks |-> 0] \in [Tasks -> Nat]
  OBVIOUS
<1>5. QED
  BY <1>1, <1>2, <1>3, <1>4 DEF OrdersInLine, InLine

(***************************************************************************)
(* The waiters of the API lock are the tasks that wait, each once, and     *)
(* their orders stand in the deque in the order in which they will be      *)
(* served (order.py:29-37, kis.py:64-66), also when the market close       *)
(* cancels the risk task while it waits (engine.py:163-167).               *)
(***************************************************************************)
THEOREM OrdersAlwaysInLine == Safe => []OrdersInLine
<1>1. IInv /\ IInv' /\ OrdersInLine /\ [Next]_vars => OrdersInLine'
  BY NextInLine
<1>2. QED
  BY InitInLine, Invariance, <1>1, PTL DEF Safe

(***************************************************************************)
(* An order in flight is always visible to the has_pending_for guard of    *)
(* _process_signal (engine.py:298).                                        *)
(***************************************************************************)
THEOREM InFlightAlwaysPending == Safe => []InFlightIsPending
<1>1. OrdersInLine => InFlightIsPending
  <2> SUFFICES ASSUME OrdersInLine, NEW t \in Tasks, pc[t] \in Ordering
               PROVE  HasPendingFor(job[t].sym)
    BY DEF InFlightIsPending
  <2>1. PICK f \in [Tasks -> Nat] : Matched(f, pc, job, apiLock, pending)
    BY DEF OrdersInLine, InLine
  <2>2. f[t] \in 1..Len(pending) /\ pending[f[t]] = job[t].sym
    BY <2>1 DEF Matched
  <2>3. QED
    BY <2>2 DEF HasPendingFor
<1>2. QED
  BY <1>1, OrdersAlwaysInLine, PTL
=============================================================================
