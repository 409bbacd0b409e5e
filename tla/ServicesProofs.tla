---------------------------- MODULE ServicesProofs ----------------------------
(***************************************************************************)
(* Theorems about Services, for any tasks, orders, pages, dashboards and   *)
(* stocks.  For every part there is an inductive invariant, and a lemma    *)
(* for each of its actions; the theorems at the end put them together.     *)
(* Of the orders OrderManagerProofs says the same.                         *)
(***************************************************************************)
EXTENDS Services, OrderManagerProofs

\* the parts count with the operator of FiniteSets
LEMMA SameCount ==
  \A S : Ledger!Cardinality(S) = Cardinality(S) /\ Jobs!Cardinality(S) = Cardinality(S)
BY DEF Ledger!Cardinality, Jobs!Cardinality, Cardinality

-----------------------------------------------------------------------------
(***************************************************************************)
(* TradeLedger: the memory of the first page, the rows, and what each      *)
(* fetch has read.                                                         *)
(***************************************************************************)

Books == Seq(Ledger!Qtys)
Fetches == [at : {"idle", "wait", "asked"}, page : 0 .. MaxPages - 1, cursor : 0 .. MaxOrders,
            snap : Books, items : [Ledger!DayOrders -> Ledger!Qtys], overlap : BOOLEAN]

LedgerTyped ==
  /\ ledger_book \in Books /\ Len(ledger_book) <= MaxOrders
  /\ ledger_rows \in [Ledger!DayOrders -> Ledger!Qtys]
  /\ ledger_count \in -1 .. PageSize /\ ledger_hasNext \in BOOLEAN
  /\ ledger_task \in [LedgerTasks -> Fetches]
  /\ ledger_basis \in Books
  /\ ledger_lost \subseteq Ledger!DayOrders /\ ledger_faults \in 0 .. MaxFaults

\* b is a book that was read earlier
Earlier(b) == Len(b) <= Len(ledger_book) /\ \A i \in 1 .. Len(b) : b[i] <= ledger_book[i]

\* quantities that were executed
Executed(q) == \A i \in Ledger!DayOrders : q[i] > 0 =>
  i <= Len(ledger_book) /\ q[i] <= ledger_book[i]

\* what the broker remembers is the first page of the basis
Remembered ==
  ledger_count # -1 => ledger_count = Cardinality(Ledger!Page(ledger_basis, 0))
  /\ ledger_hasNext = Ledger!More(ledger_basis, 0)

\* while all orders are on one page, what that page said was recorded, or refused
PageRecorded ==
  Len(ledger_book) <= PageSize /\ ledger_count # -1 =>
    \A i \in 1 .. Len(ledger_basis) : ledger_basis[i] = 0 \/ ledger_rows[i] = ledger_basis[i]
    \/ i \in ledger_lost

\* a fetch: nothing overlapped, it has read nothing older than the rows
NewerFetch(f) ==
  ~f.overlap =>
    /\ \A i \in Ledger!DayOrders : f.items[i] > 0 => ledger_rows[i] <= f.items[i]
    /\ f.at = "asked" => \A i \in 1 .. Len(f.snap) : ledger_rows[i] <= f.snap[i]

SoundFetch(f) ==
  /\ f.at = "idle" => f = Ledger!Idle
  /\ f.page = 0 => f.items = Ledger!Nothing /\ f.cursor = 0
  /\ f.page > 0 => Len(ledger_book) > PageSize
  /\ Earlier(f.snap) /\ Executed(f.items) /\ f.cursor <= Len(ledger_book)
  /\ f.at = "asked" => f.cursor <= Len(f.snap)
  /\ NewerFetch(f)

LedgerInv ==
  /\ LedgerTyped /\ Executed(ledger_rows) /\ Earlier(ledger_basis) /\ Remembered /\ PageRecorded
  /\ \A t \in LedgerTasks : SoundFetch(ledger_task[t])

-----------------------------------------------------------------------------
LEMMA Numbers ==
  /\ Ledger!DayOrders = 1 .. MaxOrders /\ Ledger!Qtys = 0 .. OrderQty
  /\ OrderQty \in Nat /\ PageSize \in Nat /\ PageSize >= 1 /\ MaxPages \in Nat /\ MaxPages >= 1
  /\ MaxOrders \in Nat /\ MaxFaults \in Nat
  /\ Ledger!Qtys \subseteq Nat /\ 0 \in Ledger!Qtys
BY LedgerAssumption DEF Ledger!DayOrders, Ledger!Qtys

LEMMA IdleTypes ==
  /\ Ledger!Nothing \in [Ledger!DayOrders -> Ledger!Qtys] /\ Ledger!Idle \in Fetches
     /\ Ledger!Idle.at = "idle"
  /\ Ledger!Idle.page = 0 /\ Ledger!Idle.cursor = 0 /\ Ledger!Idle.snap = <<>>
     /\ Ledger!Idle.items = Ledger!Nothing
  /\ Ledger!Idle.overlap = FALSE
  /\ \A i \in Ledger!DayOrders : Ledger!Nothing[i] = 0
<1>1. Ledger!Nothing \in [Ledger!DayOrders -> Ledger!Qtys]
      /\ \A i \in Ledger!DayOrders : Ledger!Nothing[i] = 0
  BY Numbers DEF Ledger!Nothing
<1>2. 0 \in 0 .. MaxPages - 1 /\ 0 \in 0 .. MaxOrders /\ <<>> \in Books
  BY Numbers DEF Books
<1> QED BY <1>1, <1>2 DEF Ledger!Idle, Fetches

\* how many orders are on a first page
LEMMA FirstPage ==
  ASSUME NEW b \in Books
  PROVE  /\ Len(b) <= PageSize =>
              Ledger!Page(b, 0) = 1 .. Len(b) /\ Cardinality(Ledger!Page(b, 0)) = Len(b)
         /\ Cardinality(Ledger!Page(b, 0)) \in 0 .. PageSize
         /\ Ledger!More(b, 0) <=> Len(b) > PageSize
<1>1. Ledger!Top(b, 0) = Len(b) /\ Len(b) \in Nat
  BY DEF Ledger!Top, Books
<1>2. CASE Len(b) <= PageSize
  <2>1. Ledger!Page(b, 0) = 1 .. Len(b)
    BY <1>1, <1>2, Numbers DEF Ledger!Page
  <2>2. Cardinality(1 .. Len(b)) = Len(b)
    <3>1. \A n \in Nat : Cardinality(1 .. n) = IF 1 > n THEN 0 ELSE n - 1 + 1
      BY FS_Interval
    <3>2. \A n \in Nat : Cardinality(1 .. n) = n
      BY <3>1
    <3> QED BY <1>1, <3>2
  <2> QED BY <1>1, <1>2, <2>1, <2>2, Numbers DEF Ledger!More
<1>3. CASE Len(b) > PageSize
  <2>1. Ledger!Page(b, 0) = (Len(b) - PageSize + 1) .. Len(b)
    <3>1. PICK n \in Nat : n = Len(b)
      BY <1>1
    <3>2. PICK p \in Nat : p = PageSize /\ p < n
      BY <1>3, <3>1, Numbers
    <3>3. Ledger!Page(b, 0) = {i \in 1 .. n : i > n - p}
      BY <1>1, <3>1, <3>2 DEF Ledger!Page
    <3>4. \A i : i \in {k \in 1 .. n : k > n - p} <=> i \in (n - p + 1) .. n
      BY <3>2
    <3>5. {k \in 1 .. n : k > n - p} = (n - p + 1) .. n
      BY <3>4
    <3> QED BY <3>1, <3>2, <3>3, <3>5
  <2>2. Len(b) - PageSize + 1 \in Int /\ Len(b) \in Int
    BY <1>1, Numbers
  <2>3. Cardinality((Len(b) - PageSize + 1) .. Len(b)) = Len(b) - (Len(b) - PageSize + 1) + 1
    BY <2>2, <1>1, <1>3, Numbers, FS_Interval
  <2>4. Cardinality(Ledger!Page(b, 0)) = PageSize
    BY <1>1, <2>1, <2>3, Numbers
  <2> QED BY <1>1, <1>3, <2>4, Numbers DEF Ledger!More
<1> QED BY <1>1, <1>2, <1>3, Numbers

\* the newest order of an answer, and its page
LEMMA TopIs ==
  ASSUME NEW b \in Books, NEW cursor \in Nat, cursor <= Len(b), Len(b) <= MaxOrders
  PROVE  /\ Ledger!Top(b, cursor) \in Nat /\ Ledger!Top(b, cursor) <= Len(b)
         /\ Ledger!Page(b, cursor) \subseteq 1 .. Len(b)
         /\ Ledger!More(b, cursor) => Ledger!Top(b, cursor) > PageSize /\ Len(b) > PageSize
<1>1. Len(b) \in Nat
  BY DEF Books
<1>2. Ledger!Top(b, cursor) \in Nat /\ Ledger!Top(b, cursor) <= Len(b)
  BY <1>1 DEF Ledger!Top
<1> QED BY <1>1, <1>2, Numbers DEF Ledger!Page, Ledger!More

\* what a task has read, with the answer at hand
LEMMA ItemsAre ==
  ASSUME LedgerInv, NEW t \in LedgerTasks, ledger_task[t].at = "asked"
  PROVE  /\ Ledger!Items(t) \in [Ledger!DayOrders -> Ledger!Qtys] /\ Executed(Ledger!Items(t))
         /\ ~ledger_task[t].overlap => \A i \in Ledger!DayOrders : Ledger!Items(t)[i] > 0 =>
              ledger_rows[i] <= Ledger!Items(t)[i]
         /\ ledger_task[t].page = 0 /\ Len(ledger_book) <= PageSize =>
              \A i \in 1 .. Len(ledger_task[t].snap) : Ledger!Items(t)[i] = ledger_task[t].snap[i]
<1>1. LedgerTyped /\ SoundFetch(ledger_task[t]) /\ ledger_task[t] \in Fetches
  BY DEF LedgerInv, LedgerTyped
<1>2. PICK b \in Books : b = ledger_task[t].snap
  BY <1>1 DEF Fetches
<1>3. PICK cursor \in Nat : cursor = ledger_task[t].cursor
  BY <1>1, Numbers DEF Fetches
<1>4. PICK old \in [Ledger!DayOrders -> Ledger!Qtys] : old = ledger_task[t].items
  BY <1>1 DEF Fetches
<1>5. Len(b) \in Nat /\ Len(b) <= Len(ledger_book) /\ Len(ledger_book) <= MaxOrders
      /\ Len(ledger_book) \in Nat
      /\ cursor <= Len(b) /\ \A i \in 1 .. Len(b) : b[i] \in Ledger!Qtys /\ b[i] <= ledger_book[i]
  BY <1>1, <1>2, <1>3 DEF SoundFetch, Earlier, LedgerTyped, Books
<1>6. Len(b) <= MaxOrders
  BY <1>5, Numbers
<1>7. Ledger!Page(b, cursor) \subseteq 1 .. Len(b)
  BY <1>5, <1>6, TopIs
<1>8. \A i \in Ledger!DayOrders : Ledger!Items(t)[i] = IF i \in Ledger!Page(b, cursor)
      THEN b[i] ELSE old[i]
  BY <1>2, <1>3, <1>4 DEF Ledger!Items
<1>9. Ledger!Items(t) \in [Ledger!DayOrders -> Ledger!Qtys]
  BY <1>2, <1>3, <1>4, <1>5, <1>7 DEF Ledger!Items
<1>10. Executed(Ledger!Items(t))
  <2>1. Executed(old)
    BY <1>1, <1>4 DEF SoundFetch
  <2> SUFFICES ASSUME NEW i \in Ledger!DayOrders, Ledger!Items(t)[i] > 0
               PROVE  i <= Len(ledger_book) /\ Ledger!Items(t)[i] <= ledger_book[i]
    BY DEF Executed
  <2>2. CASE i \in Ledger!Page(b, cursor)
    <3>1. i \in 1 .. Len(b) /\ Ledger!Items(t)[i] = b[i]
      BY <1>7, <1>8, <2>2
    <3> QED BY <1>5, <3>1
  <2>3. CASE i \notin Ledger!Page(b, cursor)
    BY <1>8, <2>1, <2>3 DEF Executed
  <2> QED BY <2>2, <2>3
<1>11. ASSUME ~ledger_task[t].overlap, NEW i \in Ledger!DayOrders, Ledger!Items(t)[i] > 0
       PROVE  ledger_rows[i] <= Ledger!Items(t)[i]
  <2>1. \A k \in 1 .. Len(b) : ledger_rows[k] <= b[k]
    BY <1>1, <1>2, <1>11 DEF SoundFetch, NewerFetch
  <2>2. \A k \in Ledger!DayOrders : old[k] > 0 => ledger_rows[k] <= old[k]
    BY <1>1, <1>4, <1>11 DEF SoundFetch, NewerFetch
  <2>3. CASE i \in Ledger!Page(b, cursor)
    BY <1>7, <1>8, <2>1, <2>3
  <2>4. CASE i \notin Ledger!Page(b, cursor)
    BY <1>8, <1>11, <2>2, <2>4
  <2> QED BY <2>3, <2>4
<1>12. ASSUME ledger_task[t].page = 0, Len(ledger_book) <= PageSize, NEW i \in 1 .. Len(b)
       PROVE  Ledger!Items(t)[i] = b[i]
  <2>1. cursor = 0
    BY <1>1, <1>3, <1>12 DEF SoundFetch
  <2>2. Len(b) <= PageSize
    BY <1>5, <1>12, Numbers
  <2>3. Ledger!Page(b, cursor) = 1 .. Len(b)
    BY <2>1, <2>2, FirstPage
  <2>4. i \in Ledger!DayOrders
    BY <1>5, <1>6, <1>12, Numbers
  <2> QED BY <1>8, <1>12, <2>3, <2>4
<1> QED BY <1>2, <1>9, <1>10, <1>11, <1>12

-----------------------------------------------------------------------------
(***************************************************************************)
(* Steps of the exchange: the book grows, and a task may begin with the    *)
(* memory reset.                                                           *)
(***************************************************************************)
\* the book has grown, and nothing was recorded
Grown ==
  /\ ledger_book' \in Books /\ Len(ledger_book') <= MaxOrders
     /\ Len(ledger_book) <= Len(ledger_book')
  /\ \A i \in 1 .. Len(ledger_book) : ledger_book[i] <= ledger_book'[i]
  /\ UNCHANGED <<ledger_rows, ledger_basis, ledger_lost>>

LEMMA BooksOfNumbers == \A b \in Books : b \in Seq(Nat)
BY Numbers DEF Books

LEMMA GrownKeeps ==
  ASSUME LedgerTyped, Grown
  PROVE  /\ \A b \in Books : Earlier(b) => Earlier(b)'
         /\ \A q \in [Ledger!DayOrders -> Ledger!Qtys] : Executed(q) => Executed(q)'
         /\ Len(ledger_book) \in Nat /\ Len(ledger_book') \in Nat
            /\ Len(ledger_book) <= Len(ledger_book')
<1>1. Len(ledger_book) \in Nat /\ Len(ledger_book') \in Nat /\ Len(ledger_book) <= Len(ledger_book')
      /\ \A i \in 1 .. Len(ledger_book) : ledger_book[i] \in Nat /\ ledger_book'[i] \in Nat
  <2>1. ledger_book \in Seq(Nat) /\ ledger_book' \in Seq(Nat)
    BY BooksOfNumbers DEF LedgerTyped, Grown
  <2> QED BY <2>1 DEF Grown
<1>2. ASSUME NEW b \in Books, Earlier(b) PROVE Earlier(b)'
  <2>1. Len(b) \in Nat /\ \A i \in 1 .. Len(b) : b[i] \in Nat
    BY Numbers DEF Books
  <2> QED BY <1>1, <1>2, <2>1 DEF Earlier, Grown
<1>3. ASSUME NEW q \in [Ledger!DayOrders -> Ledger!Qtys], Executed(q) PROVE Executed(q)'
  <2> SUFFICES ASSUME NEW i \in Ledger!DayOrders, q[i] > 0
               PROVE  i <= Len(ledger_book') /\ q[i] <= ledger_book'[i]
    BY DEF Executed
  <2>1. i \in 1 .. Len(ledger_book) /\ q[i] <= ledger_book[i] /\ q[i] \in Nat /\ i \in Nat
    BY <1>1, <1>3, Numbers DEF Executed
  <2>2. i <= Len(ledger_book')
    BY <1>1, <2>1
  <2>3. ledger_book[i] <= ledger_book'[i] /\ ledger_book[i] \in Nat /\ ledger_book'[i] \in Nat
    BY <1>1, <2>1 DEF Grown
  <2> QED BY <2>1, <2>2, <2>3
<1> QED BY <1>1, <1>2, <1>3

LEMMA GrownSound ==
  ASSUME LedgerTyped, Grown, NEW f \in Fetches, SoundFetch(f)
  PROVE  SoundFetch(f)'
<1>1. f.snap \in Books /\ f.items \in [Ledger!DayOrders -> Ledger!Qtys] /\ f.cursor \in Nat
  BY Numbers DEF Fetches
<1>2. Earlier(f.snap)' /\ Executed(f.items)'
  BY <1>1, GrownKeeps DEF SoundFetch
<1>3. f.cursor <= Len(ledger_book') /\ (f.page > 0 => Len(ledger_book') > PageSize)
  BY <1>1, GrownKeeps, Numbers DEF SoundFetch
<1>4. NewerFetch(f)'
  BY DEF SoundFetch, NewerFetch, Grown
<1> QED BY <1>2, <1>3, <1>4 DEF SoundFetch

\* a fetch begins
LEMMA FetchBegins ==
  ASSUME NEW f \in Fetches, SoundFetch(f), f.at = "idle", NEW g, g = [f EXCEPT !.at = "wait"]
  PROVE  g \in Fetches /\ SoundFetch(g)
<1>1. g \in Fetches /\ g.at = "wait" /\ g.page = f.page /\ g.cursor = f.cursor /\ g.snap = f.snap
      /\ g.items = f.items /\ g.overlap = f.overlap
  BY DEF Fetches
<1> QED BY <1>1 DEF SoundFetch, NewerFetch

\* the exchange takes an order or executes one, and a fetch may begin
LEMMA GrownStep ==
  ASSUME LedgerInv, Grown, ledger_faults' \in 0 .. MaxFaults, ledger_hasNext' = ledger_hasNext,
         \/ Ledger!EventFetch
         \/ Len(ledger_book') = Len(ledger_book) /\ UNCHANGED <<ledger_count, ledger_task>>
  PROVE  LedgerInv'
<1>1. LedgerTyped /\ Executed(ledger_rows) /\ Earlier(ledger_basis) /\ Remembered /\ PageRecorded
  BY DEF LedgerInv
<1>2. Executed(ledger_rows)' /\ Earlier(ledger_basis)'
  <2>1. PICK r \in [Ledger!DayOrders -> Ledger!Qtys] : r = ledger_rows
    BY <1>1 DEF LedgerTyped
  <2>2. PICK b \in Books : b = ledger_basis
    BY <1>1 DEF LedgerTyped
  <2>3. Executed(r)' /\ Earlier(b)'
    BY <1>1, <2>1, <2>2, GrownKeeps
  <2>4. ledger_rows' = r /\ ledger_basis' = b
    BY <2>1, <2>2 DEF Grown
  <2> QED BY <2>3, <2>4 DEF Executed, Earlier
<1>3. Remembered' /\ PageRecorded' /\ ledger_count' \in -1 .. PageSize
  <2>1. CASE Ledger!EventFetch
    BY <2>1, Numbers DEF Ledger!EventFetch, Remembered, PageRecorded
  <2>2. CASE Len(ledger_book') = Len(ledger_book) /\ UNCHANGED <<ledger_count, ledger_task>>
    BY <1>1, <2>2 DEF Remembered, PageRecorded, Grown, LedgerTyped
  <2> QED BY <2>1, <2>2
<1>4. ledger_task' \in [LedgerTasks -> Fetches]
      /\ \A t \in LedgerTasks : SoundFetch(ledger_task[t])'
  <2>1. CASE Ledger!EventFetch
    <3>1. PICK t \in LedgerTasks : ledger_task[t].at = "idle"
               /\ ledger_task' = [ledger_task EXCEPT ![t].at = "wait"]
      BY <2>1 DEF Ledger!EventFetch
    <3>2. PICK f \in Fetches : f = ledger_task[t]
      BY <1>1 DEF LedgerTyped
    <3>3. PICK g : g = [f EXCEPT !.at = "wait"]
      OBVIOUS
    <3>4. g \in Fetches /\ SoundFetch(g)
      BY <3>1, <3>2, <3>3, FetchBegins DEF LedgerInv
    <3>5. SoundFetch(g)'
      BY <1>1, <3>4, GrownSound
    <3>6. ledger_task' = [ledger_task EXCEPT ![t] = g]
      BY <1>1, <3>1, <3>2, <3>3 DEF LedgerTyped
    <3>7. ledger_task' \in [LedgerTasks -> Fetches] /\ ledger_task'[t] = g
      BY <1>1, <3>4, <3>6 DEF LedgerTyped
    <3>8. ASSUME NEW u \in LedgerTasks \ {t} PROVE SoundFetch(ledger_task[u])'
      <4>1. PICK h \in Fetches : h = ledger_task[u]
        BY <1>1 DEF LedgerTyped
      <4>2. SoundFetch(h)'
        BY <1>1, <4>1, GrownSound DEF LedgerInv
      <4>3. ledger_task'[u] = h
        BY <1>1, <3>6, <4>1 DEF LedgerTyped
      <4> QED BY <4>2, <4>3 DEF SoundFetch, NewerFetch, Earlier, Executed
    <3>9. SoundFetch(ledger_task[t])'
      BY <3>5, <3>7 DEF SoundFetch, NewerFetch, Earlier, Executed
    <3> QED BY <3>7, <3>8, <3>9
  <2>2. CASE UNCHANGED <<ledger_count, ledger_task>>
    <3>1. ASSUME NEW u \in LedgerTasks PROVE SoundFetch(ledger_task[u])'
      <4>1. PICK h \in Fetches : h = ledger_task[u]
        BY <1>1 DEF LedgerTyped
      <4>2. SoundFetch(h)'
        BY <1>1, <4>1, GrownSound DEF LedgerInv
      <4>3. ledger_task'[u] = h
        BY <2>2, <4>1
      <4> QED BY <4>2, <4>3 DEF SoundFetch, NewerFetch, Earlier, Executed
    <3> QED BY <1>1, <2>2, <3>1 DEF LedgerTyped
  <2> QED BY <2>1, <2>2
<1>5. LedgerTyped'
  BY <1>1, <1>3, <1>4 DEF LedgerTyped, Grown
<1> QED BY <1>2, <1>3, <1>4, <1>5 DEF LedgerInv

LEMMA PlaceStep ==
  ASSUME LedgerInv, Ledger!Place
  PROVE  LedgerInv'
<1>1. LedgerTyped
  BY DEF LedgerInv
<1>2. PICK b \in Books : b = ledger_book
  BY <1>1 DEF LedgerTyped
<1>3. ledger_book' = Append(b, 0) /\ Len(b) < MaxOrders /\ Len(b) \in Nat
  BY <1>2 DEF Ledger!Place, Books
<1>4. Append(b, 0) \in Books /\ Len(Append(b, 0)) = Len(b) + 1
      /\ \A i \in 1 .. Len(b) : Append(b, 0)[i] = b[i] /\ b[i] \in Nat
  BY Numbers DEF Books
<1>5. Grown
  BY <1>2, <1>3, <1>4, Numbers DEF Grown, Ledger!Place
<1> QED BY <1>1, <1>5, GrownStep DEF Ledger!Place, LedgerTyped

LEMMA ExecuteStep ==
  ASSUME LedgerInv, NEW i \in Ledger!DayOrders, Ledger!Execute(i)
  PROVE  LedgerInv'
<1>1. LedgerTyped
  BY DEF LedgerInv
<1>2. PICK b \in Books : b = ledger_book
  BY <1>1 DEF LedgerTyped
<1>3. i \in 1 .. Len(b) /\ Len(b) \in Nat /\ b[i] \in Nat /\ b[i] + 1 \in Ledger!Qtys
      /\ ledger_book' = [b EXCEPT ![i] = b[i] + 1]
  BY <1>2, Numbers DEF Ledger!Execute, Books
<1>4. [b EXCEPT ![i] = b[i] + 1] \in Books /\ Len([b EXCEPT ![i] = b[i] + 1]) = Len(b)
      /\ \A k \in 1 .. Len(b) : b[k] \in Nat /\ b[k] <= [b EXCEPT ![i] = b[i] + 1][k]
  BY <1>3, Numbers DEF Books
<1>5. Grown /\ Len(ledger_book') = Len(ledger_book)
  BY <1>1, <1>2, <1>3, <1>4 DEF Grown, Ledger!Execute, LedgerTyped
<1>6. ledger_faults' \in 0 .. MaxFaults
  BY <1>1, Numbers DEF Ledger!Execute, LedgerTyped
<1> QED BY <1>5, <1>6, GrownStep DEF Ledger!Execute

-----------------------------------------------------------------------------
(***************************************************************************)
(* Steps of a fetch.                                                       *)
(***************************************************************************)
\* a step that changes one fetch and nothing it is compared with
LEMMA OneFetchStep ==
  ASSUME LedgerInv, NEW t \in LedgerTasks, NEW g \in Fetches, SoundFetch(g),
         ledger_task' = [ledger_task EXCEPT ![t] = g],
         ledger_faults' \in 0 .. MaxFaults,
         UNCHANGED <<ledger_book, ledger_rows, ledger_count, ledger_hasNext, ledger_basis,
                     ledger_lost>>
  PROVE  LedgerInv'
<1>1. LedgerTyped
  BY DEF LedgerInv
<1>2. LedgerTyped'
  BY <1>1 DEF LedgerTyped
<1>3. ASSUME NEW u \in LedgerTasks PROVE SoundFetch(ledger_task[u])'
  <2>1. PICK h : h = ledger_task'[u] /\ SoundFetch(h)
    BY <1>1 DEF LedgerInv, LedgerTyped
  <2> QED BY <2>1 DEF SoundFetch, NewerFetch, Earlier, Executed
<1> QED BY <1>2, <1>3 DEF LedgerInv, Executed, Earlier, Remembered, PageRecorded

LEMMA IdleSound == LedgerInv => SoundFetch(Ledger!Idle)
<1> SUFFICES ASSUME LedgerInv PROVE SoundFetch(Ledger!Idle)
  OBVIOUS
<1>1. Len(ledger_book) \in Nat
  BY DEF LedgerInv, LedgerTyped, Books
<1>2. Earlier(Ledger!Idle.snap)
  BY <1>1, IdleTypes DEF Earlier
<1>3. Executed(Ledger!Idle.items) /\ NewerFetch(Ledger!Idle)
  BY IdleTypes DEF Executed, NewerFetch
<1> QED BY <1>1, <1>2, <1>3, IdleTypes DEF SoundFetch

LEMMA LoopBeginsStep ==
  ASSUME LedgerInv, Ledger!LoopBegins
  PROVE  LedgerInv'
<1>1. LedgerTyped /\ Loop \in LedgerTasks
  BY LedgerAssumption DEF LedgerInv
<1>2. PICK f \in Fetches : f = ledger_task[Loop] /\ SoundFetch(f) /\ f.at = "idle"
  BY <1>1 DEF LedgerInv, LedgerTyped, Ledger!LoopBegins
<1>3. PICK g : g = [f EXCEPT !.at = "wait"]
  OBVIOUS
<1>4. g \in Fetches /\ SoundFetch(g)
  BY <1>2, <1>3, FetchBegins
<1>5. ledger_task' = [ledger_task EXCEPT ![Loop] = g]
  BY <1>1, <1>2, <1>3 DEF Ledger!LoopBegins, LedgerTyped
<1> QED BY <1>1, <1>4, <1>5, OneFetchStep DEF Ledger!LoopBegins, LedgerTyped

LEMMA AskStep ==
  ASSUME LedgerInv, NEW t \in LedgerTasks, Ledger!Ask(t)
  PROVE  LedgerInv'
<1>1. LedgerTyped
  BY DEF LedgerInv
<1>2. PICK f \in Fetches : f = ledger_task[t] /\ SoundFetch(f) /\ f.at = "wait"
  BY <1>1 DEF LedgerInv, LedgerTyped, Ledger!Ask
<1>3. PICK b \in Books : b = ledger_book
  BY <1>1 DEF LedgerTyped
<1>4. PICK g : g = [[f EXCEPT !.at = "asked"] EXCEPT !.snap = b]
  OBVIOUS
<1>5. g \in Fetches /\ g.at = "asked" /\ g.page = f.page /\ g.cursor = f.cursor /\ g.snap = b
      /\ g.items = f.items /\ g.overlap = f.overlap
  BY <1>4 DEF Fetches
<1>6. ledger_task' = [ledger_task EXCEPT ![t] = g]
  <2>1. ledger_task' =
          [ledger_task EXCEPT ![t] =
             [[ledger_task[t] EXCEPT !.at = "asked"] EXCEPT !.snap = ledger_book]]
    BY <1>1 DEF Ledger!Ask, LedgerTyped
  <2> QED BY <1>2, <1>3, <1>4, <2>1
<1>7. Len(b) \in Nat /\ \A i \in 1 .. Len(b) : b[i] \in Nat
  BY Numbers DEF Books
<1>8. Earlier(b)
  BY <1>3, <1>7 DEF Earlier
<1>9. NewerFetch(g)
  <2>1. ASSUME NEW i \in 1 .. Len(b) PROVE ledger_rows[i] <= b[i]
    <3>1. i \in Ledger!DayOrders
      BY <1>1, <1>3, <1>7, Numbers DEF LedgerTyped
    <3>2. ledger_rows[i] \in Nat /\ (ledger_rows[i] > 0 => ledger_rows[i] <= b[i])
      BY <1>1, <1>3, <3>1, Numbers DEF LedgerInv, Executed, LedgerTyped
    <3> QED BY <1>7, <3>2
  <2>2. NewerFetch(f)
    BY <1>2 DEF SoundFetch
  <2> QED BY <1>5, <2>1, <2>2 DEF NewerFetch
<1>10. SoundFetch(g)
  BY <1>2, <1>3, <1>5, <1>8, <1>9 DEF SoundFetch
<1> QED BY <1>1, <1>5, <1>6, <1>10, OneFetchStep DEF Ledger!Ask, LedgerTyped

LEMMA SkipStep ==
  ASSUME LedgerInv, NEW t \in LedgerTasks, Ledger!Skip(t)
  PROVE  LedgerInv'
<1>1. ledger_task' = [ledger_task EXCEPT ![t] = Ledger!Idle] /\ ledger_faults' \in 0 .. MaxFaults
  BY DEF LedgerInv, LedgerTyped, Ledger!Skip
<1> QED BY <1>1, IdleSound, IdleTypes, OneFetchStep DEF Ledger!Skip

\* what the memory is after an answer
LEMMA RememberKeeps ==
  ASSUME LedgerInv, NEW t \in LedgerTasks, ledger_task[t].at = "asked", Ledger!Remember(t),
         UNCHANGED ledger_book
  PROVE  /\ ledger_count' \in -1 .. PageSize /\ ledger_hasNext' \in BOOLEAN
            /\ ledger_basis' \in Books
         /\ Earlier(ledger_basis)' /\ Remembered'
<1>1. LedgerTyped /\ ledger_task[t] \in Fetches /\ SoundFetch(ledger_task[t])
      /\ Earlier(ledger_basis) /\ Remembered
  BY DEF LedgerInv, LedgerTyped
<1>2. PICK b \in Books : b = ledger_task[t].snap /\ Earlier(b)
  BY <1>1 DEF Fetches, SoundFetch
<1>3. CASE ledger_task[t].page = 0
  <2>1. ledger_count' = Cardinality(Ledger!Page(b, 0)) /\ ledger_hasNext' = Ledger!More(b, 0)
        /\ ledger_basis' = b
    BY <1>2, <1>3, SameCount DEF Ledger!Remember
  <2>2. Ledger!More(b, 0) \in BOOLEAN
    BY DEF Ledger!More
  <2>3. ledger_count' \in -1 .. PageSize
    BY <2>1, FirstPage, Numbers
  <2>4. Remembered'
    BY <2>1 DEF Remembered
  <2>5. Earlier(ledger_basis)'
    BY <1>2, <2>1 DEF Earlier
  <2> QED BY <2>1, <2>2, <2>3, <2>4, <2>5
<1>4. CASE ledger_task[t].page # 0
  <2>1. UNCHANGED <<ledger_count, ledger_hasNext, ledger_basis>>
    BY <1>4 DEF Ledger!Remember
  <2> QED BY <1>1, <2>1 DEF LedgerTyped, Remembered, Earlier
<1> QED BY <1>3, <1>4

LEMMA NextPageStep ==
  ASSUME LedgerInv, NEW t \in LedgerTasks, Ledger!NextPage(t)
  PROVE  LedgerInv'
<1>1. LedgerTyped /\ ledger_task[t].at = "asked" /\ Ledger!Remember(t)
      /\ UNCHANGED <<ledger_book, ledger_rows, ledger_lost, ledger_faults>>
      /\ ~Ledger!LastPage(t)
  BY DEF LedgerInv, Ledger!NextPage
<1>2. PICK f \in Fetches : f = ledger_task[t] /\ SoundFetch(f) /\ f.at = "asked"
  BY <1>1 DEF LedgerInv, LedgerTyped
<1>3. /\ f.snap \in Books /\ f.cursor \in Nat /\ f.page \in Nat /\ f.cursor <= Len(f.snap)
      /\ Len(f.snap) \in Nat /\ Len(ledger_book) \in Nat
      /\ Len(f.snap) <= Len(ledger_book) /\ Len(ledger_book) <= MaxOrders
  BY <1>1, <1>2, Numbers DEF Fetches, SoundFetch, Earlier, LedgerTyped, Books
<1>4. PICK top \in Nat : top = Ledger!Top(f.snap, f.cursor) /\ top <= Len(f.snap) /\ top > PageSize
                         /\ Len(f.snap) > PageSize
  <2>1. Ledger!More(f.snap, f.cursor)
    BY <1>1, <1>2 DEF Ledger!LastPage
  <2>2. Len(f.snap) <= MaxOrders
    BY <1>3, Numbers
  <2> QED BY <1>3, <2>1, <2>2, TopIs
<1>5. PICK new \in [Ledger!DayOrders -> Ledger!Qtys] : new = Ledger!Items(t) /\ Executed(new)
      /\ (~f.overlap => \A i \in Ledger!DayOrders : new[i] > 0 => ledger_rows[i] <= new[i])
  BY <1>1, <1>2, ItemsAre
<1>6. PICK g : g = [at |-> "wait", page |-> f.page + 1, cursor |-> top - PageSize + 1,
                    snap |-> f.snap, items |-> new, overlap |-> f.overlap]
  OBVIOUS
<1>7. f.page + 1 \in 0 .. MaxPages - 1
  <2>1. ~(f.page + 1 >= MaxPages)
    BY <1>1, <1>2 DEF Ledger!LastPage
  <2> QED BY <1>3, <2>1, Numbers
<1>8. top - PageSize + 1 \in 0 .. MaxOrders /\ top - PageSize + 1 <= Len(ledger_book)
  <2>1. PICK n \in Nat, k \in Nat, p \in Nat, max \in Nat :
          n = Len(ledger_book) /\ k = Len(f.snap) /\ p = PageSize /\ max = MaxOrders /\ p >= 1
    BY <1>3, Numbers
  <2>2. top <= k /\ top > p /\ k <= n /\ n <= max
    BY <1>3, <1>4, <2>1
  <2> QED BY <2>1, <2>2
<1>9. g \in Fetches
  BY <1>6, <1>7, <1>8 DEF Fetches
<1>10. ledger_task' = [ledger_task EXCEPT ![t] = g]
  <2>1. f = [at |-> f.at, page |-> f.page, cursor |-> f.cursor, snap |-> f.snap,
             items |-> f.items, overlap |-> f.overlap]
    BY DEF Fetches
  <2>2. ledger_task' =
          [ledger_task EXCEPT ![t] = [[[[f EXCEPT !.at = "wait"] EXCEPT !.page = f.page + 1]
                                      EXCEPT !.items = new] EXCEPT !.cursor = top - PageSize + 1]]
    <3>1. ledger_task \in [LedgerTasks -> Fetches] /\ f = ledger_task[t]
      BY <1>1, <1>2 DEF LedgerTyped
    <3>2. ledger_task' = [ledger_task EXCEPT ![t].at = "wait", ![t].page = @ + 1, ![t].items = new,
                               ![t].cursor = Ledger!Top(f.snap, @) - PageSize + 1]
      BY <1>2, <1>5 DEF Ledger!NextPage
    <3>3. Ledger!Top(f.snap, f.cursor) = top
      BY <1>4
    <3> HIDE DEF Ledger!Top
    <3> QED BY <2>1, <3>1, <3>2, <3>3
  <2>3. g = [[[[f EXCEPT !.at = "wait"] EXCEPT !.page = f.page + 1]
              EXCEPT !.items = new] EXCEPT !.cursor = top - PageSize + 1]
    <3>1. PICK a, p, k, s, q, o : f = [at |-> a, page |-> p, cursor |-> k, snap |-> s,
                                       items |-> q, overlap |-> o]
      BY <2>1
    <3>2. f.page = p /\ f.snap = s /\ f.overlap = o
      BY <3>1
    <3>3. g = [at |-> "wait", page |-> p + 1, cursor |-> top - PageSize + 1,
               snap |-> s, items |-> new, overlap |-> o]
      BY <1>6, <3>2
    <3>4. PICK f1 : f1 = [f EXCEPT !.at = "wait"]
      OBVIOUS
    <3>5. PICK f2 : f2 = [f1 EXCEPT !.page = f.page + 1]
      OBVIOUS
    <3>6. PICK f3 : f3 = [f2 EXCEPT !.items = new]
      OBVIOUS
    <3>7. PICK f4 : f4 = [f3 EXCEPT !.cursor = top - PageSize + 1]
      OBVIOUS
    <3>8. f1 = [at |-> "wait", page |-> p, cursor |-> k, snap |-> s, items |-> q, overlap |-> o]
      BY <3>1, <3>4
    <3>9. f2 = [at |-> "wait", page |-> p + 1, cursor |-> k, snap |-> s, items |-> q,
                overlap |-> o]
      BY <3>2, <3>5, <3>8
    <3>10. f3 = [at |-> "wait", page |-> p + 1, cursor |-> k, snap |-> s, items |-> new,
                 overlap |-> o]
      BY <3>6, <3>9
    <3>11. f4 = g
      BY <3>3, <3>7, <3>10
    <3> QED BY <3>4, <3>5, <3>6, <3>7, <3>11
  <2> QED BY <2>2, <2>3
<1>11. SoundFetch(g)
  <2>1. Earlier(f.snap)
    BY <1>2 DEF SoundFetch
  <2>2. Len(ledger_book) > PageSize /\ f.page + 1 > 0 /\ f.page + 1 # 0
    BY <1>3, <1>4, Numbers
  <2>3. NewerFetch(g)
    BY <1>5, <1>6 DEF NewerFetch
  <2> QED BY <1>5, <1>6, <1>8, <2>1, <2>2, <2>3 DEF SoundFetch
<1>12. /\ ledger_count' \in -1 .. PageSize /\ ledger_hasNext' \in BOOLEAN /\ ledger_basis' \in Books
       /\ Earlier(ledger_basis)' /\ Remembered'
  BY <1>1, RememberKeeps
<1>13. LedgerTyped'
  BY <1>1, <1>9, <1>10, <1>12 DEF LedgerTyped
<1>14. Executed(ledger_rows)' /\ PageRecorded'
  <2>1. ~(Len(ledger_book) <= PageSize)
    BY <1>3, <1>4, Numbers
  <2> QED BY <1>1, <2>1 DEF LedgerInv, Executed, PageRecorded
<1>15. ASSUME NEW u \in LedgerTasks PROVE SoundFetch(ledger_task[u])'
  <2>1. PICK h : h = ledger_task'[u] /\ SoundFetch(h)
    BY <1>1, <1>10, <1>11 DEF LedgerInv, LedgerTyped
  <2> QED BY <1>1, <2>1 DEF SoundFetch, NewerFetch, Earlier, Executed
<1> QED BY <1>12, <1>13, <1>14, <1>15 DEF LedgerInv

\* another fetch when one ends: it is marked as overlapped, if it is under way
LEMMA MarkedSound ==
  ASSUME NEW f \in Fetches, SoundFetch(f), LedgerInv, NEW g,
         g = (IF f.at = "idle" THEN Ledger!Idle ELSE [f EXCEPT !.overlap = TRUE])
  PROVE  g \in Fetches /\ (UNCHANGED ledger_book => SoundFetch(g)')
<1>1. CASE f.at = "idle"
  <2>1. SoundFetch(Ledger!Idle)
    BY IdleSound
  <2>2. UNCHANGED ledger_book => SoundFetch(Ledger!Idle)'
    BY <2>1, IdleTypes DEF SoundFetch, NewerFetch, Earlier, Executed
  <2> QED BY <1>1, <2>2, IdleTypes
<1>2. CASE f.at # "idle"
  <2>1. g \in Fetches /\ g.at = f.at /\ g.page = f.page /\ g.cursor = f.cursor
        /\ g.snap = f.snap /\ g.items = f.items /\ g.overlap = TRUE
    BY <1>2 DEF Fetches
  <2> QED BY <1>2, <2>1 DEF SoundFetch, NewerFetch, Earlier, Executed
<1> QED BY <1>1, <1>2

\* the fetches after one has ended
LEMMA EndKeeps ==
  ASSUME LedgerInv, NEW t \in LedgerTasks, Ledger!End(t), UNCHANGED ledger_book
  PROVE  /\ ledger_task' \in [LedgerTasks -> Fetches] /\ ledger_task'[t] = Ledger!Idle
         /\ \A u \in LedgerTasks : SoundFetch(ledger_task[u])'
<1>1. LedgerTyped
  BY DEF LedgerInv
<1>2. ASSUME NEW u \in LedgerTasks PROVE ledger_task'[u] \in Fetches /\ SoundFetch(ledger_task[u])'
  <2>1. PICK f \in Fetches : f = ledger_task[u] /\ SoundFetch(f)
    BY <1>1 DEF LedgerInv, LedgerTyped
  <2>2. CASE u # t
    <3>1. PICK g : g = (IF f.at = "idle" THEN Ledger!Idle ELSE [f EXCEPT !.overlap = TRUE])
      OBVIOUS
    <3>2. ledger_task'[u] = g
      BY <2>1, <2>2, <3>1 DEF Ledger!End
    <3>3. g \in Fetches /\ SoundFetch(g)'
      BY <2>1, <3>1, MarkedSound
    <3> QED BY <3>2, <3>3 DEF SoundFetch, NewerFetch, Earlier, Executed
  <2>3. CASE u = t
    <3>1. ledger_task'[u] = Ledger!Idle
      BY <2>3 DEF Ledger!End
    <3>2. SoundFetch(Ledger!Idle)' 
      <4>1. PICK g : g = Ledger!Idle
        OBVIOUS
      <4>2. SoundFetch(g) /\ g.at = "idle" /\ g.items = Ledger!Nothing
        BY <4>1, IdleSound, IdleTypes
      <4>3. SoundFetch(g)'
        BY <4>2, IdleTypes DEF SoundFetch, NewerFetch, Earlier, Executed
      <4> QED BY <4>1, <4>3 DEF SoundFetch, NewerFetch, Earlier, Executed
    <3> QED BY <3>1, <3>2, IdleTypes DEF SoundFetch, NewerFetch, Earlier, Executed
  <2> QED BY <2>2, <2>3
<1>3. ledger_task' \in [LedgerTasks -> Fetches]
  BY <1>2 DEF Ledger!End
<1>4. ledger_task'[t] = Ledger!Idle
  BY DEF Ledger!End
<1> QED BY <1>2, <1>3, <1>4

\* what was executed is recorded
LEMMA SyncKeeps ==
  ASSUME LedgerTyped, Executed(ledger_rows), NEW items \in [Ledger!DayOrders -> Ledger!Qtys],
         Executed(items), Ledger!Sync(items),
         UNCHANGED ledger_book
  PROVE  /\ ledger_rows' \in [Ledger!DayOrders -> Ledger!Qtys] /\ Executed(ledger_rows)'
         /\ \A i \in Ledger!DayOrders : ledger_rows'[i] = IF items[i] > 0
            THEN items[i] ELSE ledger_rows[i]
<1>1. \A i \in Ledger!DayOrders : ledger_rows'[i] = IF items[i] > 0
      THEN items[i] ELSE ledger_rows[i]
  BY DEF Ledger!Sync
<1>2. ledger_rows' \in [Ledger!DayOrders -> Ledger!Qtys]
  BY DEF Ledger!Sync, LedgerTyped
<1>3. Executed(ledger_rows)'
  BY <1>1 DEF Executed
<1> QED BY <1>1, <1>2, <1>3

LEMMA FinishStep ==
  ASSUME LedgerInv, NEW t \in LedgerTasks, Ledger!Finish(t)
  PROVE  LedgerInv'
<1>1. /\ LedgerTyped /\ ledger_task[t].at = "asked" /\ Ledger!Remember(t) /\ UNCHANGED ledger_book
      /\ Ledger!Store(Ledger!Items(t)) /\ Ledger!End(t)
  BY DEF LedgerInv, Ledger!Finish
<1>2. PICK f \in Fetches : f = ledger_task[t] /\ SoundFetch(f) /\ f.at = "asked"
  BY <1>1 DEF LedgerInv, LedgerTyped
<1>3. PICK new \in [Ledger!DayOrders -> Ledger!Qtys] : new = Ledger!Items(t) /\ Executed(new)
      /\ (f.page = 0 /\ Len(ledger_book) <= PageSize =>
            \A i \in 1 .. Len(f.snap) : new[i] = f.snap[i])
  BY <1>1, <1>2, ItemsAre
<1>4. /\ ledger_count' \in -1 .. PageSize /\ ledger_hasNext' \in BOOLEAN /\ ledger_basis' \in Books
      /\ Earlier(ledger_basis)' /\ Remembered'
  BY <1>1, RememberKeeps
<1>5. ledger_task' \in [LedgerTasks -> Fetches]
      /\ \A u \in LedgerTasks : SoundFetch(ledger_task[u])'
  BY <1>1, EndKeeps
<1>6. /\ ledger_rows' \in [Ledger!DayOrders -> Ledger!Qtys] /\ Executed(ledger_rows)'
      /\ ledger_lost' \subseteq Ledger!DayOrders /\ ledger_faults' \in 0 .. MaxFaults
  <2>1. CASE Ledger!Sync(new)
             /\ ledger_lost' = ledger_lost \ {i \in Ledger!DayOrders : new[i] > 0}
             /\ UNCHANGED ledger_faults
    <3>1. ledger_rows' \in [Ledger!DayOrders -> Ledger!Qtys] /\ Executed(ledger_rows)'
      BY <1>1, <1>3, <2>1, SyncKeeps DEF LedgerInv
    <3>2. ledger_lost' \subseteq Ledger!DayOrders /\ ledger_faults' \in 0 .. MaxFaults
      BY <1>1, <2>1 DEF LedgerTyped
    <3> QED BY <3>1, <3>2
  <2>2. CASE /\ ledger_faults < MaxFaults /\ ledger_faults' = ledger_faults + 1
             /\ ledger_lost' = ledger_lost \cup Ledger!Differ(new) /\ UNCHANGED ledger_rows
    <3>1. ledger_rows' \in [Ledger!DayOrders -> Ledger!Qtys] /\ Executed(ledger_rows)'
      BY <1>1, <2>2 DEF LedgerInv, LedgerTyped, Executed
    <3>2. ledger_lost' \subseteq Ledger!DayOrders
      BY <1>1, <2>2 DEF LedgerTyped, Ledger!Differ
    <3>3. ledger_faults' \in 0 .. MaxFaults
      BY <1>1, <2>2, Numbers DEF LedgerTyped
    <3> QED BY <3>1, <3>2, <3>3
  <2> QED BY <1>1, <1>3, <2>1, <2>2 DEF Ledger!Store
<1>7. PageRecorded'
  <2> SUFFICES ASSUME Len(ledger_book) <= PageSize, NEW i \in 1 .. Len(ledger_basis'),
                      ledger_basis'[i] # 0,
                      i \notin ledger_lost'
               PROVE  ledger_rows'[i] = ledger_basis'[i]
    BY <1>1 DEF PageRecorded
  <2>1. f.page = 0
    <3>1. Len(ledger_book) \in Nat /\ f.page \in Nat
      BY <1>1, Numbers DEF LedgerTyped, Books, Fetches
    <3> QED BY <1>2, <3>1, Numbers DEF SoundFetch
  <2>2. ledger_basis' = f.snap
    BY <1>1, <1>2, <2>1 DEF Ledger!Remember
  <2>3. new[i] = ledger_basis'[i]
    BY <1>3, <2>1, <2>2
  <2>4. i \in Ledger!DayOrders
    BY <1>1, <1>4, Numbers DEF Earlier, LedgerTyped, Books
  <2>5. new[i] > 0
    BY <2>3, <2>4, Numbers
  <2>6. CASE Ledger!Sync(new)
    BY <2>3, <2>4, <2>5, <2>6 DEF Ledger!Sync
  <2>7. CASE ledger_lost' = ledger_lost \cup Ledger!Differ(new) /\ UNCHANGED ledger_rows
    BY <2>3, <2>4, <2>5, <2>7 DEF Ledger!Differ
  <2> QED BY <1>1, <1>3, <2>6, <2>7 DEF Ledger!Store
<1>8. LedgerTyped'
  BY <1>1, <1>4, <1>5, <1>6 DEF LedgerTyped
<1> QED BY <1>4, <1>5, <1>6, <1>7, <1>8 DEF LedgerInv

LEMMA AskFailsStep ==
  ASSUME LedgerInv, NEW t \in LedgerTasks, Ledger!AskFails(t)
  PROVE  LedgerInv'
<1>1. /\ LedgerTyped
         /\ UNCHANGED <<ledger_book, ledger_count, ledger_hasNext, ledger_basis, ledger_lost>>
         /\ ledger_faults' \in 0 .. MaxFaults
  BY Numbers DEF LedgerInv, Ledger!AskFails, LedgerTyped
<1>2. CASE ledger_task' = [ledger_task EXCEPT ![t] = Ledger!Idle] /\ UNCHANGED ledger_rows
  BY <1>1, <1>2, IdleSound, IdleTypes, OneFetchStep
<1>3. CASE Ledger!Sync(ledger_task[t].items) /\ Ledger!End(t)
  <2>1. PICK items \in [Ledger!DayOrders -> Ledger!Qtys] : items = ledger_task[t].items
             /\ Executed(items)
    BY <1>1 DEF LedgerInv, LedgerTyped, Fetches, SoundFetch
  <2>2. ledger_task' \in [LedgerTasks -> Fetches]
        /\ \A u \in LedgerTasks : SoundFetch(ledger_task[u])'
    BY <1>1, <1>3, EndKeeps
  <2>3. /\ ledger_rows' \in [Ledger!DayOrders -> Ledger!Qtys] /\ Executed(ledger_rows)'
        /\ \A i \in Ledger!DayOrders : ledger_rows'[i] = IF items[i] > 0
           THEN items[i] ELSE ledger_rows[i]
    BY <1>1, <1>3, <2>1, SyncKeeps DEF LedgerInv
  <2>4. PageRecorded'
    <3>1. CASE Len(ledger_book) <= PageSize
      <4>1. ledger_task[t].page = 0
        <5>1. Len(ledger_book) \in Nat /\ ledger_task[t].page \in Nat /\ SoundFetch(ledger_task[t])
          BY <1>1, Numbers DEF LedgerInv, LedgerTyped, Books, Fetches
        <5> QED BY <3>1, <5>1, Numbers DEF SoundFetch
      <4>2. items = Ledger!Nothing
        BY <2>1, <4>1 DEF LedgerInv, SoundFetch
      <4>3. \A i \in Ledger!DayOrders : ledger_rows'[i] = ledger_rows[i]
        BY <2>3, <4>2, IdleTypes
      <4>4. ledger_rows' = ledger_rows
        BY <1>1, <2>3, <4>3 DEF LedgerTyped
      <4> QED BY <1>1, <4>4 DEF LedgerInv, PageRecorded
    <3>2. CASE ~(Len(ledger_book) <= PageSize)
      BY <1>1, <3>2 DEF PageRecorded
    <3> QED BY <3>1, <3>2
  <2>5. LedgerTyped'
    BY <1>1, <2>2, <2>3 DEF LedgerTyped
  <2> QED BY <1>1, <2>2, <2>3, <2>4, <2>5 DEF LedgerInv, Earlier, Remembered
<1> QED BY <1>2, <1>3 DEF Ledger!AskFails

LEMMA LedgerStep == LedgerInv /\ [Ledger!Next]_ledgerVars => LedgerInv'
<1> SUFFICES ASSUME LedgerInv, [Ledger!Next]_ledgerVars PROVE LedgerInv'
  OBVIOUS
<1>1. CASE Ledger!Next
  BY <1>1, PlaceStep, ExecuteStep, LoopBeginsStep, AskStep, SkipStep, NextPageStep, FinishStep,
     AskFailsStep DEF Ledger!Next, Ledger!Progress
<1>2. CASE UNCHANGED ledgerVars
  BY <1>2
     DEF ledgerVars, LedgerInv, LedgerTyped, Executed, Earlier, Remembered, PageRecorded,
     SoundFetch, NewerFetch
<1> QED BY <1>1, <1>2

LEMMA LedgerStart == Ledger!Init => LedgerInv
<1> SUFFICES ASSUME Ledger!Init PROVE LedgerInv
  OBVIOUS
<1>1. <<>> \in Books /\ Len(<<>>) = 0 /\ 0 \in 0 .. MaxFaults /\ -1 \in -1 .. PageSize
  BY Numbers DEF Books
<1>2. LedgerTyped
  <2>1. ledger_book \in Books /\ Len(ledger_book) <= MaxOrders /\ ledger_basis \in Books
    BY <1>1, Numbers DEF Ledger!Init
  <2>2. ledger_rows \in [Ledger!DayOrders -> Ledger!Qtys]
        /\ ledger_task \in [LedgerTasks -> Fetches]
    BY IdleTypes DEF Ledger!Init
  <2>3. ledger_count \in -1 .. PageSize /\ ledger_lost \subseteq Ledger!DayOrders
        /\ ledger_faults \in 0 .. MaxFaults
    BY <1>1 DEF Ledger!Init
  <2>4. ledger_hasNext \in BOOLEAN
    BY DEF Ledger!Init
  <2> QED BY <2>1, <2>2, <2>3, <2>4 DEF LedgerTyped
<1>3. Executed(ledger_rows) /\ Earlier(ledger_basis) /\ Remembered /\ PageRecorded
  BY <1>1, IdleTypes DEF Ledger!Init, Executed, Earlier, Remembered, PageRecorded
<1>4. SoundFetch(Ledger!Idle)
  <2>1. Earlier(<<>>) /\ Executed(Ledger!Nothing)
    BY <1>1, IdleTypes DEF Ledger!Init, Earlier, Executed
  <2>2. NewerFetch(Ledger!Idle)
    BY IdleTypes DEF NewerFetch
  <2> QED BY <1>1, <2>1, <2>2, IdleTypes DEF Ledger!Init, SoundFetch
<1> QED BY <1>2, <1>3, <1>4 DEF LedgerInv, Ledger!Init

-----------------------------------------------------------------------------
LEMMA LedgerTypes == LedgerInv => Ledger!TypeOK
<1> SUFFICES ASSUME LedgerInv PROVE Ledger!TypeOK
  OBVIOUS
<1>1. LedgerTyped
  BY DEF LedgerInv
<1>2. ledger_book \in UNION {[1 .. n -> Ledger!Qtys] : n \in 0 .. MaxOrders}
  <2>1. PICK n \in 0 .. MaxOrders : n = Len(ledger_book)
    BY <1>1, Numbers DEF LedgerTyped, Books
  <2>2. ledger_book \in [1 .. n -> Ledger!Qtys]
    BY <1>1, <2>1 DEF LedgerTyped, Books
  <2> QED BY <2>2
<1> QED BY <1>1, <1>2 DEF LedgerTyped, Ledger!TypeOK, Fetches

LEMMA LedgerSkips == LedgerInv => Ledger!SkipIsSound
<1> SUFFICES ASSUME LedgerInv, Ledger!Unchanged(ledger_book), NEW i \in DOMAIN ledger_book,
                    ledger_book[i] = ledger_basis[i], i \notin ledger_lost
             PROVE  ledger_rows[i] = ledger_book[i]
  BY DEF Ledger!SkipIsSound
<1>1. LedgerTyped /\ Executed(ledger_rows) /\ Earlier(ledger_basis) /\ Remembered /\ PageRecorded
  BY DEF LedgerInv
<1>2. Len(ledger_book) \in Nat /\ Len(ledger_basis) \in Nat /\ Len(ledger_basis) <= Len(ledger_book)
      /\ i \in 1 .. Len(ledger_book) /\ ledger_book[i] \in Nat /\ i \in Ledger!DayOrders
         /\ ledger_rows[i] \in Nat
  BY <1>1, Numbers DEF LedgerTyped, Books, Earlier
<1>3. Len(ledger_book) <= PageSize /\ ledger_count = Cardinality(Ledger!Page(ledger_book, 0))
      /\ Cardinality(Ledger!Page(ledger_book, 0)) = Len(ledger_book)
  <2>1. ~Ledger!More(ledger_book, 0) /\ ledger_count = Cardinality(Ledger!Page(ledger_book, 0))
        /\ ledger_book \in Books
    BY <1>1, SameCount DEF Ledger!Unchanged, LedgerTyped
  <2>2. Len(ledger_book) <= PageSize
    BY <1>2, <2>1, FirstPage, Numbers
  <2> QED BY <2>1, <2>2, FirstPage
<1>4. ledger_count # -1
  BY <1>2, <1>3
<1>5. Cardinality(Ledger!Page(ledger_basis, 0)) = Len(ledger_basis)
  <2>1. Len(ledger_basis) <= PageSize /\ ledger_basis \in Books
    BY <1>1, <1>2, <1>3, Numbers DEF LedgerTyped
  <2> QED BY <2>1, FirstPage
<1>6. Len(ledger_basis) = Len(ledger_book)
  BY <1>1, <1>3, <1>4, <1>5 DEF Remembered
<1>7. ledger_basis[i] = 0 \/ ledger_rows[i] = ledger_basis[i]
  BY <1>1, <1>2, <1>3, <1>4, <1>6 DEF PageRecorded
<1>8. ledger_rows[i] > 0 => ledger_rows[i] <= ledger_book[i]
  BY <1>1, <1>2 DEF Executed
<1> QED BY <1>2, <1>7, <1>8

LEMMA LedgerBack ==
  LedgerInv /\ [Ledger!Next]_ledgerVars =>
    [(\E i \in Ledger!DayOrders : ledger_rows'[i] < ledger_rows[i]) =>
        \E t \in LedgerTasks : ledger_task[t].overlap /\ ledger_task'[t].at = "idle"]_ledgerVars
<1> SUFFICES ASSUME LedgerInv, Ledger!Next, NEW i \in Ledger!DayOrders,
                    ledger_rows'[i] < ledger_rows[i]
             PROVE  \E t \in LedgerTasks : ledger_task[t].overlap /\ ledger_task'[t].at = "idle"
  BY DEF ledgerVars
<1>1. LedgerTyped /\ ledger_rows[i] \in Nat /\ ledger_rows'[i] # ledger_rows[i]
  BY Numbers DEF LedgerInv, LedgerTyped
<1>2. PICK t \in LedgerTasks : Ledger!Finish(t) \/ Ledger!AskFails(t)
  BY <1>1
     DEF Ledger!Next, Ledger!Progress, Ledger!Place, Ledger!Execute, Ledger!LoopBegins, Ledger!Ask,
     Ledger!Skip, Ledger!NextPage
<1>3. PICK items \in [Ledger!DayOrders -> Ledger!Qtys] :
        /\ Ledger!Sync(items) /\ Ledger!End(t)
        /\ ~ledger_task[t].overlap => (items[i] > 0 => ledger_rows[i] <= items[i])
  <2>1. CASE Ledger!Finish(t)
    <3>1. Ledger!Items(t) \in [Ledger!DayOrders -> Ledger!Qtys]
          /\ (~ledger_task[t].overlap => \A k \in Ledger!DayOrders : Ledger!Items(t)[k] > 0 =>
                ledger_rows[k] <= Ledger!Items(t)[k])
      BY <2>1, ItemsAre DEF Ledger!Finish
    <3>2. Ledger!Sync(Ledger!Items(t)) /\ Ledger!End(t)
      BY <1>1, <2>1 DEF Ledger!Finish, Ledger!Store
    <3> QED BY <3>1, <3>2
  <2>2. CASE Ledger!AskFails(t)
    <3>1. Ledger!Sync(ledger_task[t].items) /\ Ledger!End(t)
      BY <1>1, <2>2 DEF Ledger!AskFails
    <3>2. ledger_task[t].items \in [Ledger!DayOrders -> Ledger!Qtys]
          /\ (~ledger_task[t].overlap => \A k \in Ledger!DayOrders : ledger_task[t].items[k] > 0 =>
                ledger_rows[k] <= ledger_task[t].items[k])
      BY <1>1 DEF LedgerInv, LedgerTyped, Fetches, SoundFetch, NewerFetch
    <3> QED BY <3>1, <3>2
  <2> QED BY <1>2, <2>1, <2>2
<1>4. ledger_rows'[i] = IF items[i] > 0 THEN items[i] ELSE ledger_rows[i]
  BY <1>3 DEF Ledger!Sync
<1>5. items[i] > 0 /\ items[i] < ledger_rows[i] /\ items[i] \in Nat
  BY <1>1, <1>4, Numbers
<1>6. ledger_task[t].overlap
  BY <1>1, <1>3, <1>5
<1>7. ledger_task'[t].at = "idle"
  BY <1>3, IdleTypes DEF Ledger!End
<1> QED BY <1>6, <1>7

-----------------------------------------------------------------------------
(***************************************************************************)
(* BacktestJobs.  FlagMeansJob is inductive together with the types; it is *)
(* said here without counting: two requests with a job on a page are one.  *)
(***************************************************************************)

(***************************************************************************)
(* FlagMeansJob without counting: two requests with a job on a page are    *)
(* one request.  It is inductive together with the types.                  *)
(***************************************************************************)
PageAlone(p) == \A r1, r2 \in Jobs!JobsOf(p) : r1 = r2
PageFlag(p) == jobs_running[p] <=> (Jobs!JobsOf(p) # {} \/ jobs_stuck[p] # {})
PageTold(p) ==
  \A r \in Jobs!JobsOf(p) :
    jobs_progress[p] = [status |-> Jobs!Statuses[jobs_job[r].kind], current |-> jobs_job[r].current,
                   total |-> jobs_job[r].total]
PageRested(p) == ~jobs_running[p] => jobs_progress[p].status \in {"idle", "done", "error"}

\* an exception that leaves the flag set leaves no job
PageDead(p) == jobs_stuck[p] # {} => Jobs!JobsOf(p) = {}

JobsPage(p) == PageAlone(p) /\ PageFlag(p) /\ PageTold(p) /\ PageRested(p) /\ PageDead(p)

JobsProgresses == [status : {"idle", "fetching", "running", "optimizing", "done", "error"},
               current : Jobs!Combos, total : Jobs!Combos]
JobsWorks == [page : Pages, kind : DOMAIN Jobs!Statuses, at : {"created", "working"},
          current : Jobs!Combos, total : Jobs!Combos]

JobsTyped ==
  /\ jobs_running \in [Pages -> BOOLEAN]
  /\ jobs_progress \in [Pages -> JobsProgresses]
  /\ jobs_job \in [Requests -> JobsWorks \cup {Jobs!None}]
  /\ jobs_stuck \in [Pages -> SUBSET {"date", "candles", "defaults"}]
  /\ \A r \in Requests :
       jobs_job[r] # Jobs!None =>
         jobs_job[r].kind \in Jobs!KindsOf(jobs_job[r].page)
         /\ jobs_job[r].current <= jobs_job[r].total

JobsInv == JobsTyped /\ \A p \in Pages : JobsPage(p)

-----------------------------------------------------------------------------
LEMMA JobsKinds == DOMAIN Jobs!Statuses = {"fetch", "run", "optimize"}
BY DEF Jobs!Statuses

\* a request that has a job has it on a page
LEMMA JobHasPage ==
  ASSUME "none" \notin Pages, JobsTyped, NEW r \in Requests
  PROVE  /\ jobs_job[r] = Jobs!None <=> jobs_job[r].page \notin Pages
         /\ jobs_job[r] = Jobs!None <=> jobs_job[r].at = "none"
         /\ jobs_job[r] # Jobs!None => jobs_job[r] \in JobsWorks
BY DEF JobsTyped, JobsWorks, Jobs!None

(***************************************************************************)
(* A step that leaves a page's flag, progress and jobs alone leaves the    *)
(* page as it is.                                                          *)
(***************************************************************************)
LEMMA OtherJobsPage ==
  ASSUME NEW q \in Pages, JobsPage(q), Jobs!JobsOf(q)' = Jobs!JobsOf(q),
         \A x \in Jobs!JobsOf(q) : jobs_job'[x] = jobs_job[x],
         jobs_running'[q] = jobs_running[q], jobs_progress'[q] = jobs_progress[q],
         jobs_stuck'[q] = jobs_stuck[q]
  PROVE  JobsPage(q)'
<1>1. PageAlone(q)' /\ PageDead(q)'
  BY DEF JobsPage, PageAlone, PageDead
<1>2. PageFlag(q)'
  BY DEF JobsPage, PageFlag
<1>3. PageTold(q)'
  BY DEF JobsPage, PageTold
<1>4. PageRested(q)'
  BY DEF JobsPage, PageRested
<1> QED BY <1>1, <1>2, <1>3, <1>4 DEF JobsPage

\* a step of one request changes no other page
LEMMA OtherPagesStay ==
  ASSUME "none" \notin Pages, JobsTyped, NEW r \in Requests, NEW p \in Pages,
         NEW q \in Pages, q # p, JobsPage(q),
         jobs_job[r].page \in {p, "none"}, jobs_job'[r].page \in {p, "none"},
         \E j : jobs_job' = [jobs_job EXCEPT ![r] = j],
         jobs_running' = jobs_running \/ \E b : jobs_running' = [jobs_running EXCEPT ![p] = b],
         jobs_progress' = jobs_progress \/ \E b : jobs_progress' = [jobs_progress EXCEPT ![p] = b],
         jobs_stuck' = jobs_stuck \/ \E b : jobs_stuck' = [jobs_stuck EXCEPT ![p] = b]
  PROVE  JobsPage(q)'
<1>1. \A x \in Requests \ {r} : jobs_job'[x] = jobs_job[x]
  BY DEF JobsTyped
<1>2. r \notin Jobs!JobsOf(q) /\ r \notin Jobs!JobsOf(q)'
  BY DEF Jobs!JobsOf
<1>3. Jobs!JobsOf(q)' = Jobs!JobsOf(q) /\ \A x \in Jobs!JobsOf(q) : jobs_job'[x] = jobs_job[x]
  BY <1>1, <1>2 DEF Jobs!JobsOf
<1>4. jobs_running'[q] = jobs_running[q] /\ jobs_progress'[q] = jobs_progress[q]
      /\ jobs_stuck'[q] = jobs_stuck[q]
  BY DEF JobsTyped
<1> QED BY <1>3, <1>4, OtherJobsPage

-----------------------------------------------------------------------------
(***************************************************************************)
(* The inductive step, action by action.                                   *)
(***************************************************************************)
LEMMA RequestStep ==
  ASSUME "none" \notin Pages, MaxCombos \in Nat, JobsInv,
         NEW r \in Requests, NEW p \in Pages, NEW kind \in DOMAIN Jobs!Statuses,
         NEW total \in Jobs!Combos,
         Jobs!Request(r, p, kind, total)
  PROVE  JobsInv'
<1> DEFINE new == [page |-> p, kind |-> kind, current |-> 0, total |-> total,
                   at |-> IF kind = "optimize" THEN "created" ELSE "working"]
           told == [status |-> Jobs!Statuses[kind], current |-> 0, total |-> total]
<1>1. JobsTyped /\ JobsPage(p) /\ jobs_job[r] = Jobs!None /\ kind \in Jobs!KindsOf(p)
      /\ ~jobs_running[p]
  BY DEF JobsInv, Jobs!Request, Jobs!Free
<1>2. /\ jobs_running' = [jobs_running EXCEPT ![p] = TRUE]
      /\ jobs_progress' = [jobs_progress EXCEPT ![p] = told]
  BY DEF Jobs!Request
<1>3. Jobs!JobsOf(p) = {} /\ jobs_stuck[p] = {}
  BY <1>1 DEF JobsPage, PageFlag, JobsTyped
<1>4. 0 \in Jobs!Combos /\ 0 <= total
  BY DEF Jobs!Combos
<1>5. told \in JobsProgresses /\ told.status \notin {"idle", "done", "error"}
  BY <1>4, JobsKinds DEF JobsProgresses, Jobs!Statuses
<1>6. jobs_running' \in [Pages -> BOOLEAN] /\ jobs_progress' \in [Pages -> JobsProgresses]
      /\ jobs_running'[p] /\ jobs_progress'[p] = told
  BY <1>1, <1>2, <1>5 DEF JobsTyped
<1>7. CASE jobs_job' = [jobs_job EXCEPT ![r] = new] /\ UNCHANGED jobs_stuck
  <2>1. new \in JobsWorks
    BY <1>4 DEF JobsWorks
  <2>2. jobs_job'[r] = new /\ \A x \in Requests \ {r} : jobs_job'[x] = jobs_job[x]
    BY <1>1, <1>7 DEF JobsTyped
  <2>3. JobsTyped'
    BY <1>1, <1>4, <1>6, <1>7, <2>1, <2>2 DEF JobsTyped
  <2>4. Jobs!JobsOf(p)' = {r}
    BY <1>3, <2>2 DEF Jobs!JobsOf
  <2>5. JobsPage(p)'
    <3>1. PageAlone(p)' /\ PageDead(p)'
      BY <1>3, <1>7, <2>4 DEF PageAlone, PageDead
    <3>2. PageFlag(p)' /\ PageRested(p)'
      BY <1>6, <2>4 DEF PageFlag, PageRested
    <3>3. PageTold(p)'
      BY <1>6, <2>2, <2>4 DEF PageTold
    <3> QED BY <3>1, <3>2, <3>3 DEF JobsPage
  <2>6. ASSUME NEW q \in Pages, q # p PROVE JobsPage(q)'
    <3>1. jobs_job[r].page = "none" /\ jobs_job'[r].page = p
      BY <1>1, <2>2 DEF Jobs!None
    <3> QED BY <1>1, <1>2, <1>7, <2>6, <3>1, OtherPagesStay DEF JobsInv
  <2> QED BY <2>3, <2>5, <2>6 DEF JobsInv
<1>8. ASSUME NEW why \in Jobs!Raised(p, kind),
             jobs_stuck' = [jobs_stuck EXCEPT ![p] = @ \cup {why}],
             UNCHANGED jobs_job
      PROVE  JobsInv'
  <2>1. why \in {"date", "candles", "defaults"}
    BY <1>8, JobsKinds DEF Jobs!Raised
  <2>2. JobsTyped' /\ jobs_stuck'[p] # {}
    BY <1>1, <1>6, <1>8, <2>1 DEF JobsTyped
  <2>3. Jobs!JobsOf(p)' = {}
    BY <1>3, <1>8 DEF Jobs!JobsOf
  <2>4. JobsPage(p)'
    <3>1. PageAlone(p)' /\ PageDead(p)' /\ PageTold(p)'
      BY <2>3 DEF PageAlone, PageDead, PageTold
    <3>2. PageFlag(p)' /\ PageRested(p)'
      BY <1>6, <2>2 DEF PageFlag, PageRested
    <3> QED BY <3>1, <3>2 DEF JobsPage
  <2>5. ASSUME NEW q \in Pages, q # p PROVE JobsPage(q)'
    <3>1. Jobs!JobsOf(q)' = Jobs!JobsOf(q) /\ \A x \in Jobs!JobsOf(q) : jobs_job'[x] = jobs_job[x]
      BY <1>8 DEF Jobs!JobsOf
    <3>2. jobs_running'[q] = jobs_running[q] /\ jobs_progress'[q] = jobs_progress[q]
          /\ jobs_stuck'[q] = jobs_stuck[q]
      BY <1>1, <1>2, <1>8, <2>5 DEF JobsTyped
    <3> QED BY <3>1, <3>2, OtherJobsPage DEF JobsInv
  <2> QED BY <2>2, <2>4, <2>5 DEF JobsInv
<1> QED BY <1>7, <1>8 DEF Jobs!Request

LEMMA BeginStep ==
  ASSUME "none" \notin Pages, JobsInv, NEW r \in Requests, Jobs!Begin(r)
  PROVE  JobsInv'
<1>0. PICK p \in Pages : p = jobs_job[r].page
  BY JobHasPage DEF JobsInv, Jobs!Begin, Jobs!None, JobsWorks
<1> USE <1>0
<1>1. JobsTyped /\ jobs_job[r] # Jobs!None /\ jobs_job[r] \in JobsWorks
  BY JobHasPage DEF JobsInv, Jobs!Begin, Jobs!None
<1>2. p \in Pages /\ r \in Jobs!JobsOf(p)
  BY <1>1 DEF JobsWorks, Jobs!JobsOf
<1>3. JobsPage(p) /\ UNCHANGED <<jobs_running, jobs_progress>>
  BY <1>2 DEF JobsInv, Jobs!Begin
<1>4. Jobs!JobsOf(p) = {r} /\ jobs_running[p] /\ jobs_stuck[p] = {}
  BY <1>2, <1>3 DEF JobsPage, PageAlone, PageFlag, PageDead
<1>5. CASE jobs_job' = [jobs_job EXCEPT ![r].at = "working"] /\ UNCHANGED jobs_stuck
  <2>1. jobs_job' = [jobs_job EXCEPT ![r] = [jobs_job[r] EXCEPT !.at = "working"]]
    BY <1>1, <1>5 DEF JobsTyped
  <2>2. [jobs_job[r] EXCEPT !.at = "working"] \in JobsWorks
        /\ [jobs_job[r] EXCEPT !.at = "working"].page = p
        /\ [jobs_job[r] EXCEPT !.at = "working"].kind = jobs_job[r].kind
        /\ [jobs_job[r] EXCEPT !.at = "working"].current = jobs_job[r].current
        /\ [jobs_job[r] EXCEPT !.at = "working"].total = jobs_job[r].total
    BY <1>1 DEF JobsWorks
  <2>3. jobs_job'[r].page = p /\ jobs_job'[r].kind = jobs_job[r].kind
        /\ jobs_job'[r].current = jobs_job[r].current
        /\ jobs_job'[r].total = jobs_job[r].total
           /\ \A x \in Requests \ {r} : jobs_job'[x] = jobs_job[x]
    BY <1>1, <2>1, <2>2 DEF JobsTyped
  <2>4. JobsTyped'
    <3>1. jobs_job' \in [Requests -> JobsWorks \cup {Jobs!None}]
      BY <1>1, <2>1, <2>2 DEF JobsTyped
    <3>2. ASSUME NEW x \in Requests, jobs_job'[x] # Jobs!None
          PROVE  jobs_job'[x].kind \in Jobs!KindsOf(jobs_job'[x].page)
                 /\ jobs_job'[x].current <= jobs_job'[x].total
      BY <1>1, <2>3, <3>2 DEF JobsTyped
    <3> QED BY <1>1, <1>3, <1>5, <3>1, <3>2 DEF JobsTyped
  <2>5. Jobs!JobsOf(p)' = {r}
    BY <1>4, <2>3 DEF Jobs!JobsOf
  <2>6. JobsPage(p)'
    <3>1. PageAlone(p)' /\ PageDead(p)'
      BY <1>4, <1>5, <2>5 DEF PageAlone, PageDead
    <3>2. PageFlag(p)' /\ PageRested(p)'
      BY <1>3, <1>4, <2>5 DEF PageFlag, PageRested
    <3>3. PageTold(p)'
      BY <1>2, <1>3, <2>3, <2>5 DEF JobsPage, PageTold
    <3> QED BY <3>1, <3>2, <3>3 DEF JobsPage
  <2>7. ASSUME NEW q \in Pages, q # p PROVE JobsPage(q)'
    BY <1>1, <1>2, <1>3, <1>5, <2>1, <2>3, <2>7, OtherPagesStay DEF JobsInv
  <2> QED BY <2>4, <2>6, <2>7 DEF JobsInv
<1>6. CASE jobs_job' = [jobs_job EXCEPT ![r] = Jobs!None]
           /\ jobs_stuck' = [jobs_stuck EXCEPT ![p] = @ \cup {"defaults"}]
  <2>1. jobs_job'[r] = Jobs!None /\ \A x \in Requests \ {r} : jobs_job'[x] = jobs_job[x]
    BY <1>1, <1>6 DEF JobsTyped
  <2>2. JobsTyped' /\ jobs_stuck'[p] # {}
    BY <1>1, <1>2, <1>3, <1>6, <2>1 DEF JobsTyped
  <2>3. Jobs!JobsOf(p)' = {}
    BY <1>2, <1>4, <2>1 DEF Jobs!JobsOf, Jobs!None
  <2>4. JobsPage(p)'
    <3>1. PageAlone(p)' /\ PageDead(p)' /\ PageTold(p)'
      BY <2>3 DEF PageAlone, PageDead, PageTold
    <3>2. PageFlag(p)' /\ PageRested(p)'
      BY <1>3, <1>4, <2>2 DEF PageFlag, PageRested
    <3> QED BY <3>1, <3>2 DEF JobsPage
  <2>5. ASSUME NEW q \in Pages, q # p PROVE JobsPage(q)'
    <3>1. jobs_job'[r].page = "none"
      BY <2>1 DEF Jobs!None
    <3> QED BY <1>1, <1>2, <1>3, <1>6, <2>5, <3>1, OtherPagesStay DEF JobsInv
  <2> QED BY <2>2, <2>4, <2>5 DEF JobsInv
<1> QED BY <1>5, <1>6 DEF Jobs!Begin

LEMMA ComboStep ==
  ASSUME "none" \notin Pages, MaxCombos \in Nat, JobsInv, NEW r \in Requests, Jobs!Combo(r)
  PROVE  JobsInv'
<1>0. PICK p \in Pages : p = jobs_job[r].page
  BY JobHasPage DEF JobsInv, Jobs!Combo, Jobs!None, JobsWorks
<1> USE <1>0
<1> DEFINE n == jobs_job[r].current + 1
<1>1. JobsTyped /\ jobs_job[r] # Jobs!None /\ jobs_job[r] \in JobsWorks
  BY JobHasPage DEF JobsInv, Jobs!Combo, Jobs!None
<1>2. p \in Pages /\ r \in Jobs!JobsOf(p)
  BY <1>1 DEF JobsWorks, Jobs!JobsOf
<1>3. JobsPage(p) /\ UNCHANGED <<jobs_running, jobs_stuck>>
  BY <1>2 DEF JobsInv, Jobs!Combo
<1>4. Jobs!JobsOf(p) = {r} /\ jobs_running[p] /\ jobs_stuck[p] = {}
  BY <1>2, <1>3 DEF JobsPage, PageAlone, PageFlag, PageDead
<1>5. n \in Jobs!Combos /\ n <= jobs_job[r].total
  BY <1>1 DEF Jobs!Combo, JobsWorks, Jobs!Combos
<1>6. jobs_job' = [jobs_job EXCEPT ![r] = [jobs_job[r] EXCEPT !.current = n]]
      /\ jobs_progress' = [jobs_progress EXCEPT ![p] = [jobs_progress[p] EXCEPT !.current = n]]
  BY <1>1, <1>2 DEF Jobs!Combo, JobsTyped
<1>7. [jobs_job[r] EXCEPT !.current = n] \in JobsWorks
      /\ [jobs_progress[p] EXCEPT !.current = n] \in JobsProgresses
  BY <1>1, <1>2, <1>5 DEF JobsWorks, JobsProgresses, JobsTyped
<1>8. jobs_job'[r] = [jobs_job[r] EXCEPT !.current = n]
      /\ \A x \in Requests \ {r} : jobs_job'[x] = jobs_job[x]
  BY <1>1, <1>6 DEF JobsTyped
<1>9. /\ jobs_job'[r].page = p /\ jobs_job'[r].kind = jobs_job[r].kind
      /\ jobs_job'[r].current = n /\ jobs_job'[r].total = jobs_job[r].total
  BY <1>1, <1>8 DEF JobsWorks
<1>10. JobsTyped'
  <2>1. jobs_job' \in [Requests -> JobsWorks \cup {Jobs!None}]
        /\ jobs_progress' \in [Pages -> JobsProgresses]
    BY <1>1, <1>6, <1>7 DEF JobsTyped
  <2>2. ASSUME NEW x \in Requests, jobs_job'[x] # Jobs!None
        PROVE  jobs_job'[x].kind \in Jobs!KindsOf(jobs_job'[x].page)
               /\ jobs_job'[x].current <= jobs_job'[x].total
    BY <1>1, <1>5, <1>8, <1>9, <2>2 DEF JobsTyped
  <2> QED BY <1>1, <1>3, <2>1, <2>2 DEF JobsTyped
<1>11. Jobs!JobsOf(p)' = {r}
  BY <1>4, <1>8, <1>9 DEF Jobs!JobsOf
<1>12. JobsPage(p)'
  <2>1. PageAlone(p)' /\ PageDead(p)'
    BY <1>3, <1>4, <1>11 DEF PageAlone, PageDead
  <2>2. PageFlag(p)' /\ PageRested(p)'
    BY <1>3, <1>4, <1>11 DEF PageFlag, PageRested
  <2>3. jobs_progress'[p] = [jobs_progress[p] EXCEPT !.current = n]
    BY <1>1, <1>2, <1>6 DEF JobsTyped
  <2>4. jobs_progress[p] = [status |-> Jobs!Statuses[jobs_job[r].kind],
                            current |-> jobs_job[r].current,
                       total |-> jobs_job[r].total]
    BY <1>2, <1>3 DEF JobsPage, PageTold
  <2>5. jobs_progress'[p] = [status |-> Jobs!Statuses[jobs_job[r].kind], current |-> n,
                             total |-> jobs_job[r].total]
    BY <2>3, <2>4
  <2>6. PageTold(p)'
    BY <1>9, <1>11, <2>5 DEF PageTold
  <2> QED BY <2>1, <2>2, <2>6 DEF JobsPage
<1>13. ASSUME NEW q \in Pages, q # p PROVE JobsPage(q)'
  BY <1>1, <1>2, <1>3, <1>6, <1>9, <1>13, OtherPagesStay DEF JobsInv
<1> QED BY <1>10, <1>12, <1>13 DEF JobsInv

LEMMA EndStep ==
  ASSUME "none" \notin Pages, MaxCombos \in Nat, JobsInv, NEW r \in Requests, Jobs!End(r)
  PROVE  JobsInv'
<1>0. PICK p \in Pages : p = jobs_job[r].page
  BY JobHasPage DEF JobsInv, Jobs!End, Jobs!None, JobsWorks
<1> USE <1>0
<1>1. JobsTyped /\ jobs_job[r] # Jobs!None /\ jobs_job[r] \in JobsWorks
  BY JobHasPage DEF JobsInv, Jobs!End, Jobs!None
<1>2. p \in Pages /\ r \in Jobs!JobsOf(p)
  BY <1>1 DEF JobsWorks, Jobs!JobsOf
<1>3. JobsPage(p) /\ UNCHANGED jobs_stuck /\ jobs_job' = [jobs_job EXCEPT ![r] = Jobs!None]
      /\ jobs_running' = [jobs_running EXCEPT ![p] = FALSE]
  BY <1>2 DEF JobsInv, Jobs!End
<1>4. Jobs!JobsOf(p) = {r} /\ jobs_stuck[p] = {}
  BY <1>2, <1>3 DEF JobsPage, PageAlone, PageDead
<1>5. PICK shown \in JobsProgresses : shown.status \in {"done", "error"}
                                  /\ jobs_progress' = [jobs_progress EXCEPT ![p] = shown]
  <2> DEFINE done == [Jobs!Shown("done") EXCEPT !.total = jobs_job[r].total]
  <2>1. done \in JobsProgresses /\ done.status = "done"
    BY <1>1 DEF Jobs!Shown, JobsProgresses, JobsWorks, Jobs!Combos
  <2>2. Jobs!Shown("error") \in JobsProgresses /\ Jobs!Shown("error").status = "error"
    BY DEF Jobs!Shown, JobsProgresses, Jobs!Combos
  <2>3. \/ jobs_progress' = [jobs_progress EXCEPT ![p] = done]
        \/ jobs_progress' = [jobs_progress EXCEPT ![p] = Jobs!Shown("error")]
    BY DEF Jobs!End
  <2> QED BY <2>1, <2>2, <2>3
<1>6. jobs_job'[r] = Jobs!None /\ \A x \in Requests \ {r} : jobs_job'[x] = jobs_job[x]
  BY <1>1, <1>3 DEF JobsTyped
<1>7. JobsTyped' /\ ~jobs_running'[p] /\ jobs_progress'[p] = shown
  BY <1>1, <1>2, <1>3, <1>5, <1>6 DEF JobsTyped
<1>8. Jobs!JobsOf(p)' = {}
  BY <1>2, <1>4, <1>6 DEF Jobs!JobsOf, Jobs!None
<1>9. JobsPage(p)'
  <2>1. PageAlone(p)' /\ PageDead(p)' /\ PageTold(p)'
    BY <1>8 DEF PageAlone, PageDead, PageTold
  <2>2. PageFlag(p)' /\ PageRested(p)'
    BY <1>3, <1>4, <1>5, <1>7, <1>8 DEF PageFlag, PageRested
  <2> QED BY <2>1, <2>2 DEF JobsPage
<1>10. ASSUME NEW q \in Pages, q # p PROVE JobsPage(q)'
  <2>1. jobs_job'[r].page = "none"
    BY <1>6 DEF Jobs!None
  <2> QED BY <1>1, <1>2, <1>3, <1>5, <1>10, <2>1, OtherPagesStay DEF JobsInv
<1> QED BY <1>7, <1>9, <1>10 DEF JobsInv

LEMMA JobsStutter == JobsInv /\ UNCHANGED jobsVars => JobsInv'
BY DEF jobsVars, JobsInv, JobsTyped, JobsPage, PageAlone, PageFlag, PageTold, PageRested, PageDead,
   Jobs!JobsOf

LEMMA JobsStart ==
  ASSUME "none" \notin Pages, MaxCombos \in Nat
  PROVE  Jobs!Init => JobsInv
<1> SUFFICES ASSUME Jobs!Init PROVE JobsInv
  OBVIOUS
<1>1. JobsTyped
  BY DEF Jobs!Init, JobsTyped, Jobs!Shown, JobsProgresses, Jobs!Combos
<1>2. \A p \in Pages : Jobs!JobsOf(p) = {}
  BY DEF Jobs!Init, Jobs!JobsOf, Jobs!None
<1> QED BY <1>1, <1>2
           DEF Jobs!Init, Jobs!Shown, JobsInv, JobsPage, PageAlone, PageFlag, PageTold, PageRested,
           PageDead

LEMMA JobsNext ==
  ASSUME "none" \notin Pages, MaxCombos \in Nat, JobsInv, [Jobs!Next]_jobsVars
  PROVE  JobsInv'
BY RequestStep, BeginStep, ComboStep, EndStep, JobsStutter DEF Jobs!Next

LEMMA JobsTypes == JobsInv => Jobs!TypeOK
<1> SUFFICES ASSUME JobsInv PROVE Jobs!TypeOK
  OBVIOUS
<1>1. JobsTyped
  BY DEF JobsInv
<1>2. ASSUME NEW r \in Requests, jobs_job[r] # Jobs!None
      PROVE  /\ jobs_job[r].page \in Pages /\ jobs_job[r].kind \in Jobs!KindsOf(jobs_job[r].page)
             /\ jobs_job[r].at \in {"created", "working"}
             /\ jobs_job[r].current \in 0 .. jobs_job[r].total
  <2>1. jobs_job[r] \in JobsWorks /\ jobs_job[r].current <= jobs_job[r].total
        /\ jobs_job[r].kind \in Jobs!KindsOf(jobs_job[r].page)
    BY <1>1, <1>2 DEF JobsTyped
  <2>2. jobs_job[r].current \in Nat /\ jobs_job[r].total \in Int
    BY <2>1 DEF JobsWorks, Jobs!Combos
  <2> QED BY <2>1, <2>2 DEF JobsWorks
<1>3. ASSUME NEW p \in Pages
      PROVE  /\ jobs_progress[p].status \in
                   {"idle", "fetching", "running", "optimizing", "done", "error"}
             /\ jobs_progress[p].current \in Jobs!Combos /\ jobs_progress[p].total \in Jobs!Combos
  BY <1>1 DEF JobsTyped, JobsProgresses
<1> QED BY <1>1, <1>2, <1>3 DEF JobsTyped, Jobs!TypeOK

LEMMA JobsFlag == JobsInv => Jobs!FlagMeansJob
<1> SUFFICES ASSUME JobsInv, NEW p \in Pages
             PROVE  /\ Cardinality(Jobs!JobsOf(p)) <= 1
                    /\ jobs_running[p] <=> (Jobs!JobsOf(p) # {} \/ jobs_stuck[p] # {})
                    /\ \A r \in Jobs!JobsOf(p) :
                         jobs_progress[p] = [status |-> Jobs!Statuses[jobs_job[r].kind],
                                        current |-> jobs_job[r].current,
                                        total |-> jobs_job[r].total]
                    /\ ~jobs_running[p] => jobs_progress[p].status \in {"idle", "done", "error"}
  BY SameCount DEF Jobs!FlagMeansJob
<1>1. JobsPage(p)
  BY DEF JobsInv
<1>2. Cardinality(Jobs!JobsOf(p)) <= 1
  <2>1. CASE Jobs!JobsOf(p) = {}
    BY <2>1, FS_EmptySet
  <2>2. CASE Jobs!JobsOf(p) # {}
    <3>1. PICK r \in Jobs!JobsOf(p) : Jobs!JobsOf(p) = {r}
      BY <1>1, <2>2 DEF JobsPage, PageAlone
    <3>2. Cardinality({r}) = 1
      BY FS_Singleton
    <3>3. Cardinality(Jobs!JobsOf(p)) = 1
      BY <3>1, <3>2
    <3> QED BY <3>3
  <2> QED BY <2>1, <2>2
<1> QED BY <1>1, <1>2 DEF JobsPage, PageFlag, PageTold, PageRested

-----------------------------------------------------------------------------
(***************************************************************************)
(* DashboardFeed: what the pages were sent, and have received.             *)
(***************************************************************************)

Snaps == [Feed!Sources -> Nat]
Messages == [kind : {"event", "state", "stop"}, snap : Snaps, number : Nat]

FeedTyped ==
  /\ feed_version \in Snaps /\ feed_steps \in 0 .. MaxEvents
  /\ \A src \in Feed!Sources : feed_version[src] <= feed_steps
  /\ feed_stopped \in BOOLEAN /\ feed_stale \subseteq Feed!Sources
  /\ feed_client \in [Clients -> {"none", "waiting", "sending", "over"}]
  /\ feed_queue \in [Clients -> Seq(Messages)]
  /\ feed_sent \in [Clients -> Seq(Messages)]
  /\ feed_received \in [Clients -> Seq(Messages)]
  /\ feed_shown \in [Clients -> Snaps]

\* every step puts two messages at most, and stop one
Bounded(c) == Len(feed_queue[c]) <= 2 * feed_steps + (IF feed_stopped THEN 1 ELSE 0)

\* the i-th of the messages s is the last snapshot among them
LastState(s, i) ==
  /\ i \in DOMAIN s /\ s[i].kind = "state"
  /\ \A j \in DOMAIN s : j > i => s[j].kind # "state"

Fresh(c) == feed_client[c] = "none" =>
  feed_queue[c] = <<>> /\ feed_sent[c] = <<>> /\ feed_received[c] = <<>>
Gapless(c) == Feed!Connected(c) /\ ~feed_stopped => feed_received[c] \o feed_queue[c] = feed_sent[c]
Current(c) ==
  Feed!Connected(c) /\ ~feed_stopped =>
    \A i \in DOMAIN feed_sent[c] :
      LastState(feed_sent[c], i) =>
        \A src \in Feed!Sources \ feed_stale : feed_sent[c][i].snap[src] = feed_version[src]

\* the snapshot is that of the last one among the messages s
Showing(s, snap) ==
  (\E i \in DOMAIN s : s[i].kind = "state") =>
     \E i \in DOMAIN s : LastState(s, i) /\ snap = s[i].snap

Shows(c) == Showing(feed_received[c], feed_shown[c])

Follows(c) == Bounded(c) /\ Fresh(c) /\ Gapless(c) /\ Current(c) /\ Shows(c)

FeedInv == FeedTyped /\ \A c \in Clients : Follows(c)

-----------------------------------------------------------------------------
LEMMA ConcatAssociates ==
  ASSUME NEW S, NEW a \in Seq(S), NEW b \in Seq(S), NEW d \in Seq(S)
  PROVE  (a \o b) \o d = a \o (b \o d)
OBVIOUS

LEMMA MessageTypes ==
  /\ Feed!Nothing \in Snaps
  /\ Feed!Poison \in Messages /\ Feed!Poison.kind = "stop"
  /\ \A n \in Nat : Feed!Event(n) \in Messages /\ Feed!Event(n).kind = "event"
  /\ \A v \in Snaps, unread \in Feed!Unread :
       /\ Feed!Snapshot(v, unread) \in Messages /\ Feed!Snapshot(v, unread).kind = "state"
       /\ \A src \in Feed!Sources \ unread : Feed!Snapshot(v, unread).snap[src] = v[src]
BY DEF Feed!Nothing, Snaps, Feed!Poison, Messages, Feed!Event, Feed!Snapshot

\* a snapshot put last is the last one
LEMMA PutLast ==
  ASSUME NEW s \in Seq(Messages), NEW msgs \in Seq(Messages), msgs # <<>>,
         msgs[Len(msgs)].kind = "state",
         NEW i \in DOMAIN (s \o msgs), LastState(s \o msgs, i)
  PROVE  (s \o msgs)[i] = msgs[Len(msgs)]
<1>1. Len(msgs) \in Nat \ {0} /\ Len(s) \in Nat
  OBVIOUS
<1>2. Len(s \o msgs) = Len(s) + Len(msgs) /\ DOMAIN (s \o msgs) = 1 .. Len(s) + Len(msgs)
  OBVIOUS
<1>3. (s \o msgs)[Len(s) + Len(msgs)] = msgs[Len(msgs)]
  BY <1>1
<1>4. Len(s) + Len(msgs) \in DOMAIN (s \o msgs)
  BY <1>1, <1>2
<1>5. i \in 1 .. Len(s) + Len(msgs) /\ ~(Len(s) + Len(msgs) > i)
  BY <1>2, <1>3, <1>4 DEF LastState
<1>6. i = Len(s) + Len(msgs)
  BY <1>1, <1>5
<1> QED BY <1>3, <1>6

\* messages without a snapshot leave the last one as it is
LEMMA PutNone ==
  ASSUME NEW s \in Seq(Messages), NEW msgs \in Seq(Messages),
         \A k \in DOMAIN msgs : msgs[k].kind # "state",
         NEW i \in DOMAIN (s \o msgs), LastState(s \o msgs, i)
  PROVE  i \in DOMAIN s /\ LastState(s, i) /\ (s \o msgs)[i] = s[i]
<1>1. Len(msgs) \in Nat /\ Len(s) \in Nat /\ DOMAIN msgs = 1 .. Len(msgs) /\ DOMAIN s = 1 .. Len(s)
  OBVIOUS
<1>2. DOMAIN (s \o msgs) = 1 .. Len(s) + Len(msgs)
      /\ \A k \in 1 .. Len(s) + Len(msgs) :
           (s \o msgs)[k] = IF k <= Len(s) THEN s[k] ELSE msgs[k - Len(s)]
  OBVIOUS
<1>3. i <= Len(s)
  <2> SUFFICES ASSUME ~(i <= Len(s)) PROVE FALSE
    OBVIOUS
  <2>1. i - Len(s) \in DOMAIN msgs /\ (s \o msgs)[i] = msgs[i - Len(s)]
    BY <1>1, <1>2
  <2> QED BY <2>1 DEF LastState
<1> QED BY <1>1, <1>2, <1>3 DEF LastState

\* what is taken from the head of a queue and put at the end of what was received
LEMMA Handed ==
  ASSUME NEW s \in Seq(Messages), NEW q \in Seq(Messages), q # <<>>
  PROVE  Append(s, Head(q)) \o Tail(q) = s \o q
<1>1. q = <<Head(q)>> \o Tail(q)
  OBVIOUS
<1>2. Append(s, Head(q)) = s \o <<Head(q)>>
  OBVIOUS
<1>3. <<Head(q)>> \in Seq(Messages) /\ Tail(q) \in Seq(Messages)
  OBVIOUS
<1>4. (s \o <<Head(q)>>) \o Tail(q) = s \o (<<Head(q)>> \o Tail(q))
  BY <1>3, ConcatAssociates
<1> QED BY <1>1, <1>2, <1>4

-----------------------------------------------------------------------------
\* messages put into the queues, with the versions as they are then
LEMMA PutStep ==
  ASSUME FeedInv, Feed!Step, MaxEvents \in Nat, NEW msgs \in Seq(Messages), Len(msgs) <= 2,
         Feed!Put(msgs),
         UNCHANGED <<feed_client, feed_shown, feed_received, feed_stopped>>,
         feed_version' \in Snaps, \A src \in Feed!Sources : feed_version'[src] <= feed_steps',
         feed_stale' \subseteq Feed!Sources,
         \/ /\ msgs # <<>> /\ msgs[Len(msgs)].kind = "state"
            /\ \A src \in Feed!Sources \ feed_stale' :
                 msgs[Len(msgs)].snap[src] = feed_version'[src]
         \/ /\ \A k \in DOMAIN msgs : msgs[k].kind # "state"
            /\ \A src \in Feed!Sources \ feed_stale' :
                 src \notin feed_stale /\ feed_version'[src] = feed_version[src]
  PROVE  FeedInv'
<1>1. FeedTyped /\ feed_steps' = feed_steps + 1 /\ feed_steps' \in 0 .. MaxEvents
  BY DEF FeedInv, Feed!Step, FeedTyped
<1>2. ASSUME NEW c \in Clients
      PROVE  /\ feed_queue'[c] = (IF Feed!Connected(c)
                                  THEN feed_queue[c] \o msgs ELSE feed_queue[c])
             /\ feed_sent'[c] = (IF Feed!Connected(c) THEN feed_sent[c] \o msgs ELSE feed_sent[c])
             /\ feed_queue[c] \in Seq(Messages) /\ feed_sent[c] \in Seq(Messages)
             /\ feed_received[c] \in Seq(Messages)
  BY <1>1 DEF Feed!Put, FeedTyped
<1>3. FeedTyped'
  <2>1. feed_queue' \in [Clients -> Seq(Messages)] /\ feed_sent' \in [Clients -> Seq(Messages)]
    BY <1>1 DEF Feed!Put, FeedTyped
  <2> QED BY <1>1, <2>1 DEF FeedTyped
<1>4. ASSUME NEW c \in Clients PROVE Follows(c)'
  <2>1. Follows(c) /\ Feed!Connected(c)' = Feed!Connected(c)
    BY DEF FeedInv, Feed!Connected
  <2>2. Bounded(c)'
    <3>1. Len(feed_queue[c]) \in Nat /\ Len(msgs) \in Nat
          /\ Len(feed_queue[c] \o msgs) = Len(feed_queue[c]) + Len(msgs)
      BY <1>2
    <3>2. Len(feed_queue'[c]) <= Len(feed_queue[c]) + 2 /\ Len(feed_queue'[c]) \in Nat
      <4>1. CASE Feed!Connected(c)
        <5>1. feed_queue'[c] = feed_queue[c] \o msgs
          BY <1>2, <4>1
        <5> QED BY <3>1, <5>1
      <4>2. CASE ~Feed!Connected(c)
        BY <1>2, <3>1, <4>2
      <4> QED BY <4>1, <4>2
    <3>3. Len(feed_queue[c]) <= 2 * feed_steps + (IF feed_stopped THEN 1 ELSE 0)
      BY <2>1 DEF Follows, Bounded
    <3>4. 2 * feed_steps' = 2 * feed_steps + 2
      BY <1>1 DEF FeedTyped
    <3> QED BY <1>1, <3>1, <3>2, <3>3, <3>4 DEF Bounded, FeedTyped
  <2>3. Fresh(c)' /\ Shows(c)'
    BY <1>2, <2>1 DEF Follows, Fresh, Shows, Feed!Connected
  <2>4. Gapless(c)'
    <3>1. PICK q \in Seq(Messages), r \in Seq(Messages) : q = feed_queue[c] /\ r = feed_received[c]
      BY <1>2
    <3>2. (r \o q) \o msgs = r \o (q \o msgs)
      BY ConcatAssociates
    <3> QED BY <1>2, <2>1, <3>1, <3>2 DEF Follows, Gapless
  <2>5. Current(c)'
    <3> SUFFICES ASSUME Feed!Connected(c), ~feed_stopped, NEW i \in DOMAIN feed_sent'[c],
                        LastState(feed_sent'[c], i), NEW src \in Feed!Sources \ feed_stale'
                 PROVE  feed_sent'[c][i].snap[src] = feed_version'[src]
      BY <2>1 DEF Current
    <3>1. feed_sent'[c] = feed_sent[c] \o msgs
      BY <1>2
    <3>2. CASE msgs # <<>> /\ msgs[Len(msgs)].kind = "state"
               /\ msgs[Len(msgs)].snap[src] = feed_version'[src]
      <4>1. feed_sent'[c][i] = msgs[Len(msgs)]
        BY <1>2, <3>1, <3>2, PutLast
      <4> QED BY <3>2, <4>1
    <3>3. CASE /\ \A k \in DOMAIN msgs : msgs[k].kind # "state"
               /\ src \notin feed_stale /\ feed_version'[src] = feed_version[src]
      <4>1. PICK old \in Seq(Messages) : old = feed_sent[c]
        BY <1>2
      <4>2. i \in DOMAIN (old \o msgs) /\ LastState(old \o msgs, i)
        BY <3>1, <4>1
      <4>3. i \in DOMAIN old /\ LastState(old, i) /\ (old \o msgs)[i] = old[i]
        BY <3>3, <4>2, PutNone
      <4>4. old[i].snap[src] = feed_version[src]
        BY <2>1, <3>3, <4>1, <4>3 DEF Follows, Current
      <4> QED BY <3>1, <3>3, <4>1, <4>3, <4>4
    <3> QED BY <3>2, <3>3
  <2> QED BY <2>2, <2>3, <2>4, <2>5 DEF Follows
<1> QED BY <1>3, <1>4 DEF FeedInv

\* the versions after a change
LEMMA ChangedTypes ==
  ASSUME FeedTyped, Feed!Step, MaxEvents \in Nat, NEW srcs \in SUBSET Feed!Sources,
         feed_version' = Feed!Changed(srcs)
  PROVE  /\ feed_version' \in Snaps
         /\ \A src \in Feed!Sources : feed_version'[src] <= feed_steps'
         /\ \A src \in Feed!Sources \ srcs : feed_version'[src] = feed_version[src]
<1>1. \A src \in Feed!Sources :
        /\ feed_version[src] \in Nat /\ feed_version[src] <= feed_steps
        /\ feed_version'[src] = feed_version[src] + (IF src \in srcs THEN 1 ELSE 0)
  BY DEF FeedTyped, Feed!Changed, Snaps
<1>2. feed_steps \in Nat /\ feed_steps' = feed_steps + 1
  BY DEF FeedTyped, Feed!Step
<1>3. feed_version' \in Snaps
  BY <1>1 DEF Feed!Changed, Snaps
<1> QED BY <1>1, <1>2, <1>3

LEMMA EmitStep ==
  ASSUME FeedInv, MaxEvents \in Nat, Feed!Emit
  PROVE  FeedInv'
<1>1. FeedTyped /\ Feed!Step /\ feed_version' = Feed!Changed({"memory", "state"})
      /\ UNCHANGED <<feed_client, feed_shown, feed_received, feed_stopped>>
  BY DEF FeedInv, Feed!Emit, Feed!conn
<1>2. {"memory", "state"} \subseteq Feed!Sources /\ feed_steps \in Nat
  BY <1>1 DEF Feed!Sources, FeedTyped
<1>3. /\ feed_version' \in Snaps
      /\ \A src \in Feed!Sources : feed_version'[src] <= feed_steps'
      /\ \A src \in Feed!Sources \ {"memory", "state"} : feed_version'[src] = feed_version[src]
  BY <1>1, <1>2, ChangedTypes
<1>4. PICK e \in Messages : e = Feed!Event(feed_steps) /\ e.kind = "event"
  BY <1>2, MessageTypes
<1>5. ASSUME NEW unread \in Feed!Unread, feed_stale' = unread,
             Feed!Put(<<Feed!Event(feed_steps), Feed!Snapshot(feed_version', unread)>>)
      PROVE  FeedInv'
  <2>1. PICK m \in Messages : m = Feed!Snapshot(feed_version', unread) /\ m.kind = "state"
             /\ \A src \in Feed!Sources \ unread : m.snap[src] = feed_version'[src]
    BY <1>3, MessageTypes
  <2>2. <<e, m>> \in Seq(Messages) /\ Len(<<e, m>>) = 2 /\ <<e, m>> # <<>> /\ <<e, m>>[2] = m
    OBVIOUS
  <2>3. Feed!Put(<<e, m>>)
    BY <1>4, <1>5, <2>1
  <2>4. feed_stale' \subseteq Feed!Sources
    BY <1>5 DEF Feed!Unread, Feed!Sources
  <2>5. <<e, m>>[Len(<<e, m>>)] = m /\ Len(<<e, m>>) <= 2
    BY <2>2
  <2>6. /\ <<e, m>> # <<>> /\ <<e, m>>[Len(<<e, m>>)].kind = "state"
        /\ \A src \in Feed!Sources \ feed_stale' :
             <<e, m>>[Len(<<e, m>>)].snap[src] = feed_version'[src]
    BY <1>5, <2>1, <2>2, <2>5
  <2> QED BY <1>1, <1>3, <2>2, <2>3, <2>4, <2>5, <2>6, PutStep
<1>6. CASE Feed!Put(<<Feed!Event(feed_steps)>>)
           /\ feed_stale' = feed_stale \cup {"memory", "state"}
  <2>1. <<e>> \in Seq(Messages) /\ Len(<<e>>) <= 2 /\ DOMAIN <<e>> = {1} /\ <<e>>[1] = e
    OBVIOUS
  <2>2. Feed!Put(<<e>>)
    BY <1>4, <1>6
  <2>3. \A k \in DOMAIN <<e>> : <<e>>[k].kind # "state"
    BY <1>4, <2>1
  <2>4. feed_stale' \subseteq Feed!Sources
    BY <1>1, <1>2, <1>6 DEF FeedTyped
  <2>5. \A src \in Feed!Sources \ feed_stale' :
          src \notin feed_stale /\ feed_version'[src] = feed_version[src]
    BY <1>3, <1>6
  <2> QED BY <1>1, <1>3, <2>1, <2>2, <2>3, <2>4, <2>5, PutStep
<1> QED BY <1>5, <1>6 DEF Feed!Emit

LEMMA BroadcastStep ==
  ASSUME FeedInv, MaxEvents \in Nat, Feed!Broadcast
  PROVE  FeedInv'
<1>1. FeedTyped /\ Feed!Step
      /\ UNCHANGED <<feed_client, feed_shown, feed_received, feed_stopped>>
      /\ feed_version' \in {feed_version, Feed!Changed({"state"})}
  BY DEF FeedInv, Feed!Broadcast, Feed!conn
<1>2. feed_version' \in Snaps /\ \A src \in Feed!Sources : feed_version'[src] <= feed_steps'
  <2>1. CASE feed_version' = feed_version
    BY <1>1, <2>1 DEF FeedTyped, Feed!Step, Snaps
  <2>2. CASE feed_version' = Feed!Changed({"state"})
    <3>1. {"state"} \subseteq Feed!Sources
      BY DEF Feed!Sources
    <3> QED BY <1>1, <2>2, <3>1, ChangedTypes
  <2> QED BY <1>1, <2>1, <2>2
<1>3. PICK unread \in Feed!Unread :
        Feed!Put(<<Feed!Snapshot(feed_version', unread)>>) /\ feed_stale' = unread
  BY DEF Feed!Broadcast
<1>4. PICK m \in Messages : m = Feed!Snapshot(feed_version', unread) /\ m.kind = "state"
           /\ \A src \in Feed!Sources \ unread : m.snap[src] = feed_version'[src]
  BY <1>2, MessageTypes
<1>5. <<m>> \in Seq(Messages) /\ Len(<<m>>) = 1 /\ <<m>> # <<>> /\ <<m>>[1] = m
  OBVIOUS
<1>6. Feed!Put(<<m>>) /\ feed_stale' \subseteq Feed!Sources
  BY <1>3, <1>4 DEF Feed!Unread, Feed!Sources
<1>7. Len(<<m>>) <= 2 /\ <<m>>[Len(<<m>>)] = m
  BY <1>5
<1>8. /\ <<m>> # <<>> /\ <<m>>[Len(<<m>>)].kind = "state"
      /\ \A src \in Feed!Sources \ feed_stale' :
           <<m>>[Len(<<m>>)].snap[src] = feed_version'[src]
  BY <1>3, <1>4, <1>5, <1>7
<1> QED BY <1>1, <1>2, <1>5, <1>6, <1>7, <1>8, PutStep

LEMMA ChangeStep ==
  ASSUME FeedInv, MaxEvents \in Nat, NEW changed \in Feed!Sources, Feed!ChangeSilently(changed)
  PROVE  FeedInv'
<1>1. FeedTyped /\ Feed!Step /\ feed_steps' = feed_steps + 1 /\ feed_steps' \in 0 .. MaxEvents
      /\ feed_version' = Feed!Changed({changed})
      /\ feed_stale' = feed_stale \cup {changed}
      /\ UNCHANGED <<feed_queue, feed_client, feed_shown, feed_received, feed_stopped, feed_sent>>
  BY DEF FeedInv, Feed!ChangeSilently, Feed!Step, FeedTyped, Feed!conn
<1>2. /\ feed_version' \in Snaps
      /\ \A src \in Feed!Sources : feed_version'[src] <= feed_steps'
      /\ \A src \in Feed!Sources \ {changed} : feed_version'[src] = feed_version[src]
  BY <1>1, ChangedTypes
<1>3. FeedTyped'
  BY <1>1, <1>2 DEF FeedTyped
<1>4. ASSUME NEW c \in Clients PROVE Follows(c)'
  <2>1. Follows(c) /\ Len(feed_queue[c]) \in Nat
    BY <1>1 DEF FeedInv, FeedTyped
  <2>2. Bounded(c)'
    BY <1>1, <2>1 DEF Follows, Bounded, FeedTyped
  <2>3. Current(c)'
    BY <1>1, <1>2, <2>1 DEF Follows, Current, Feed!Connected
  <2> QED BY <1>1, <2>1, <2>2, <2>3 DEF Follows, Fresh, Gapless, Shows, Feed!Connected
<1> QED BY <1>3, <1>4 DEF FeedInv

LEMMA StopStep ==
  ASSUME FeedInv, MaxEvents \in Nat, Feed!Stop
  PROVE  FeedInv'
<1>1. FeedTyped /\ ~feed_stopped /\ feed_stopped' = TRUE
      /\ UNCHANGED <<feed_version, feed_client, feed_shown, feed_received, feed_sent,
                     feed_stale, feed_steps>>
  BY DEF FeedInv, Feed!Stop, Feed!conn
<1>2. ASSUME NEW c \in Clients
      PROVE  /\ feed_queue[c] \in Seq(Messages)
             /\ feed_queue'[c] = (IF Feed!Connected(c)
                                  THEN Append(feed_queue[c], Feed!Poison) ELSE feed_queue[c])
             /\ feed_queue'[c] \in Seq(Messages)
  BY <1>1, MessageTypes DEF Feed!Stop, FeedTyped
<1>3. FeedTyped'
  <2>1. feed_queue' \in [Clients -> Seq(Messages)]
    BY <1>1, MessageTypes DEF Feed!Stop, FeedTyped
  <2> QED BY <1>1, <2>1 DEF FeedTyped
<1>4. ASSUME NEW c \in Clients PROVE Follows(c)'
  <2>1. Follows(c)
    BY DEF FeedInv
  <2>2. Bounded(c)'
    <3>1. Len(feed_queue'[c]) <= Len(feed_queue[c]) + 1 /\ Len(feed_queue[c]) \in Nat
          /\ Len(feed_queue'[c]) \in Nat
      <4>1. CASE Feed!Connected(c)
        <5>1. feed_queue'[c] = Append(feed_queue[c], Feed!Poison) /\ feed_queue[c] \in Seq(Messages)
          BY <1>2, <4>1
        <5>2. Len(Append(feed_queue[c], Feed!Poison)) = Len(feed_queue[c]) + 1
              /\ Len(feed_queue[c]) \in Nat
          BY <5>1
        <5> QED BY <5>1, <5>2
      <4>2. CASE ~Feed!Connected(c)
        BY <1>2, <4>2
      <4> QED BY <4>1, <4>2
    <3> QED BY <1>1, <2>1, <3>1 DEF Follows, Bounded, FeedTyped
  <2> QED BY <1>1, <1>2, <2>1, <2>2 DEF Follows, Fresh, Gapless, Current, Shows, Feed!Connected
<1> QED BY <1>3, <1>4 DEF FeedInv

-----------------------------------------------------------------------------
\* a client that a step leaves alone
LEMMA OtherFollows ==
  ASSUME NEW d \in Clients, Follows(d),
         UNCHANGED <<feed_version, feed_stopped, feed_sent, feed_stale, feed_steps>>,
         feed_client'[d] = feed_client[d], feed_queue'[d] = feed_queue[d],
         feed_received'[d] = feed_received[d],
         feed_shown'[d] = feed_shown[d]
  PROVE  Follows(d)'
BY DEF Follows, Bounded, Fresh, Gapless, Current, Shows, Feed!Connected

LEMMA LeaveStep ==
  ASSUME FeedInv, MaxEvents \in Nat, NEW c \in Clients, Feed!Leave(c), feed_client[c] # "none",
         UNCHANGED <<feed_version, feed_stopped, feed_shown, feed_sent, feed_received,
                     feed_stale, feed_steps>>
  PROVE  FeedInv'
<1>1. FeedTyped /\ Follows(c)
  BY DEF FeedInv
<1>2. FeedTyped'
  BY <1>1 DEF Feed!Leave, FeedTyped
<1>3. feed_client'[c] = "over" /\ feed_queue'[c] = <<>>
  BY <1>1 DEF Feed!Leave, FeedTyped
<1>4. Follows(c)'
  <2>1. Bounded(c)'
    <3>1. Len(feed_queue'[c]) = 0 /\ feed_steps' \in Nat
      BY <1>1, <1>3 DEF FeedTyped
    <3> QED BY <3>1 DEF Bounded
  <2> QED BY <1>1, <1>3, <2>1 DEF Follows, Fresh, Gapless, Current, Shows, Feed!Connected
<1>5. ASSUME NEW d \in Clients \ {c} PROVE Follows(d)'
  <2>1. feed_client'[d] = feed_client[d] /\ feed_queue'[d] = feed_queue[d]
    BY <1>1 DEF Feed!Leave, FeedTyped
  <2> QED BY <2>1, OtherFollows DEF FeedInv
<1> QED BY <1>2, <1>4, <1>5 DEF FeedInv

LEMMA ConnectStep ==
  ASSUME FeedInv, NEW c \in Clients, Feed!Connect(c)
  PROVE  FeedInv'
<1>1. /\ FeedTyped /\ Follows(c) /\ feed_client[c] = "none"
      /\ UNCHANGED <<feed_version, feed_queue, feed_stopped, feed_shown, feed_sent,
                     feed_received, feed_stale, feed_steps>>
      /\ feed_client' = [feed_client EXCEPT ![c] = IF feed_stopped THEN "over" ELSE "waiting"]
  BY DEF FeedInv, Feed!Connect
<1>2. feed_client'[c] \in {"over", "waiting"}
      /\ feed_client' \in [Clients -> {"none", "waiting", "sending", "over"}]
  BY <1>1 DEF FeedTyped
<1>3. FeedTyped'
  BY <1>1, <1>2 DEF FeedTyped
<1>4. feed_queue[c] = <<>> /\ feed_sent[c] = <<>> /\ feed_received[c] = <<>>
  BY <1>1 DEF Follows, Fresh
<1>5. Follows(c)'
  <2>1. Bounded(c)' /\ Fresh(c)' /\ Shows(c)'
    BY <1>1, <1>2 DEF Follows, Bounded, Fresh, Shows
  <2>2. Gapless(c)' /\ Current(c)'
    BY <1>1, <1>4 DEF Gapless, Current
  <2> QED BY <2>1, <2>2 DEF Follows
<1>6. ASSUME NEW d \in Clients \ {c} PROVE Follows(d)'
  <2>1. feed_client'[d] = feed_client[d]
    BY <1>1 DEF FeedTyped
  <2> QED BY <1>1, <2>1, OtherFollows DEF FeedInv
<1> QED BY <1>3, <1>5, <1>6 DEF FeedInv

\* a message more has reached the page
LEMMA ShowsMore ==
  ASSUME NEW old \in Seq(Messages), NEW msg \in Messages, NEW new, new = Append(old, msg),
         NEW before, NEW now,
         now = (IF msg.kind = "state" THEN msg.snap ELSE before),
         Showing(old, before)
  PROVE  Showing(new, now)
<1> SUFFICES ASSUME \E i \in DOMAIN new : new[i].kind = "state"
             PROVE  \E i \in DOMAIN new : LastState(new, i) /\ now = new[i].snap
  BY DEF Showing
<1> PICK n \in Nat : n = Len(old)
  OBVIOUS
<1>1. DOMAIN old = 1 .. n /\ DOMAIN new = 1 .. (n + 1) /\ new[n + 1] = msg
      /\ \A i \in 1 .. n : new[i] = old[i]
  OBVIOUS
<1>2. CASE msg.kind = "state"
  <2>1. LastState(new, n + 1) /\ now = new[n + 1].snap /\ n + 1 \in DOMAIN new
    BY <1>1, <1>2 DEF LastState
  <2> QED BY <2>1
<1>3. CASE msg.kind # "state"
  <2>1. PICK i \in DOMAIN new : new[i].kind = "state"
    OBVIOUS
  <2>2. i \in 1 .. n
    BY <1>1, <1>3, <2>1
  <2>3. \E k \in DOMAIN old : old[k].kind = "state"
    BY <1>1, <2>1, <2>2
  <2>4. PICK j \in DOMAIN old : LastState(old, j) /\ before = old[j].snap
    BY <2>3 DEF Showing
  <2>5. j \in DOMAIN new /\ new[j] = old[j]
    BY <1>1
  <2>6. LastState(new, j)
    BY <1>1, <1>3, <2>4, <2>5 DEF LastState
  <2>7. now = new[j].snap
    BY <1>3, <2>4, <2>5
  <2> QED BY <2>5, <2>6, <2>7
<1> QED BY <1>2, <1>3

LEMMA TakeStep ==
  ASSUME FeedInv, MaxEvents \in Nat, NEW c \in Clients, Feed!Take(c)
  PROVE  FeedInv'
<1>1. /\ FeedTyped /\ Follows(c) /\ feed_client[c] = "waiting" /\ feed_queue[c] # <<>>
      /\ UNCHANGED <<feed_version, feed_stopped, feed_sent, feed_stale, feed_steps>>
  BY DEF FeedInv, Feed!Take
<1>2. PICK q \in Seq(Messages) : q = feed_queue[c]
  BY <1>1 DEF FeedTyped
<1>3. PICK old \in Seq(Messages) : old = feed_received[c]
  BY <1>1 DEF FeedTyped
<1>4. Head(q) \in Messages /\ Tail(q) \in Seq(Messages) /\ q # <<>>
      /\ Len(Tail(q)) = Len(q) - 1 /\ Len(q) \in Nat
  BY <1>1, <1>2
<1>5. PICK msg \in Messages : msg = Head(q)
  BY <1>4
<1>6. CASE msg = Feed!Poison \/ feed_stopped
  <2>1. Feed!Leave(c) /\ UNCHANGED <<feed_shown, feed_received>>
    BY <1>2, <1>5, <1>6 DEF Feed!Take
  <2> QED BY <1>1, <2>1, LeaveStep
<1>7. CASE ~(msg = Feed!Poison \/ feed_stopped)
  <2>1. /\ feed_queue' = [feed_queue EXCEPT ![c] = Tail(q)]
        /\ feed_client' = [feed_client EXCEPT ![c] = "sending"]
        /\ feed_shown' = (IF msg.kind = "state"
                          THEN [feed_shown EXCEPT ![c] = msg.snap] ELSE feed_shown)
        /\ feed_received' = [feed_received EXCEPT ![c] = Append(old, msg)]
    BY <1>2, <1>3, <1>5, <1>7 DEF Feed!Take
  <2>2. Append(old, msg) \in Seq(Messages) /\ msg.snap \in Snaps
    BY DEF Messages
  <2>3. feed_queue' \in [Clients -> Seq(Messages)] /\ feed_received' \in [Clients -> Seq(Messages)]
    BY <1>1, <1>4, <2>1, <2>2 DEF FeedTyped
  <2>4. feed_shown' \in [Clients -> Snaps]
        /\ feed_shown'[c] = (IF msg.kind = "state" THEN msg.snap ELSE feed_shown[c])
    BY <1>1, <2>1, <2>2 DEF FeedTyped
  <2>5. feed_client' \in [Clients -> {"none", "waiting", "sending", "over"}]
    BY <1>1, <2>1 DEF FeedTyped
  <2>6. FeedTyped'
    BY <1>1, <2>3, <2>4, <2>5 DEF FeedTyped
  <2>7. feed_queue'[c] = Tail(q) /\ feed_client'[c] = "sending"
        /\ feed_received'[c] = Append(old, msg)
    BY <1>1, <2>1 DEF FeedTyped
  <2>8. Bounded(c)'
    <3>1. Len(feed_queue[c]) <= 2 * feed_steps + (IF feed_stopped THEN 1 ELSE 0)
          /\ feed_steps \in Nat
      BY <1>1 DEF Follows, Bounded, FeedTyped
    <3>2. Len(feed_queue'[c]) <= Len(feed_queue[c]) /\ Len(feed_queue'[c]) \in Nat
          /\ Len(feed_queue[c]) \in Nat
      BY <1>2, <1>4, <2>7
    <3> QED BY <1>1, <3>1, <3>2 DEF Bounded
  <2>9. Fresh(c)' /\ Current(c)'
    BY <1>1, <2>7 DEF Follows, Fresh, Current, Feed!Connected
  <2>10. Gapless(c)'
    <3>1. old \o q = feed_sent[c]
      BY <1>1, <1>2, <1>3, <1>7 DEF Follows, Gapless, Feed!Connected
    <3>2. Append(old, msg) \o Tail(q) = old \o q
      BY <1>4, <1>5, Handed
    <3> QED BY <1>1, <2>7, <3>1, <3>2 DEF Gapless
  <2>11. Shows(c)'
    <3>1. PICK new : new = Append(old, msg)
      OBVIOUS
    <3>2. PICK before : before = feed_shown[c]
      OBVIOUS
    <3>3. PICK now : now = feed_shown'[c]
      OBVIOUS
    <3>4. now = (IF msg.kind = "state" THEN msg.snap ELSE before)
      BY <2>4, <3>2, <3>3
    <3>5. Showing(old, before)
      BY <1>1, <1>3, <3>2 DEF Follows, Shows
    <3>6. Showing(new, now)
      BY <3>1, <3>4, <3>5, ShowsMore
    <3> QED BY <2>7, <3>1, <3>3, <3>6 DEF Shows
  <2>12. Follows(c)'
    BY <2>8, <2>9, <2>10, <2>11 DEF Follows
  <2>13. ASSUME NEW d \in Clients \ {c} PROVE Follows(d)'
    <3>1. feed_client'[d] = feed_client[d] /\ feed_queue'[d] = feed_queue[d]
          /\ feed_received'[d] = feed_received[d]
          /\ feed_shown'[d] = feed_shown[d]
      BY <1>1, <2>1 DEF FeedTyped
    <3> QED BY <1>1, <3>1, OtherFollows DEF FeedInv
  <2> QED BY <2>6, <2>12, <2>13 DEF FeedInv
<1> QED BY <1>6, <1>7

LEMMA SentStep ==
  ASSUME FeedInv, MaxEvents \in Nat, NEW c \in Clients, Feed!Sent(c)
  PROVE  FeedInv'
<1>1. /\ FeedTyped /\ Follows(c) /\ feed_client[c] = "sending"
      /\ UNCHANGED <<feed_version, feed_stopped, feed_shown, feed_sent, feed_received,
                     feed_stale, feed_steps>>
  BY DEF FeedInv, Feed!Sent
<1>2. CASE feed_stopped
  BY <1>1, <1>2, LeaveStep DEF Feed!Sent
<1>3. CASE ~feed_stopped
  <2>1. feed_client' = [feed_client EXCEPT ![c] = "waiting"] /\ UNCHANGED feed_queue
    BY <1>3 DEF Feed!Sent
  <2>2. FeedTyped' /\ feed_client'[c] = "waiting"
    BY <1>1, <2>1 DEF FeedTyped
  <2>3. Follows(c)'
    BY <1>1, <2>1, <2>2 DEF Follows, Bounded, Fresh, Gapless, Current, Shows, Feed!Connected
  <2>4. ASSUME NEW d \in Clients \ {c} PROVE Follows(d)'
    <3>1. feed_client'[d] = feed_client[d]
      BY <1>1, <2>1 DEF FeedTyped
    <3> QED BY <1>1, <2>1, <3>1, OtherFollows DEF FeedInv
  <2> QED BY <2>2, <2>3, <2>4 DEF FeedInv
<1> QED BY <1>2, <1>3

LEMMA DisconnectStep ==
  ASSUME FeedInv, MaxEvents \in Nat, NEW c \in Clients, Feed!Disconnect(c)
  PROVE  FeedInv'
BY LeaveStep DEF Feed!Disconnect, Feed!Connected

LEMMA FeedStep == MaxEvents \in Nat /\ FeedInv /\ [Feed!Next]_feedVars => FeedInv'
<1> SUFFICES ASSUME MaxEvents \in Nat, FeedInv, [Feed!Next]_feedVars PROVE FeedInv'
  OBVIOUS
<1>1. CASE Feed!Next
  <2>1. {"memory", "state", "trades"} \subseteq Feed!Sources
    BY DEF Feed!Sources
  <2> QED BY <1>1, <2>1, EmitStep, ChangeStep, BroadcastStep, StopStep, ConnectStep, TakeStep,
             SentStep, DisconnectStep
          DEF Feed!Next, Feed!Drop, Feed!Answer, Feed!StoreTrades
<1>2. CASE UNCHANGED feedVars
  <2>1. FeedTyped'
    BY <1>2 DEF FeedInv, FeedTyped, feedVars
  <2>2. ASSUME NEW c \in Clients PROVE Follows(c)'
    BY <1>2, OtherFollows DEF FeedInv, feedVars
  <2> QED BY <2>1, <2>2 DEF FeedInv
<1> QED BY <1>1, <1>2

LEMMA FeedStart == MaxEvents \in Nat /\ Feed!Init => FeedInv
<1> SUFFICES ASSUME MaxEvents \in Nat, Feed!Init PROVE FeedInv
  OBVIOUS
<1>1. FeedTyped
  <2>1. 0 \in 0 .. MaxEvents /\ <<>> \in Seq(Messages)
    OBVIOUS
  <2>2. [c \in Clients |-> <<>>] \in [Clients -> Seq(Messages)]
    BY <2>1
  <2>3. feed_version \in Snaps /\ feed_steps \in 0 .. MaxEvents
        /\ \A src \in Feed!Sources : feed_version[src] <= feed_steps
    BY <2>1 DEF Feed!Init, Feed!Nothing, Snaps
  <2>5. feed_stopped \in BOOLEAN /\ feed_stale \subseteq Feed!Sources
    BY DEF Feed!Init
  <2>4. /\ feed_client \in [Clients -> {"none", "waiting", "sending", "over"}]
        /\ feed_queue \in [Clients -> Seq(Messages)]
        /\ feed_sent \in [Clients -> Seq(Messages)]
        /\ feed_received \in [Clients -> Seq(Messages)]
        /\ feed_shown \in [Clients -> Snaps]
    BY <2>2, MessageTypes DEF Feed!Init
  <2> QED BY <2>3, <2>4, <2>5 DEF FeedTyped
<1>2. ASSUME NEW c \in Clients PROVE Follows(c)
  BY DEF Feed!Init, Follows, Bounded, Fresh, Gapless, Current, Shows, Showing, Feed!Connected
<1> QED BY <1>1, <1>2 DEF FeedInv

LEMMA FeedTypes == MaxEvents \in Nat /\ FeedInv => Feed!TypeOK
<1> SUFFICES ASSUME MaxEvents \in Nat, FeedInv PROVE Feed!TypeOK
  OBVIOUS
<1>1. FeedTyped
  BY DEF FeedInv
<1>2. ASSUME NEW c \in Clients PROVE Len(feed_queue[c]) <= 2 * MaxEvents + 1
  <2>1. Len(feed_queue[c]) <= 2 * feed_steps + (IF feed_stopped THEN 1 ELSE 0)
    BY DEF FeedInv, Follows, Bounded
  <2>2. Len(feed_queue[c]) \in Nat /\ feed_steps \in Nat /\ feed_steps <= MaxEvents
    BY <1>1 DEF FeedTyped
  <2> QED BY <2>1, <2>2
<1>3. feed_version \in [Feed!Sources -> 0 .. MaxEvents]
  BY <1>1 DEF FeedTyped, Snaps
<1> QED BY <1>1, <1>2, <1>3 DEF FeedTyped, Feed!TypeOK

LEMMA FeedCurrent == FeedInv => Feed!DrainedIsCurrent
<1> SUFFICES ASSUME FeedInv, NEW c \in Clients, Feed!Connected(c), ~feed_stopped
             PROVE  /\ feed_received[c] \o feed_queue[c] = feed_sent[c]
                    /\ (feed_queue[c] = <<>>
                          /\ \E i \in DOMAIN feed_received[c] : feed_received[c][i].kind = "state")
                         => \A src \in Feed!Sources \ feed_stale :
                              feed_shown[c][src] = feed_version[src]
  BY DEF Feed!DrainedIsCurrent
<1>1. FeedTyped /\ Follows(c)
  BY DEF FeedInv
<1>2. feed_received[c] \o feed_queue[c] = feed_sent[c]
  BY <1>1 DEF Follows, Gapless
<1>3. ASSUME feed_queue[c] = <<>>, \E i \in DOMAIN feed_received[c] :
               feed_received[c][i].kind = "state", NEW src \in Feed!Sources \ feed_stale
      PROVE  feed_shown[c][src] = feed_version[src]
  <2>1. feed_received[c] = feed_sent[c]
    <3>1. feed_received[c] \in Seq(Messages) /\ feed_received[c] \o <<>> = feed_received[c]
      BY <1>1 DEF FeedTyped
    <3> QED BY <1>2, <1>3, <3>1
  <2>2. PICK i \in DOMAIN feed_received[c] : LastState(feed_received[c], i)
             /\ feed_shown[c] = feed_received[c][i].snap
    BY <1>1, <1>3 DEF Follows, Shows, Showing
  <2>3. feed_sent[c][i].snap[src] = feed_version[src]
    BY <1>1, <1>3, <2>1, <2>2 DEF Follows, Current
  <2> QED BY <2>1, <2>2, <2>3
<1> QED BY <1>2, <1>3

-----------------------------------------------------------------------------
(***************************************************************************)
(* WatchList: what was held since a rescan read the positions.             *)
(***************************************************************************)

(***************************************************************************)
(* What was held since a rescan read the positions is among what it read,  *)
(* later among what it will subscribe to, and not among what it removes.   *)
(***************************************************************************)
WatchKeeps(t) ==
  /\ watch_task[t].at = "scan" /\ t \notin Quants => watch_kept[t] \subseteq watch_task[t].held
  /\ watch_task[t].at = "send" => watch_kept[t] \subseteq watch_task[t].target
  /\ watch_task[t].remove \cap watch_task[t].target = {}
  /\ watch_task[t].at # "send" => watch_task[t].remove = {} /\ watch_task[t].add = {}

WatchInv == Watch!TypeOK /\ \A t \in Watch!Tasks : WatchKeeps(t)

WatchTasks == [at : {"idle", "scan", "send"}, held : SUBSET Stocks, target : SUBSET Stocks,
               remove : SUBSET Stocks, add : SUBSET Stocks]

LEMMA IdleWatch == Watch!Idle \in WatchTasks
BY DEF Watch!Idle, WatchTasks

\* a scan selects what it was given as held, and symbols
LEMMA SelectionKeeps ==
  ASSUME NEW hs \in SUBSET Stocks, NEW universe \in SUBSET Stocks,
         NEW selected \in Watch!Selections(hs, universe)
  PROVE  hs \subseteq selected /\ selected \subseteq Stocks
BY DEF Watch!Selections

\* a scan ends the rescan, or goes on to send symbols that include what was held
LEMMA ScanSelects ==
  ASSUME Watch!TypeOK, NEW t \in Watch!Tasks, Watch!Scanned(t)
  PROVE  /\ UNCHANGED <<watch_positions, watch_subscribed, watch_served>>
         /\ watch_active' \subseteq Stocks /\ watch_contested' \subseteq Stocks
         /\ \/ Watch!Over(t)
            \/ \E selected \in SUBSET Stocks :
                 /\ Watch!HeldAtScan(t) \in SUBSET Stocks
                 /\ Watch!HeldAtScan(t) \subseteq selected
                 /\ watch_task' = [watch_task EXCEPT ![t] =
                      [at |-> "send", held |-> Watch!HeldAtScan(t), target |-> selected,
                       remove |-> watch_subscribed \ selected,
                       add |-> selected \ watch_subscribed]]
                 /\ watch_kept' = [watch_kept EXCEPT ![t] =
                                     IF t \in Quants THEN watch_positions ELSE @]
<1>1. Watch!HeldAtScan(t) \in SUBSET Stocks
  BY DEF Watch!HeldAtScan, Watch!TypeOK
<1>2. \A universe \in Watch!Universes(t) : universe \in SUBSET Stocks
  BY DEF Watch!Universes, Watch!TypeOK
<1>3a. PICK universe \in Watch!Universes(t) :
        \E selected \in Watch!Selections(Watch!HeldAtScan(t), universe) :
          \/ selected = {} /\ Watch!Over(t) /\ UNCHANGED <<watch_active, watch_contested>>
          \/ selected \notin {{}, watch_subscribed} /\ Watch!Send(t, selected)
          \/ selected # {} /\ selected = watch_subscribed
             /\ Watch!Over(t) /\ Watch!Activate(selected) /\ UNCHANGED watch_contested
  BY DEF Watch!Scanned
<1>3. PICK selected \in Watch!Selections(Watch!HeldAtScan(t), universe) :
        \/ selected = {} /\ Watch!Over(t) /\ UNCHANGED <<watch_active, watch_contested>>
        \/ selected \notin {{}, watch_subscribed} /\ Watch!Send(t, selected)
        \/ selected # {} /\ selected = watch_subscribed
           /\ Watch!Over(t) /\ Watch!Activate(selected) /\ UNCHANGED watch_contested
  BY <1>3a
<1>4. Watch!HeldAtScan(t) \subseteq selected /\ selected \subseteq Stocks
  BY <1>1, <1>2, <1>3, SelectionKeeps
<1>5. UNCHANGED <<watch_positions, watch_subscribed, watch_served>>
  BY DEF Watch!Scanned
<1>6. Watch!Disputed(t, selected) \subseteq Stocks
  BY DEF Watch!Disputed
<1> QED BY <1>1, <1>3, <1>4, <1>5, <1>6 DEF Watch!Send, Watch!Activate, Watch!TypeOK

(***************************************************************************)
(* Every variable keeps its type (WatchList.TypeOK).                       *)
(***************************************************************************)
LEMMA WatchTypeStep == Watch!TypeOK /\ [Watch!Next]_watchVars => Watch!TypeOK'
<1> SUFFICES ASSUME Watch!TypeOK, [Watch!Next]_watchVars PROVE Watch!TypeOK'
  OBVIOUS
<1>0. watch_task \in [Watch!Tasks -> WatchTasks] /\ watch_kept \in [Watch!Tasks -> SUBSET Stocks]
      /\ watch_positions \subseteq Stocks /\ watch_subscribed \subseteq Stocks
      /\ watch_served \subseteq Stocks /\ watch_active \subseteq Stocks
      /\ watch_contested \subseteq Stocks
  BY DEF Watch!TypeOK, WatchTasks
<1> SUFFICES watch_task' \in [Watch!Tasks -> WatchTasks]
             /\ watch_kept' \in [Watch!Tasks -> SUBSET Stocks]
             /\ watch_positions' \subseteq Stocks /\ watch_subscribed' \subseteq Stocks
             /\ watch_served' \subseteq Stocks /\ watch_active' \subseteq Stocks
             /\ watch_contested' \subseteq Stocks
  BY DEF Watch!TypeOK, WatchTasks
<1>1. ASSUME NEW s \in Stocks, Watch!Buy(s) \/ Watch!Sell(s) \/ Watch!Found(s)
      PROVE  Watch!TypeOK'
  BY <1>1 DEF Watch!Buy, Watch!Sell, Watch!Found, Watch!TypeOK
<1>2. ASSUME NEW t \in Watch!Tasks, Watch!Begin(t) PROVE Watch!TypeOK'
  <2>1. CASE t \in Scalpers
    <3>1. watch_task' = [watch_task EXCEPT ![t] =
              [at |-> "scan", held |-> watch_positions, target |-> {}, remove |-> {}, add |-> {}]]
          /\ watch_kept' = [watch_kept EXCEPT ![t] = watch_positions]
      BY <1>2, <2>1 DEF Watch!Begin, Watch!Idle
    <3> QED BY <1>2, <3>1 DEF Watch!Begin, Watch!TypeOK
  <2>2. CASE t \notin Scalpers
    <3>1. watch_task' = [watch_task EXCEPT ![t] = [watch_task[t] EXCEPT !.at = "scan"]]
      BY <1>2, <2>2 DEF Watch!Begin, Watch!TypeOK
    <3>2. [watch_task[t] EXCEPT !.at = "scan"] \in WatchTasks
      BY <1>0 DEF WatchTasks
    <3> QED BY <1>2, <2>2, <3>1, <3>2 DEF Watch!Begin, Watch!TypeOK, WatchTasks
  <2> QED BY <2>1, <2>2
<1>3. ASSUME NEW t \in Watch!Tasks, Watch!Scanned(t) PROVE Watch!TypeOK'
  <2>1. /\ UNCHANGED <<watch_positions, watch_subscribed, watch_served>>
        /\ watch_active' \subseteq Stocks /\ watch_contested' \subseteq Stocks
    BY <1>3, ScanSelects
  <2>2. CASE Watch!Over(t)
    BY <1>0, <2>1, <2>2, IdleWatch DEF Watch!Over, Watch!TypeOK, WatchTasks
  <2>3. ASSUME NEW selected \in SUBSET Stocks, Watch!HeldAtScan(t) \in SUBSET Stocks,
               watch_task' = [watch_task EXCEPT ![t] =
                      [at |-> "send", held |-> Watch!HeldAtScan(t), target |-> selected,
                       remove |-> watch_subscribed \ selected,
                       add |-> selected \ watch_subscribed]],
               watch_kept' = [watch_kept EXCEPT ![t] =
                                     IF t \in Quants THEN watch_positions ELSE @]
        PROVE  Watch!TypeOK'
    BY <1>0, <2>1, <2>3 DEF Watch!TypeOK
  <2> QED BY <1>3, <2>2, <2>3, ScanSelects
<1>4. ASSUME NEW t \in Watch!Tasks, Watch!ScanFails(t) PROVE Watch!TypeOK'
  BY <1>0, <1>4, IdleWatch DEF Watch!ScanFails, Watch!Over, Watch!TypeOK, WatchTasks
<1>5. ASSUME NEW t \in Watch!Tasks, Watch!Resubscribed(t) PROVE Watch!TypeOK'
  <2>1. watch_task[t].target \subseteq Stocks
    BY <1>0 DEF WatchTasks
  <2>2. watch_subscribed' \subseteq Stocks /\ watch_active' \subseteq Stocks
        /\ watch_contested' \subseteq Stocks
        /\ UNCHANGED <<watch_positions, watch_served>>
    BY <1>0, <1>5, <2>1 DEF Watch!Resubscribed, Watch!Activate
  <2>3. watch_task' \in [Watch!Tasks -> WatchTasks]
        /\ watch_kept' \in [Watch!Tasks -> SUBSET Stocks]
    BY <1>0, <1>5, IdleWatch DEF Watch!Resubscribed, Watch!Over
  <2> QED BY <1>0, <2>2, <2>3 DEF Watch!TypeOK, WatchTasks
<1>6. ASSUME NEW t \in Watch!Tasks, NEW s \in Stocks,
             Watch!Unsubscribe(t, s) \/ Watch!Subscribe(t, s)
      PROVE  Watch!TypeOK'
  <2>1. PICK g \in WatchTasks : g = watch_task[t]
    BY <1>0
  <2>2. [g EXCEPT !.remove = g.remove \ {s}] \in WatchTasks
        /\ [g EXCEPT !.add = g.add \ {s}] \in WatchTasks
    BY DEF WatchTasks
  <2>3. \/ watch_task' = [watch_task EXCEPT ![t] = [g EXCEPT !.remove = g.remove \ {s}]]
        \/ watch_task' = [watch_task EXCEPT ![t] = [g EXCEPT !.add = g.add \ {s}]]
    BY <1>0, <1>6, <2>1 DEF Watch!Unsubscribe, Watch!Subscribe
  <2>4. watch_task' \in [Watch!Tasks -> WatchTasks]
    BY <1>0, <2>2, <2>3
  <2>5. watch_served' \subseteq Stocks
        /\ UNCHANGED <<watch_positions, watch_subscribed, watch_active, watch_kept,
                       watch_contested>>
    BY <1>0, <1>6 DEF Watch!Unsubscribe, Watch!Subscribe
  <2> QED BY <1>0, <2>4, <2>5 DEF Watch!TypeOK, WatchTasks
<1>7. CASE UNCHANGED watchVars
  BY <1>0, <1>7 DEF watchVars
<1> QED BY <1>1, <1>2, <1>3, <1>4, <1>5, <1>6, <1>7
        DEF Watch!Next, Watch!Rescan, Watch!Update, Watch!TypeOK, WatchTasks

\* a task, its reading and its history, after a step of another task
LEMMA OtherRescansKeep ==
  ASSUME Watch!TypeOK, NEW t \in Watch!Tasks, NEW u \in Watch!Tasks, u # t, WatchKeeps(u),
         \E r : watch_task' = [watch_task EXCEPT ![t] = r],
         watch_kept' = watch_kept \/ \E k : watch_kept' = [watch_kept EXCEPT ![t] = k]
  PROVE  WatchKeeps(u)'
BY DEF Watch!TypeOK, WatchKeeps

(***************************************************************************)
(* The inductive step.                                                     *)
(***************************************************************************)
LEMMA WatchStep == WatchInv /\ [Watch!Next]_watchVars => WatchInv'
<1> SUFFICES ASSUME WatchInv, [Watch!Next]_watchVars PROVE WatchInv'
  OBVIOUS
<1>1. Watch!TypeOK /\ Watch!TypeOK' /\ \A t \in Watch!Tasks : WatchKeeps(t)
  BY WatchTypeStep DEF WatchInv
<1> SUFFICES \A u \in Watch!Tasks : WatchKeeps(u)'
  BY <1>1 DEF WatchInv
<1>2. ASSUME NEW s \in Stocks, Watch!Buy(s) \/ Watch!Sell(s)
             \/ Watch!Found(s), NEW u \in Watch!Tasks
      PROVE  WatchKeeps(u)'
  <2>1. watch_task' = watch_task /\ watch_kept'[u] \subseteq watch_kept[u]
    BY <1>1, <1>2 DEF Watch!Buy, Watch!Sell, Watch!Found, Watch!TypeOK
  <2> QED BY <1>1, <2>1 DEF WatchKeeps
<1>3. ASSUME NEW t \in Watch!Tasks, Watch!Begin(t), NEW u \in Watch!Tasks PROVE WatchKeeps(u)'
  <2>1. CASE u # t
    <3>1. \E r : watch_task' = [watch_task EXCEPT ![t] = r]
      <4>1. CASE t \in Scalpers
        BY <1>3, <4>1 DEF Watch!Begin
      <4>2. CASE t \notin Scalpers
        <5>1. watch_task' = [watch_task EXCEPT ![t] = [watch_task[t] EXCEPT !.at = "scan"]]
          BY <1>1, <1>3, <4>2 DEF Watch!Begin, Watch!TypeOK
        <5> QED BY <5>1
      <4> QED BY <4>1, <4>2
    <3> QED BY <1>1, <1>3, <2>1, <3>1, OtherRescansKeep DEF Watch!Begin
  <2>2. CASE u = t /\ t \in Scalpers
    <3>1. watch_kept'[t] = watch_positions
          /\ watch_task'[t] = [at |-> "scan", held |-> watch_positions, target |-> {},
                               remove |-> {}, add |-> {}]
      BY <1>1, <1>3, <2>2 DEF Watch!Begin, Watch!Idle, Watch!TypeOK
    <3> QED BY <2>2, <3>1 DEF WatchKeeps
  <2>3. CASE u = t /\ t \notin Scalpers
    BY <1>1, <1>3, <2>3 DEF Watch!Begin, WatchKeeps, Watch!TypeOK, Watch!Tasks
  <2> QED BY <2>1, <2>2, <2>3
<1>4. ASSUME NEW t \in Watch!Tasks, Watch!Over(t), NEW u \in Watch!Tasks PROVE WatchKeeps(u)'
  <2>1. watch_task' = [watch_task EXCEPT ![t] = Watch!Idle]
        /\ watch_kept' = [watch_kept EXCEPT ![t] = {}]
    BY <1>4 DEF Watch!Over
  <2>2. CASE u # t
    BY <1>1, <2>1, <2>2, OtherRescansKeep
  <2>3. CASE u = t
    BY <1>1, <2>1, <2>3 DEF Watch!Idle, WatchKeeps, Watch!TypeOK
  <2> QED BY <2>2, <2>3
<1>5. ASSUME NEW t \in Watch!Tasks, Watch!Scanned(t), NEW u \in Watch!Tasks PROVE WatchKeeps(u)'
  <2>1. ASSUME NEW selected \in SUBSET Stocks, Watch!HeldAtScan(t) \subseteq selected,
               watch_task' = [watch_task EXCEPT ![t] =
                      [at |-> "send", held |-> Watch!HeldAtScan(t), target |-> selected,
                       remove |-> watch_subscribed \ selected,
                       add |-> selected \ watch_subscribed]],
               watch_kept' = [watch_kept EXCEPT ![t] =
                                     IF t \in Quants THEN watch_positions ELSE @]
        PROVE  WatchKeeps(u)'
    <3>1. CASE u # t
      BY <1>1, <2>1, <3>1, OtherRescansKeep
    <3>2. CASE u = t
      <4>1. /\ watch_task'[t].at = "send" /\ watch_task'[t].target = selected
            /\ watch_task'[t].remove = watch_subscribed \ selected
        BY <1>1, <2>1 DEF Watch!TypeOK
      <4>2. watch_kept'[t] \subseteq Watch!HeldAtScan(t)
        BY <1>1, <1>5, <2>1 DEF Watch!Scanned, Watch!HeldAtScan, WatchKeeps, Watch!TypeOK
      <4> QED BY <2>1, <3>2, <4>1, <4>2 DEF WatchKeeps
    <3> QED BY <3>1, <3>2
  <2> QED BY <1>1, <1>4, <1>5, <2>1, ScanSelects
<1>6. ASSUME NEW t \in Watch!Tasks, NEW s \in Stocks,
             Watch!Unsubscribe(t, s) \/ Watch!Subscribe(t, s), NEW u \in Watch!Tasks
      PROVE  WatchKeeps(u)'
  <2>1. watch_kept' = watch_kept
        /\ \/ watch_task' = [watch_task EXCEPT ![t].remove = @ \ {s}] /\ s \in watch_task[t].remove
           \/ watch_task' = [watch_task EXCEPT ![t].add = @ \ {s}] /\ s \in watch_task[t].add
    BY <1>6 DEF Watch!Unsubscribe, Watch!Subscribe
  <2>2. CASE u # t
    BY <1>1, <2>1, <2>2 DEF Watch!TypeOK, WatchKeeps
  <2>3. CASE u = t
    <3>1. /\ watch_task'[t].at = watch_task[t].at /\ watch_task'[t].held = watch_task[t].held
          /\ watch_task'[t].target = watch_task[t].target
          /\ watch_task'[t].remove \subseteq watch_task[t].remove
          /\ watch_task'[t].add \subseteq watch_task[t].add
      BY <1>1, <2>1 DEF Watch!TypeOK
    <3>2. WatchKeeps(t)
      BY <1>1
    <3>3. watch_task'[t].remove \cap watch_task'[t].target = {}
      BY <3>1, <3>2 DEF WatchKeeps
    <3>4. watch_task'[t].at # "send" => watch_task'[t].remove = {} /\ watch_task'[t].add = {}
      BY <3>1, <3>2 DEF WatchKeeps
    <3> QED BY <2>1, <2>3, <3>1, <3>2, <3>3, <3>4 DEF WatchKeeps
  <2> QED BY <2>2, <2>3
<1>7. ASSUME UNCHANGED watchVars, NEW u \in Watch!Tasks PROVE WatchKeeps(u)'
  BY <1>1, <1>7 DEF watchVars, WatchKeeps
<1> QED BY <1>2, <1>3, <1>4, <1>5, <1>6, <1>7
        DEF Watch!Next, Watch!Rescan, Watch!Update, Watch!ScanFails, Watch!Resubscribed

LEMMA WatchStart ==
  ASSUME NEW symbols \in SUBSET Stocks, Watch!InitWith(symbols)
  PROVE  WatchInv
BY DEF Watch!InitWith, Watch!Idle, WatchInv, Watch!TypeOK, WatchKeeps

LEMMA WatchHeld ==
  WatchInv /\ [Watch!Next]_watchVars =>
        [\A t \in Watch!Tasks, s \in (watch_served \ watch_served')
                                     \cup (watch_subscribed \ watch_subscribed') :
           watch_task'[t] # watch_task[t] => s \notin watch_kept[t]]_watchVars
<1> SUFFICES ASSUME WatchInv, Watch!Next, NEW t \in Watch!Tasks,
                    NEW s \in (watch_served \ watch_served')
                              \cup (watch_subscribed \ watch_subscribed'),
                    watch_task'[t] # watch_task[t]
             PROVE  s \notin watch_kept[t]
  BY DEF watchVars
<1>1. Watch!TypeOK /\ \A u \in Watch!Tasks : WatchKeeps(u)
  BY DEF WatchInv
<1>2. PICK u \in Watch!Tasks :
        Watch!Resubscribed(u) \/ \E sym \in Stocks : Watch!Unsubscribe(u, sym)
  <2>1. ~(watch_served' = watch_served /\ watch_subscribed' = watch_subscribed)
    OBVIOUS
  <2>2. \A u \in Watch!Tasks, sym \in Stocks :
          Watch!Subscribe(u, sym) => watch_served \subseteq watch_served'
                                     /\ watch_subscribed' = watch_subscribed
    BY DEF Watch!Subscribe
  <2> QED BY <2>1, <2>2 DEF Watch!Next, Watch!Rescan, Watch!Update, Watch!Buy, Watch!Sell,
             Watch!Found, Watch!Begin, Watch!Scanned, Watch!ScanFails
<1>3. u = t
  BY <1>1, <1>2 DEF Watch!Resubscribed, Watch!Over, Watch!Unsubscribe, Watch!TypeOK
<1>4. CASE Watch!Resubscribed(t)
  <2>1. s \notin watch_task[t].target /\ watch_task[t].at = "send"
    BY <1>4 DEF Watch!Resubscribed
  <2> QED BY <1>1, <2>1 DEF WatchKeeps
<1>5. ASSUME NEW sym \in Stocks, Watch!Unsubscribe(t, sym) PROVE s \notin watch_kept[t]
  <2>1. s = sym /\ s \in watch_task[t].remove
    BY <1>5 DEF Watch!Unsubscribe
  <2> QED BY <1>1, <2>1 DEF WatchKeeps
<1> QED BY <1>2, <1>3, <1>4, <1>5

-----------------------------------------------------------------------------
(***************************************************************************)
(* The parts together: a step of one leaves the others as they are.        *)
(***************************************************************************)
ServicesInv == IInv /\ LedgerInv /\ JobsInv /\ FeedInv /\ WatchInv

LEMMA PartsStep ==
  ASSUME [ServicesNext]_ServicesVars
  PROVE  /\ [Next]_vars /\ [Ledger!Next]_ledgerVars /\ [Jobs!Next]_jobsVars
         /\ [Feed!Next]_feedVars /\ [Watch!Next]_watchVars
<1>1. CASE UNCHANGED ServicesVars
  BY <1>1 DEF ServicesVars
<1>2. CASE ServicesNext
  BY <1>2 DEF ServicesNext, Rest
<1> QED BY <1>1, <1>2

LEMMA ServicesStart == ServicesInit => ServicesInv
<1> SUFFICES ASSUME ServicesInit PROVE ServicesInv
  OBVIOUS
<1>1. WatchInv
  <2>1. CASE Watch!Init
    <3>1. PICK symbols \in SUBSET Stocks \ {{}} : Watch!InitWith(symbols)
      BY <2>1 DEF Watch!Init
    <3> QED BY <3>1, WatchStart
  <2>2. CASE Watch!InitWith(Stocks)
    BY <2>2, WatchStart
  <2> QED BY <2>1, <2>2 DEF ServicesInit
<1>2. IInv /\ LedgerInv
  BY InitIInv, LedgerStart DEF ServicesInit
<1>3. JobsInv /\ FeedInv
  BY JobsStart, FeedStart, JobsAssumption, FeedAssumption DEF ServicesInit
<1> QED BY <1>1, <1>2, <1>3 DEF ServicesInv

LEMMA ServicesStep == ServicesInv /\ [ServicesNext]_ServicesVars => ServicesInv'
<1> SUFFICES ASSUME ServicesInv, [ServicesNext]_ServicesVars PROVE ServicesInv'
  OBVIOUS
<1>1. /\ [Next]_vars /\ [Ledger!Next]_ledgerVars /\ [Jobs!Next]_jobsVars
      /\ [Feed!Next]_feedVars /\ [Watch!Next]_watchVars
  BY PartsStep
<1>2. IInv'
  BY <1>1, NextIInv DEF ServicesInv
<1>3. LedgerInv'
  BY <1>1, LedgerStep DEF ServicesInv
<1>4. JobsInv'
  BY <1>1, JobsNext, JobsAssumption DEF ServicesInv
<1>5. FeedInv'
  BY <1>1, FeedStep, FeedAssumption DEF ServicesInv
<1>6. WatchInv'
  BY <1>1, WatchStep DEF ServicesInv
<1> QED BY <1>2, <1>3, <1>4, <1>5, <1>6 DEF ServicesInv

LEMMA ServicesAlways == ServicesSpec => []ServicesInv
<1> QED BY ServicesStart, ServicesStep, PTL DEF ServicesSpec

(***************************************************************************)
(* Every part keeps its types (Services.ServicesTypeOK): the deque of      *)
(* orders, the pages and quantities of the ledger, whose cursor never      *)
(* leaves the orders of the day, the jobs' counters, the queues, which no  *)
(* event fills by more than two messages, the subscriptions.               *)
(***************************************************************************)
THEOREM ServicesAlwaysTyped == ServicesSpec => []ServicesTypeOK
<1>1. ServicesInv => ServicesTypeOK
  <2> SUFFICES ASSUME ServicesInv PROVE ServicesTypeOK
    OBVIOUS
  <2>1. TypeOK /\ Watch!TypeOK
    BY DEF ServicesInv, IInv, WatchInv
  <2>2. Ledger!TypeOK
    BY LedgerTypes DEF ServicesInv
  <2>3. Jobs!TypeOK
    BY JobsTypes DEF ServicesInv
  <2>4. Feed!TypeOK
    BY FeedTypes, FeedAssumption DEF ServicesInv
  <2> QED BY <2>1, <2>2, <2>3, <2>4 DEF ServicesTypeOK
<1> QED BY <1>1, ServicesAlways, PTL

(***************************************************************************)
(* When no fetch is under way and the next one would be skipped because    *)
(* the first page has as many orders as before, an execution that is not   *)
(* in the database came after that page was read, or the database refused  *)
(* it (Services.SkipIsSound; kis.py:445-449, routes.py:101,                *)
(* repository.py:97-110), however many fetches overlapped.                 *)
(***************************************************************************)
THEOREM SkipAlwaysSound == ServicesSpec => []SkipIsSound
<1>1. ServicesInv => SkipIsSound
  BY LedgerSkips DEF ServicesInv, SkipIsSound
<1> QED BY <1>1, ServicesAlways, PTL

(***************************************************************************)
(* A recorded quantity goes back only when a fetch ends that another one   *)
(* has overlapped (Services.BackOnlyByOverlap; repository.py:97-110).      *)
(***************************************************************************)
THEOREM BackAlwaysByOverlap == ServicesSpec => BackOnlyByOverlap
<1>1. ServicesInv /\ [ServicesNext]_ServicesVars =>
        [(\E i \in Ledger!DayOrders : ledger_rows'[i] < ledger_rows[i]) =>
            \E t \in LedgerTasks :
              ledger_task[t].overlap /\ ledger_task'[t].at = "idle"]_Ledger!vars
  BY PartsStep, LedgerBack DEF ServicesInv, Ledger!vars, ledgerVars
<1> QED BY <1>1, ServicesAlways, PTL DEF ServicesSpec, BackOnlyByOverlap, Ledger!BackOnlyByOverlap

(***************************************************************************)
(* A page's flag is set exactly while its one job lives, or after an       *)
(* exception that no try statement catches, and the progress shown is that *)
(* job's (Services.FlagMeansJob; backtest/routes.py:127, 233, 305,         *)
(* quant_routes.py:154, 166, 237).                                         *)
(***************************************************************************)
THEOREM FlagAlwaysMeansJob == ServicesSpec => []FlagMeansJob
<1>1. ServicesInv => FlagMeansJob
  BY JobsFlag DEF ServicesInv, FlagMeansJob
<1> QED BY <1>1, ServicesAlways, PTL

(***************************************************************************)
(* A page that has taken everything from its queue has received all that   *)
(* it was sent, in order, and shows every source of the snapshot as it is  *)
(* now, but for those that changed since the last snapshot or were not     *)
(* read for it (Services.DrainedIsCurrent; sse.py:40-68, routes.py:86-89), *)
(* for any number of dashboards that come and go.                          *)
(***************************************************************************)
THEOREM DrainedAlwaysCurrent == ServicesSpec => []DrainedIsCurrent
<1>1. ServicesInv => DrainedIsCurrent
  BY FeedCurrent DEF ServicesInv, DrainedIsCurrent
<1> QED BY <1>1, ServicesAlways, PTL

(***************************************************************************)
(* No step of a rescan takes a symbol that was held all the time since it  *)
(* read the positions from the peer's ticks, or from what the stream       *)
(* believes to be subscribed to (Services.HeldSinceStays; main.py:126-130, *)
(* 354-358, routes.py:537-549, 655-661, stream.py:327-356), however many   *)
(* rescans and their updates overlap.                                      *)
(***************************************************************************)
THEOREM HeldAlwaysStays == ServicesSpec => HeldSinceStays
<1>1. ServicesInv /\ [ServicesNext]_ServicesVars =>
        [\A t \in Watch!Tasks, s \in (watch_served \ watch_served')
                                     \cup (watch_subscribed \ watch_subscribed') :
           watch_task'[t] # watch_task[t] => s \notin watch_kept[t]]_Watch!vars
  BY PartsStep, WatchHeld DEF ServicesInv, Watch!vars, watchVars
<1> QED BY <1>1, ServicesAlways, PTL DEF ServicesSpec, HeldSinceStays, Watch!HeldSinceStays
=============================================================================
