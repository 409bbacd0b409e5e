-------------------------- MODULE OrderManagerProofs --------------------------
(***************************************************************************)
(* Proofs about OrderManager.tla, for every set of orders, of symbols and  *)
(* of faults.                                                              *)
(***************************************************************************)
EXTENDS OrderManager, SequenceLemmas, FiniteSetTheorems, TLAPS

-----------------------------------------------------------------------------
(***************************************************************************)
(* f embeds the sequence q in the sequence p.                              *)
(***************************************************************************)
Embeds(f, q, p) ==
  /\ f \in [1..Len(q) -> 1..Len(p)]
  /\ \A i, j \in 1..Len(q) : i < j => f[i] < f[j]
  /\ \A i \in 1..Len(q) : p[f[i]] = q[i]

(***************************************************************************)
(* submit(): the order joins both ends.                                    *)
(***************************************************************************)
LEMMA EmbedAppend ==
  ASSUME NEW S, NEW q \in Seq(S), NEW p \in Seq(S), NEW e \in S,
         NEW f, Embeds(f, q, p)
  PROVE  \E g : Embeds(g, Append(q, e), Append(p, e))
<1> DEFINE q1 == Append(q, e)
           p1 == Append(p, e)
           g == [k \in 1..(Len(q) + 1) |-> IF k <= Len(q) THEN f[k] ELSE Len(p) + 1]
<1>1. /\ Len(q1) = Len(q) + 1
      /\ \A k \in 1..(Len(q) + 1) : q1[k] = IF k <= Len(q) THEN q[k] ELSE e
  BY AppendProperties
<1>2. /\ Len(p1) = Len(p) + 1
      /\ \A k \in 1..(Len(p) + 1) : p1[k] = IF k <= Len(p) THEN p[k] ELSE e
  BY AppendProperties
<1>3. Len(q) \in Nat /\ Len(p) \in Nat
  OBVIOUS
<1> HIDE DEF q1, p1
<1>a. ASSUME NEW k \in 1..(Len(q) + 1)
      PROVE  (IF k <= Len(q) THEN f[k] ELSE Len(p) + 1) \in 1..(Len(p) + 1)
  <2>1. CASE k \in 1..Len(q)
    <3>1. f[k] \in 1..Len(p)
      BY <2>1 DEF Embeds
    <3>2. QED
      BY <2>1, <3>1, <1>3
  <2>2. CASE k = Len(q) + 1
    BY <2>2, <1>3
  <2>3. QED
    BY <2>1, <2>2, <1>3
<1>b. g \in [1..(Len(q) + 1) -> 1..(Len(p) + 1)]
  BY <1>a
<1>4. \A k \in 1..Len(q) : g[k] = f[k] /\ f[k] \in 1..Len(p)
  BY <1>3 DEF Embeds
<1>5. g[Len(q) + 1] = Len(p) + 1
  BY <1>3
<1> HIDE DEF g
<1>6. g \in [1..Len(q1) -> 1..Len(p1)]
  BY <1>1, <1>2, <1>b
<1>7. \A i, j \in 1..Len(q1) : i < j => g[i] < g[j]
  <2> SUFFICES ASSUME NEW i \in 1..Len(q1), NEW j \in 1..Len(q1), i < j
               PROVE  g[i] < g[j]
    OBVIOUS
  <2>1. i \in 1..Len(q)
    BY <1>1, <1>3
  <2>2. CASE j \in 1..Len(q)
    BY <2>1, <2>2, <1>4 DEF Embeds
  <2>3. CASE j = Len(q) + 1
    BY <2>1, <2>3, <1>3, <1>4, <1>5
  <2>4. QED
    BY <2>2, <2>3, <1>1, <1>3
<1>8. \A i \in 1..Len(q1) : p1[g[i]] = q1[i]
  <2> SUFFICES ASSUME NEW i \in 1..Len(q1) PROVE p1[g[i]] = q1[i]
    OBVIOUS
  <2>1. CASE i \in 1..Len(q)
    <3>1. p1[f[i]] = p[f[i]]
      BY <2>1, <1>2, <1>3, <1>4
    <3>2. p[f[i]] = q[i] /\ q1[i] = q[i]
      BY <2>1, <1>1, <1>3 DEF Embeds
    <3>3. QED
      BY <3>1, <3>2, <2>1, <1>4
  <2>2. CASE i = Len(q) + 1
    BY <2>2, <1>1, <1>2, <1>3, <1>5
  <2>3. QED
    BY <2>1, <2>2, <1>1, <1>3
<1>9. Embeds(g, q1, p1)
  BY <1>6, <1>7, <1>8 DEF Embeds
<1>10. QED
  BY <1>9 DEF q1, p1

(***************************************************************************)
(* A broker's answer: the oldest order leaves the lock and the oldest      *)
(* entry leaves the deque.  The entry may be that of an order older still: *)
(* the images of the orders that remain lie to the right of it.            *)
(***************************************************************************)
LEMMA EmbedTail ==
  ASSUME NEW S, NEW q \in Seq(S), NEW p \in Seq(S), q # <<>>,
         NEW f, Embeds(f, q, p)
  PROVE  p # <<>> /\ \E g : Embeds(g, Tail(q), Tail(p))
<1>1. /\ Len(Tail(q)) = Len(q) - 1
      /\ Len(q) \in Nat \ {0}
      /\ \A k \in 1..(Len(q) - 1) : Tail(q)[k] = q[k + 1]
  BY TailProperties
<1>2. 1 \in 1..Len(q) /\ f[1] \in 1..Len(p)
  BY <1>1 DEF Embeds
<1>3. p # <<>>
  BY <1>2
<1>4. /\ Len(Tail(p)) = Len(p) - 1
      /\ Len(p) \in Nat \ {0}
      /\ \A k \in 1..(Len(p) - 1) : Tail(p)[k] = p[k + 1]
  BY <1>3, TailProperties
<1> DEFINE g == [k \in 1..(Len(q) - 1) |-> f[k + 1] - 1]
<1>5. \A k \in 1..(Len(q) - 1) :
         /\ k + 1 \in 1..Len(q)
         /\ f[k + 1] \in 1..Len(p)
         /\ f[1] < f[k + 1]
         /\ g[k] = f[k + 1] - 1
  BY <1>1, <1>2 DEF Embeds
<1>6. g \in [1..Len(Tail(q)) -> 1..Len(Tail(p))]
  BY <1>1, <1>2, <1>4, <1>5
<1>7. \A i, j \in 1..Len(Tail(q)) : i < j => g[i] < g[j]
  BY <1>1, <1>4, <1>5 DEF Embeds
<1>8. \A i \in 1..Len(Tail(q)) : Tail(p)[g[i]] = Tail(q)[i]
  <2> SUFFICES ASSUME NEW i \in 1..(Len(q) - 1)
               PROVE  Tail(p)[g[i]] = Tail(q)[i]
    BY <1>1
  <2>1. g[i] \in 1..(Len(p) - 1) /\ g[i] + 1 = f[i + 1]
    BY <1>1, <1>2, <1>4, <1>5
  <2>2. Tail(p)[g[i]] = p[f[i + 1]]
    BY <2>1, <1>4
  <2>3. p[f[i + 1]] = q[i + 1]
    BY <1>5 DEF Embeds
  <2>4. QED
    BY <2>2, <2>3, <1>1
<1>9. Embeds(g, Tail(q), Tail(p))
  BY <1>6, <1>7, <1>8 DEF Embeds
<1>10. QED
  BY <1>3, <1>9

(***************************************************************************)
(* A cancelled wait: one order leaves the lock, the deque stays.           *)
(***************************************************************************)
LEMMA EmbedRemoveAt ==
  ASSUME NEW S, NEW q \in Seq(S), NEW p \in Seq(S), NEW n \in 1..Len(q),
         NEW f, Embeds(f, q, p)
  PROVE  \E g : Embeds(g, RemoveAt(q, n), p)
<1> DEFINE r == RemoveAt(q, n)
           g == [k \in 1..(Len(q) - 1) |-> IF k < n THEN f[k] ELSE f[k + 1]]
<1>1. /\ Len(r) = Len(q) - 1
      /\ \A k \in 1..(Len(q) - 1) : r[k] = IF k < n THEN q[k] ELSE q[k + 1]
  BY RemoveAtProperties
<1>2. Len(q) \in Nat /\ Len(p) \in Nat
  OBVIOUS
<1> HIDE DEF r
<1>a. \A k \in 1..(Len(q) - 1) : k \in 1..Len(q) /\ k + 1 \in 1..Len(q)
  BY <1>2
<1>3. \A k \in 1..(Len(q) - 1) :
         /\ k \in 1..Len(q) /\ k + 1 \in 1..Len(q)
         /\ f[k] \in 1..Len(p) /\ f[k + 1] \in 1..Len(p)
         /\ g[k] = IF k < n THEN f[k] ELSE f[k + 1]
  BY <1>a DEF Embeds
<1>4. g \in [1..Len(r) -> 1..Len(p)]
  BY <1>1, <1>3
<1>5. \A i, j \in 1..Len(r) : i < j => g[i] < g[j]
  <2> SUFFICES ASSUME NEW i \in 1..(Len(q) - 1), NEW j \in 1..(Len(q) - 1), i < j
               PROVE  g[i] < g[j]
    BY <1>1
  <2>1. CASE i < n /\ j < n
    BY <2>1, <1>3 DEF Embeds
  <2>2. CASE i < n /\ ~(j < n)
    BY <2>2, <1>2, <1>3 DEF Embeds
  <2>3. CASE ~(i < n) /\ ~(j < n)
    BY <2>3, <1>2, <1>3 DEF Embeds
  <2>4. QED
    BY <2>1, <2>2, <2>3
<1>6. \A i \in 1..Len(r) : p[g[i]] = r[i]
  BY <1>1, <1>3 DEF Embeds
<1>7. Embeds(g, r, p)
  BY <1>4, <1>5, <1>6 DEF Embeds
<1>8. QED
  BY <1>7 DEF r

-----------------------------------------------------------------------------
(***************************************************************************)
(* The inductive invariant.                                                *)
(*                                                                         *)
(* The lock holds exactly the orders in flight, each once.                 *)
(***************************************************************************)
LockHoldsInFlight ==
  /\ \A i \in 1..Len(apiLock) : status[apiLock[i]] = "submitted"
  /\ \A o \in Orders : status[o] = "submitted" =>
        \E i \in 1..Len(apiLock) : apiLock[i] = o
  /\ \A i, j \in 1..Len(apiLock) : apiLock[i] = apiLock[j] => i = j

(***************************************************************************)
(* The deque is at least as long as the lock's queue, by one entry for     *)
(* each cancelled order.                                                   *)
(***************************************************************************)
Accounted == IsFiniteSet(Cancelled) /\ PendingAccounting

(***************************************************************************)
(* The orders waiting on the lock are a subsequence of the deque.          *)
(***************************************************************************)
LockEmbedded == ~overtaken => \E f : Embeds(f, apiLock, pending)

IInv == TypeOK /\ LockHoldsInFlight /\ Accounted /\ LockEmbedded

LEMMA InitIInv == Init => IInv
<1> SUFFICES ASSUME Init PROVE IInv
  OBVIOUS
<1>1. TypeOK
  <2>1. <<>> \in Seq(Orders)
    OBVIOUS
  <2>2. [o \in Orders |-> "new"] \in [Orders -> Statuses]
    BY DEF Statuses
  <2>3. QED
    BY <2>1, <2>2 DEF Init, TypeOK
<1>2. LockHoldsInFlight
  BY DEF Init, LockHoldsInFlight
<1>3. Accounted
  <2>1. Cancelled = {}
    BY DEF Init, Cancelled
  <2>2. QED
    BY <2>1, FS_EmptySet DEF Init, Accounted, PendingAccounting
<1>4. LockEmbedded
  <2>1. Embeds([k \in 1..0 |-> 1], <<>>, <<>>)
    BY DEF Embeds
  <2>2. QED
    BY <2>1 DEF Init, LockEmbedded
<1>5. QED
  BY <1>1, <1>2, <1>3, <1>4 DEF IInv

(***************************************************************************)
(* Neither queue is popped when it is empty: a waiting order has an entry. *)
(***************************************************************************)
LEMMA NoUnderflow ==
  ASSUME IInv, apiLock # <<>>
  PROVE  /\ Len(apiLock) \in Nat \ {0}
         /\ Len(pending) \in Nat \ {0}
         /\ pending # <<>>
<1>1. apiLock \in Seq(Orders) /\ pending \in Seq(Orders)
  BY DEF IInv, TypeOK
<1>2. Len(apiLock) \in Nat \ {0}
  BY <1>1
<1>3. Cardinality(Cancelled) \in Nat
  BY FS_CardinalityType DEF IInv, Accounted
<1>4. QED
  BY <1>1, <1>2, <1>3 DEF IInv, Accounted, PendingAccounting

LEMMA SubmitStep ==
  ASSUME IInv, NEW o \in Orders, Submit(o)
  PROVE  IInv'
<1>1. apiLock \in Seq(Orders) /\ pending \in Seq(Orders)
      /\ status \in [Orders -> Statuses]
  BY DEF IInv, TypeOK
<1>2. /\ apiLock' \in Seq(Orders)
      /\ Len(apiLock) \in Nat
      /\ Len(apiLock') = Len(apiLock) + 1
      /\ \A k \in 1..(Len(apiLock) + 1) :
            apiLock'[k] = IF k <= Len(apiLock) THEN apiLock[k] ELSE o
  BY <1>1, AppendProperties DEF Submit
<1>3. /\ pending' \in Seq(Orders)
      /\ Len(pending) \in Nat
      /\ Len(pending') = Len(pending) + 1
  BY <1>1, AppendProperties DEF Submit
<1>4. status' = [status EXCEPT ![o] = "submitted"] /\ status[o] = "new"
  BY DEF Submit
<1>5. TypeOK'
  BY <1>1, <1>2, <1>3, <1>4 DEF IInv, TypeOK, Submit, Statuses
<1>6. LockHoldsInFlight'
  <2>1. \A i \in 1..Len(apiLock) : apiLock[i] \in Orders /\ apiLock[i] # o
    BY <1>1, <1>4 DEF IInv, LockHoldsInFlight
  <2>2. \A i \in 1..Len(apiLock') : status'[apiLock'[i]] = "submitted"
    BY <2>1, <1>1, <1>2, <1>4 DEF IInv, LockHoldsInFlight
  <2>3. ASSUME NEW x \in Orders, status'[x] = "submitted"
        PROVE  \E i \in 1..Len(apiLock') : apiLock'[i] = x
    <3>1. CASE x = o
      <4>1. Len(apiLock) + 1 \in 1..Len(apiLock') /\ apiLock'[Len(apiLock) + 1] = o
        BY <1>2
      <4>2. QED
        BY <3>1, <4>1
    <3>2. CASE x # o
      <4>1. status[x] = "submitted"
        BY <3>2, <2>3, <1>1, <1>4
      <4>2. PICK i \in 1..Len(apiLock) : apiLock[i] = x
        BY <4>1 DEF IInv, LockHoldsInFlight
      <4>3. i \in 1..Len(apiLock') /\ apiLock'[i] = x
        BY <4>2, <1>2
      <4>4. QED
        BY <4>3
    <3>3. QED
      BY <3>1, <3>2
  <2>4. ASSUME NEW i \in 1..Len(apiLock'), NEW j \in 1..Len(apiLock'),
               apiLock'[i] = apiLock'[j]
        PROVE  i = j
    BY <2>1, <2>4, <1>2 DEF IInv, LockHoldsInFlight
  <2>5. QED
    BY <2>2, <2>3, <2>4 DEF LockHoldsInFlight
<1>7. Accounted'
  <2>1. Cancelled' = Cancelled
    BY <1>1, <1>4 DEF Cancelled
  <2>2. Cardinality(Cancelled) \in Nat
    BY FS_CardinalityType DEF IInv, Accounted
  <2>3. QED
    BY <2>1, <2>2, <1>2, <1>3 DEF IInv, Accounted, PendingAccounting
<1>8. LockEmbedded'
  <2>1. SUFFICES ASSUME ~overtaken PROVE \E g : Embeds(g, apiLock', pending')
    BY DEF LockEmbedded, Submit
  <2>2. PICK f : Embeds(f, apiLock, pending)
    BY <2>1 DEF IInv, LockEmbedded
  <2>3. QED
    BY <2>2, <1>1, EmbedAppend DEF Submit
<1>9. QED
  BY <1>5, <1>6, <1>7, <1>8 DEF IInv

LEMMA SubmitOfflineStep ==
  ASSUME IInv, NEW o \in Orders, SubmitOffline(o)
  PROVE  IInv'
<1>1. apiLock \in Seq(Orders) /\ pending \in Seq(Orders)
      /\ status \in [Orders -> Statuses] /\ apiLock' = apiLock
  BY DEF IInv, TypeOK, SubmitOffline
<1>2. /\ pending' \in Seq(Orders)
      /\ Len(pending') = Len(pending)
      /\ Len(pending) \in Nat
  <2>1. /\ Append(pending, o) \in Seq(Orders)
        /\ Len(Append(pending, o)) = Len(pending) + 1
        /\ Len(pending) \in Nat
    BY <1>1, AppendProperties
  <2>2. Append(pending, o) # <<>>
    BY <2>1
  <2>3. QED
    BY <2>1, <2>2, TailProperties DEF SubmitOffline, PopLeft
<1>3. status' = [status EXCEPT ![o] = "rejected"] /\ status[o] = "new"
  BY DEF SubmitOffline
<1>4. TypeOK'
  BY <1>1, <1>2, <1>3 DEF IInv, TypeOK, SubmitOffline, Statuses, Answers
<1>5. LockHoldsInFlight'
  <2>1. \A i \in 1..Len(apiLock) : apiLock[i] \in Orders /\ apiLock[i] # o
    BY <1>1, <1>3 DEF IInv, LockHoldsInFlight
  <2>2. QED
    BY <2>1, <1>1, <1>3 DEF IInv, LockHoldsInFlight
<1>6. Accounted'
  <2>1. Cancelled' = Cancelled
    BY <1>1, <1>3 DEF Cancelled
  <2>2. QED
    BY <2>1, <1>1, <1>2 DEF IInv, Accounted, PendingAccounting
<1>7. LockEmbedded'
  <2>1. SUFFICES ASSUME ~overtaken' PROVE \E g : Embeds(g, apiLock', pending')
    BY DEF LockEmbedded
  <2>2. apiLock' = <<>>
    BY <2>1, <1>1 DEF SubmitOffline
  <2>3. Embeds([k \in 1..0 |-> 1], <<>>, pending')
    BY DEF Embeds
  <2>4. QED
    BY <2>2, <2>3
<1>8. QED
  BY <1>4, <1>5, <1>6, <1>7 DEF IInv

LEMMA AnswerStep ==
  ASSUME IInv, NEW o \in Orders, Answer(o)
  PROVE  IInv'
<1>1. apiLock \in Seq(Orders) /\ pending \in Seq(Orders)
      /\ status \in [Orders -> Statuses]
  BY DEF IInv, TypeOK
<1>2. /\ apiLock' \in Seq(Orders)
      /\ Len(apiLock) \in Nat \ {0}
      /\ Len(apiLock') = Len(apiLock) - 1
      /\ \A k \in 1..(Len(apiLock) - 1) : apiLock'[k] = apiLock[k + 1]
      /\ o = apiLock[1]
  BY <1>1, TailProperties DEF Answer
<1>3. /\ pending' \in Seq(Orders)
      /\ Len(pending) \in Nat \ {0}
      /\ Len(pending') = Len(pending) - 1
  BY <1>1, NoUnderflow, TailProperties DEF Answer, PopLeft
<1>4. PICK a \in Answers : status' = [status EXCEPT ![o] = a]
  BY DEF Answer, Answers
<1>5. status[o] = "submitted" /\ a # "submitted" /\ a # "cancelled"
  BY <1>2 DEF IInv, LockHoldsInFlight, Answers
<1>6. TypeOK'
  BY <1>1, <1>2, <1>3, <1>4 DEF IInv, TypeOK, Answer, Statuses
<1>7. LockHoldsInFlight'
  <2>1. \A i \in 1..(Len(apiLock) - 1) :
           /\ i + 1 \in 1..Len(apiLock)
           /\ apiLock'[i] = apiLock[i + 1]
           /\ apiLock[i + 1] \in Orders
           /\ apiLock[i + 1] # o
    BY <1>1, <1>2 DEF IInv, LockHoldsInFlight
  <2>2. \A i \in 1..Len(apiLock') : status'[apiLock'[i]] = "submitted"
    BY <2>1, <1>1, <1>2, <1>4 DEF IInv, LockHoldsInFlight
  <2>3. ASSUME NEW x \in Orders, status'[x] = "submitted"
        PROVE  \E i \in 1..Len(apiLock') : apiLock'[i] = x
    <3>1. x # o /\ status[x] = "submitted"
      BY <2>3, <1>1, <1>4, <1>5
    <3>2. PICK i \in 1..Len(apiLock) : apiLock[i] = x
      BY <3>1 DEF IInv, LockHoldsInFlight
    <3>3. i - 1 \in 1..Len(apiLock') /\ (i - 1) + 1 = i
      BY <3>1, <3>2, <1>2
    <3>4. QED
      BY <3>2, <3>3, <1>2
  <2>4. ASSUME NEW i \in 1..Len(apiLock'), NEW j \in 1..Len(apiLock'),
               apiLock'[i] = apiLock'[j]
        PROVE  i = j
    BY <2>1, <2>4, <1>2 DEF IInv, LockHoldsInFlight
  <2>5. QED
    BY <2>2, <2>3, <2>4 DEF LockHoldsInFlight
<1>8. Accounted'
  <2>1. Cancelled' = Cancelled
    BY <1>1, <1>4, <1>5 DEF Cancelled
  <2>2. Cardinality(Cancelled) \in Nat
    BY FS_CardinalityType DEF IInv, Accounted
  <2>3. QED
    BY <2>1, <2>2, <1>2, <1>3 DEF IInv, Accounted, PendingAccounting
<1>9. LockEmbedded'
  <2>1. SUFFICES ASSUME ~overtaken PROVE \E g : Embeds(g, apiLock', pending')
    BY DEF LockEmbedded, Answer
  <2>2. PICK f : Embeds(f, apiLock, pending)
    BY <2>1 DEF IInv, LockEmbedded
  <2>3. QED
    BY <2>2, <1>1, EmbedTail DEF Answer, PopLeft
<1>10. QED
  BY <1>6, <1>7, <1>8, <1>9 DEF IInv

LEMMA CancelStep ==
  ASSUME IInv, NEW n \in 1..Len(apiLock), Cancel(n)
  PROVE  IInv'
<1>1. apiLock \in Seq(Orders) /\ pending \in Seq(Orders)
      /\ status \in [Orders -> Statuses] /\ pending' = pending
  BY DEF IInv, TypeOK, Cancel
<1>2. /\ apiLock' \in Seq(Orders)
      /\ Len(apiLock') = Len(apiLock) - 1
      /\ \A k \in 1..(Len(apiLock) - 1) :
            apiLock'[k] = IF k < n THEN apiLock[k] ELSE apiLock[k + 1]
  BY <1>1, RemoveAtProperties DEF Cancel
<1>a. Len(apiLock) \in Nat /\ Len(pending) \in Nat
  BY <1>1
<1> DEFINE c == apiLock[n]
<1>3. c \in Orders /\ status[c] = "submitted"
  BY <1>1 DEF IInv, LockHoldsInFlight
<1>4. status' = [status EXCEPT ![c] = "cancelled"]
  BY DEF Cancel
<1>5. TypeOK'
  BY <1>1, <1>2, <1>3, <1>4 DEF IInv, TypeOK, Cancel, Statuses
<1>b. \A i \in 1..Len(apiLock) : apiLock[i] = c => i = n
  BY DEF IInv, LockHoldsInFlight
<1> HIDE DEF c
<1>6. LockHoldsInFlight'
  <2>1. \A i \in 1..(Len(apiLock) - 1) :
           LET j == IF i < n THEN i ELSE i + 1
           IN  /\ j \in 1..Len(apiLock)
               /\ apiLock'[i] = apiLock[j]
               /\ j # n
    BY <1>2, <1>a
  <2>2. \A i \in 1..(Len(apiLock) - 1) :
           /\ apiLock'[i] \in Orders
           /\ apiLock'[i] # c
           /\ status[apiLock'[i]] = "submitted"
    BY <2>1, <1>1, <1>b DEF IInv, LockHoldsInFlight
  <2>3. \A i \in 1..Len(apiLock') : status'[apiLock'[i]] = "submitted"
    BY <2>2, <1>1, <1>2, <1>4
  <2>4. ASSUME NEW x \in Orders, status'[x] = "submitted"
        PROVE  \E i \in 1..Len(apiLock') : apiLock'[i] = x
    <3>1. x # c /\ status[x] = "submitted"
      BY <2>4, <1>1, <1>3, <1>4
    <3>2. PICK i \in 1..Len(apiLock) : apiLock[i] = x
      BY <3>1 DEF IInv, LockHoldsInFlight
    <3>3. i # n
      BY <3>1, <3>2 DEF c
    <3>4. CASE i < n
      BY <3>2, <3>4, <1>2, <1>a
    <3>5. CASE i > n
      <4>1. i - 1 \in 1..Len(apiLock') /\ ~(i - 1 < n) /\ (i - 1) + 1 = i
        BY <3>5, <1>2, <1>a
      <4>2. apiLock'[i - 1] = x
        BY <4>1, <3>2, <1>2
      <4>3. QED
        BY <4>1, <4>2
    <3>6. QED
      BY <3>3, <3>4, <3>5
  <2>5. ASSUME NEW i \in 1..Len(apiLock'), NEW j \in 1..Len(apiLock'),
               apiLock'[i] = apiLock'[j]
        PROVE  i = j
    <3> DEFINE h(k) == IF k < n THEN k ELSE k + 1
    <3>1. /\ h(i) \in 1..Len(apiLock) /\ apiLock'[i] = apiLock[h(i)]
          /\ h(j) \in 1..Len(apiLock) /\ apiLock'[j] = apiLock[h(j)]
      BY <2>1, <1>2
    <3>2. h(i) = h(j)
      BY <3>1, <2>5 DEF IInv, LockHoldsInFlight
    <3>3. QED
      BY <3>2, <1>2, <1>a
  <2>6. QED
    BY <2>3, <2>4, <2>5 DEF LockHoldsInFlight
<1>7. Accounted'
  <2>1. Cancelled' = Cancelled \cup {c}
    BY <1>1, <1>3, <1>4 DEF Cancelled
  <2>2. c \notin Cancelled
    BY <1>3 DEF Cancelled
  <2>3. /\ IsFiniteSet(Cancelled')
        /\ Cardinality(Cancelled') = Cardinality(Cancelled) + 1
    BY <2>1, <2>2, FS_AddElement DEF IInv, Accounted
  <2>4. Cardinality(Cancelled) \in Nat
    BY FS_CardinalityType DEF IInv, Accounted
  <2>5. QED
    BY <2>3, <2>4, <1>1, <1>2, <1>a DEF IInv, Accounted, PendingAccounting
<1>8. LockEmbedded'
  <2>1. SUFFICES ASSUME ~overtaken PROVE \E g : Embeds(g, apiLock', pending')
    BY DEF LockEmbedded, Cancel
  <2>2. PICK f : Embeds(f, apiLock, pending)
    BY <2>1 DEF IInv, LockEmbedded
  <2>3. QED
    BY <2>2, <1>1, EmbedRemoveAt DEF Cancel
<1>9. QED
  BY <1>5, <1>6, <1>7, <1>8 DEF IInv

LEMMA NextIInv == IInv /\ [Next]_vars => IInv'
<1> SUFFICES ASSUME IInv, [Next]_vars PROVE IInv'
  OBVIOUS
<1>1. ASSUME NEW o \in Orders, Submit(o) PROVE IInv'
  BY <1>1, SubmitStep
<1>2. ASSUME NEW o \in Orders, SubmitOffline(o) PROVE IInv'
  BY <1>2, SubmitOfflineStep
<1>3. ASSUME NEW o \in Orders, Answer(o) PROVE IInv'
  BY <1>3, AnswerStep
<1>4. ASSUME NEW i \in 1..Len(apiLock), Cancel(i) PROVE IInv'
  BY <1>4, CancelStep
<1>5. CASE Disconnect \/ Connect \/ UNCHANGED vars
  <2>1. /\ connected' \in BOOLEAN
        /\ UNCHANGED <<apiLock, pending, status, overtaken>>
    BY <1>5 DEF Disconnect, Connect, vars, IInv, TypeOK
  <2>2. Cancelled' = Cancelled
    BY <2>1 DEF Cancelled
  <2>3. TypeOK'
    BY <2>1 DEF IInv, TypeOK
  <2>4. LockHoldsInFlight'
    BY <2>1 DEF IInv, LockHoldsInFlight
  <2>5. Accounted'
    BY <2>1, <2>2 DEF IInv, Accounted, PendingAccounting
  <2>6. LockEmbedded'
    BY <2>1 DEF IInv, LockEmbedded
  <2>7. QED
    BY <2>3, <2>4, <2>5, <2>6 DEF IInv
<1>6. QED
  BY <1>1, <1>2, <1>3, <1>4, <1>5 DEF Next

THEOREM Invariance == Safe => []IInv
<1>1. QED
  BY InitIInv, NextIInv, PTL DEF Safe

-----------------------------------------------------------------------------
(***************************************************************************)
(* Type correctness; with it, that neither queue is ever popped empty.     *)
(***************************************************************************)
THEOREM TypeCorrect == Safe => []TypeOK
<1>1. IInv => TypeOK
  BY DEF IInv
<1>2. QED
  BY <1>1, Invariance, PTL

(***************************************************************************)
(* The deque is as long as the orders in flight plus the orders cancelled  *)
(* in flight, whatever the broker answers and however the tasks interleave *)
(* (order.py:29-37).                                                       *)
(***************************************************************************)
THEOREM AccountingHolds == Safe => []PendingAccounting
<1>1. IInv => PendingAccounting
  BY DEF IInv, Accounted
<1>2. QED
  BY <1>1, Invariance, PTL

(***************************************************************************)
(* has_pending_for answers TRUE for the symbol of every order in flight,   *)
(* cancelled tasks or not, until an order is refused at once ahead of      *)
(* waiting ones (order.py:53-54, the guard of engine.py:298).              *)
(***************************************************************************)
THEOREM InFlightAlwaysPending == Safe => []InFlightIsPending
<1>1. IInv => InFlightIsPending
  <2>1. SUFFICES ASSUME IInv, ~overtaken, NEW o \in InFlight
                 PROVE  HasPendingFor(SymbolOf[o])
    BY DEF InFlightIsPending
  <2>2. PICK i \in 1..Len(apiLock) : apiLock[i] = o
    BY <2>1 DEF IInv, LockHoldsInFlight, InFlight
  <2>3. PICK f : Embeds(f, apiLock, pending)
    BY <2>1 DEF IInv, LockEmbedded
  <2>4. f[i] \in 1..Len(pending) /\ pending[f[i]] = o
    BY <2>2, <2>3 DEF Embeds
  <2>5. QED
    BY <2>4 DEF HasPendingFor
<1>2. QED
  BY <1>1, Invariance, PTL

-----------------------------------------------------------------------------
(***************************************************************************)
(* Without faults the deque and the lock's queue are one and the same.     *)
(***************************************************************************)
FifoInv == IInv /\ connected = TRUE /\ pending = apiLock

LEMMA InitFifoInv == Init => FifoInv
BY InitIInv DEF Init, FifoInv

LEMMA NextFifoInv == Faults = {} /\ FifoInv /\ [Next]_vars => FifoInv'
<1> SUFFICES ASSUME Faults = {}, FifoInv, [Next]_vars PROVE FifoInv'
  OBVIOUS
<1>1. IInv'
  BY NextIInv DEF FifoInv
<1>2. ASSUME NEW o \in Orders, Submit(o) PROVE FifoInv'
  BY <1>1, <1>2 DEF Submit, FifoInv
<1>3. ASSUME NEW o \in Orders, Answer(o) PROVE FifoInv'
  BY <1>1, <1>3 DEF Answer, PopLeft, FifoInv
<1>4. CASE UNCHANGED vars
  BY <1>1, <1>4 DEF vars, FifoInv
<1>5. QED
  BY <1>2, <1>3, <1>4
  DEF Next, SubmitOffline, Cancel, Disconnect, Connect, FifoInv

LEMMA StepRefines ==
  Faults = {} /\ FifoInv /\ [Next]_vars => [Abstract!ANext]_(Abstract!avars)
<1> SUFFICES ASSUME Faults = {}, FifoInv, [Next]_vars
             PROVE  [Abstract!ANext]_(Abstract!avars)
  OBVIOUS
<1> DEFINE outs == {pending[i] : i \in 1..Len(pending)}
           ans == [o \in Orders |-> IF status[o] \in Answers THEN status[o] ELSE "none"]
<1>1. /\ apiLock \in Seq(Orders) /\ pending = apiLock
      /\ status \in [Orders -> Statuses]
      /\ LockHoldsInFlight
  BY DEF FifoInv, IInv, TypeOK
<1>2. ASSUME NEW o \in Orders, Submit(o) PROVE Abstract!Place(o)
  <2>1. o \notin outs
    BY <1>1, <1>2 DEF Submit, LockHoldsInFlight
  <2>2. outs' = outs \cup {o}
    <3>1. /\ Len(pending) \in Nat
          /\ Len(pending') = Len(pending) + 1
          /\ \A k \in 1..(Len(pending) + 1) :
                pending'[k] = IF k <= Len(pending) THEN pending[k] ELSE o
      BY <1>1, <1>2, AppendProperties DEF Submit
    <3>2. QED
      BY <3>1
  <2>3. ans[o] = "none" /\ ans' = ans
    <3>1. status' = [status EXCEPT ![o] = "submitted"] /\ status[o] = "new"
      BY <1>2 DEF Submit
    <3>2. \A x \in Orders : (IF status'[x] \in Answers THEN status'[x] ELSE "none")
                             = (IF status[x] \in Answers THEN status[x] ELSE "none")
      BY <3>1, <1>1 DEF Answers
    <3>3. ans' = ans
      BY <3>2
    <3>4. QED
      BY <3>1, <3>3 DEF Answers
  <2>4. QED
    BY <2>1, <2>2, <2>3 DEF Abstract!Place
<1>3. ASSUME NEW o \in Orders, Answer(o) PROVE Abstract!Resolve(o)
  <2>1. /\ Len(pending) \in Nat \ {0}
        /\ Len(pending') = Len(pending) - 1
        /\ \A k \in 1..(Len(pending) - 1) : pending'[k] = pending[k + 1]
        /\ o = pending[1]
    BY <1>1, <1>3, TailProperties DEF Answer, PopLeft
  <2>2. o \in outs
    BY <2>1
  <2>3. outs' = outs \ {o}
    <3>1. \A k \in 1..Len(pending) : k # 1 => pending[k] # o
      BY <1>1, <2>1 DEF LockHoldsInFlight
    <3>2. ASSUME NEW x \in outs' PROVE x \in outs \ {o}
      <4>1. PICK k \in 1..(Len(pending) - 1) : x = pending[k + 1]
        BY <2>1
      <4>2. k + 1 \in 1..Len(pending) /\ k + 1 # 1
        BY <2>1
      <4>3. QED
        BY <4>1, <4>2, <3>1
    <3>3. ASSUME NEW x \in outs \ {o} PROVE x \in outs'
      <4>1. PICK k \in 1..Len(pending) : x = pending[k]
        OBVIOUS
      <4>2. k # 1
        BY <4>1, <2>1
      <4>3. k - 1 \in 1..Len(pending') /\ pending'[k - 1] = x
        BY <4>1, <4>2, <2>1
      <4>4. QED
        BY <4>3
    <3>4. QED
      BY <3>2, <3>3
  <2>4. \E a \in Answers : ans' = [ans EXCEPT ![o] = a]
    <3>1. PICK a \in Answers : status' = [status EXCEPT ![o] = a]
      BY <1>3 DEF Answer, Answers
    <3>2. \A x \in Orders : (IF status'[x] \in Answers THEN status'[x] ELSE "none")
             = IF x = o THEN a
               ELSE IF status[x] \in Answers THEN status[x] ELSE "none"
      BY <3>1, <1>1
    <3>3. ans' = [ans EXCEPT ![o] = a]
      BY <3>2
    <3>4. QED
      BY <3>3
  <2>5. QED
    BY <2>2, <2>3, <2>4 DEF Abstract!Resolve
<1>4. CASE UNCHANGED vars
  <2>1. outs' = outs /\ ans' = ans
    BY <1>4 DEF vars
  <2>2. QED
    BY <2>1 DEF Abstract!avars
<1>5. QED
  BY <1>2, <1>3, <1>4
  DEF Next, Abstract!ANext, SubmitOffline, Cancel, Disconnect, Connect, FifoInv

(***************************************************************************)
(* While nobody is cancelled and the broker stays connected, the deque of  *)
(* OrderManager implements a set of outstanding orders: dropping its left  *)
(* end is removing the order the broker has just answered.                 *)
(***************************************************************************)
THEOREM FifoImplementsSet ==
  ASSUME Faults = {}
  PROVE  Safe => ImplementsOutstandingOrders
<1>1. Init => Abstract!AInit
  <2> SUFFICES ASSUME Init PROVE Abstract!AInit
    OBVIOUS
  <2>1. {pending[i] : i \in 1..Len(pending)} = {}
    BY DEF Init
  <2>2. [o \in Orders |-> IF status[o] \in Answers THEN status[o] ELSE "none"]
          = [o \in Orders |-> "none"]
    BY DEF Init, Answers
  <2>3. QED
    BY <2>1, <2>2 DEF Abstract!AInit
<1>2. FifoInv /\ [Next]_vars => FifoInv'
  BY NextFifoInv
<1>3. FifoInv /\ [Next]_vars => [Abstract!ANext]_(Abstract!avars)
  BY StepRefines
<1>4. QED
  BY <1>1, <1>2, <1>3, InitFifoInv, PTL
  DEF Safe, ImplementsOutstandingOrders, Abstract!ASpec
=============================================================================
