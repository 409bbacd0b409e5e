--------------------------- MODULE DecisionsProofs ---------------------------
(***************************************************************************)
(* Theorems about Decisions.  Each part has an inductive invariant of its  *)
(* own, those of the profits, the scans and the signals in DecisionLemmas; *)
(* a step of one part leaves those of the others alone.                    *)
(***************************************************************************)
EXTENDS DecisionLemmas, EngineLifecycleProofs

-----------------------------------------------------------------------------
(***************************************************************************)
(* PositionLog: the sums and the statistics that folds compute.            *)
(***************************************************************************)
\* the running totals of l, before its first trade and after each
RunningTotals(a, l) ==
  /\ a \in [0 .. Len(l) -> Int] /\ a[0] = 0
  /\ \A i \in 1 .. Len(l) : a[i] = a[i - 1] + l[i]

LEMMA FoldOfSum ==
  ASSUME NEW l \in Seq(Int), NEW a, RunningTotals(a, l)
  PROVE  Log!FoldLeft(LAMBDA x, p : x + p, 0, l) = a[Len(l)]
<1> DEFINE n == Len(l)
    Body(it) == [s \in SUBSET (1 .. n) |-> IF s = {} THEN 0 ELSE it[s \ {Max(s)}] + l[Max(s)]]
    it == CHOOSE f : f = Body(f)
<1>0. n \in Nat /\ DOMAIN l = 1 .. n
  OBVIOUS
<1>1. Log!FoldLeft(LAMBDA x, p : x + p, 0, l) = it[1 .. n]
  BY <1>0 DEF Log!FoldLeft, Log!MapThenFoldSet, Log!Max, Max
<1>2. \E f : f = Body(f)
  <2> DEFINE h == [i \in 1 .. n |-> [v \in Int |-> v + l[i]]]
  <2>1. h \in [1 .. n -> [Int -> Int]]
    OBVIOUS
  <2>2. PICK g \in [SUBSET (1 .. n) -> Int] : FoldsWith(g, n, 0, h)
    <3> HIDE DEF h, n
    <3>1. 0 \in Int
      OBVIOUS
    <3> QED BY <1>0, <2>1, <3>1, FoldExists
  <2>3. ASSUME NEW s \in SUBSET (1 .. n), s # {}
        PROVE  h[Max(s)][g[s \ {Max(s)}]] = g[s \ {Max(s)}] + l[Max(s)]
    <3>1. Max(s) \in 1 .. n
      BY <1>0, <2>3, LargestExists
    <3>2. g[s \ {Max(s)}] \in Int
      BY <2>2
    <3> QED BY <3>1, <3>2
  <2>4. \A s \in SUBSET (1 .. n) : g[s] = Body(g)[s]
    BY <2>2, <2>3 DEF FoldsWith
  <2> QED BY <2>2, <2>4
<1>3. it = Body(it)
  BY <1>2
<1> DEFINE P(k) == k <= n => it[1 .. k] = a[k]
<1>4. P(0)
  <2>1. 1 .. 0 = {}
    OBVIOUS
  <2>2. it[{}] = 0
    BY <1>3
  <2> QED BY <2>1, <2>2 DEF RunningTotals
<1>5. ASSUME NEW k \in Nat, P(k) PROVE P(k + 1)
  <2> SUFFICES ASSUME k + 1 <= n PROVE it[1 .. k + 1] = a[k + 1]
    OBVIOUS
  <2>1. /\ 1 .. k + 1 # {} /\ 1 .. k + 1 \in SUBSET (1 .. n)
        /\ Max(1 .. k + 1) = k + 1 /\ (1 .. k + 1) \ {Max(1 .. k + 1)} = 1 .. k
    BY <1>0, LargestOfFirst
  <2>2. Body(it)[1 .. k + 1] = it[1 .. k] + l[k + 1]
    BY <2>1
  <2>3. it[1 .. k + 1] = it[1 .. k] + l[k + 1]
    BY <1>3, <2>2
  <2>4. it[1 .. k] = a[k]
    BY <1>5
  <2>5. a[k + 1] = a[k] + l[k + 1]
    BY <1>0 DEF RunningTotals
  <2> QED BY <2>3, <2>4, <2>5
<1>6. P(n)
  <2> HIDE DEF P, it, n
  <2> DEFINE S == {k \in Nat : P(k)}
  <2>1. 0 \in S /\ \A k \in Nat : k \in S => k + 1 \in S
    BY <1>4, <1>5
  <2>2. \A k \in Nat : k \in S
    <3> HIDE DEF S
    <3> QED BY <2>1, NatByInduction
  <2> QED BY <1>0, <2>2
<1>7. it[1 .. n] = a[n]
  <2>1. n <= n
    BY <1>0
  <2> HIDE DEF it, n
  <2> QED BY <1>6, <2>1
<1> HIDE DEF it
<1> QED BY <1>1, <1>7

StatsRecords == [trades : Nat, wins : Nat, losses : Nat, total : Int, peak : Int, drawdown : Int]

LEMMA RecordedTypes ==
  ASSUME NEW s \in StatsRecords, NEW pnl \in Int
  PROVE  Log!Recorded(s, pnl) \in StatsRecords
BY DEF Log!Recorded, Log!Greater, StatsRecords

LEMMA NoStatsTypes == Log!NoStats \in StatsRecords
BY DEF Log!NoStats, StatsRecords

LEMMA FoldOfRecorded ==
  ASSUME NEW l \in Seq(Int)
  PROVE  \E r : /\ r[0] = Log!NoStats
                /\ \A k \in 0 .. Len(l) - 1 : r[k + 1] = Log!Recorded(r[k], l[k + 1])
                /\ Log!FoldLeft(Log!Recorded, Log!NoStats, l) = r[Len(l)]
<1> DEFINE n == Len(l)
    Body(it) == [s \in SUBSET (1 .. n) |->
                   IF s = {} THEN Log!NoStats ELSE Log!Recorded(it[s \ {Max(s)}], l[Max(s)])]
    it == CHOOSE f : f = Body(f)
<1>0. n \in Nat /\ DOMAIN l = 1 .. n
  OBVIOUS
<1>1. Log!FoldLeft(Log!Recorded, Log!NoStats, l) = it[1 .. n]
  BY <1>0 DEF Log!FoldLeft, Log!MapThenFoldSet, Log!Max, Max
<1>2. \E f : f = Body(f)
  <2> DEFINE h == [i \in 1 .. n |-> [s \in StatsRecords |-> Log!Recorded(s, l[i])]]
  <2>1. h \in [1 .. n -> [StatsRecords -> StatsRecords]]
    BY RecordedTypes
  <2>2. PICK g \in [SUBSET (1 .. n) -> StatsRecords] : FoldsWith(g, n, Log!NoStats, h)
    <3> HIDE DEF h, n
    <3> QED BY <1>0, <2>1, NoStatsTypes, FoldExists
  <2>3. ASSUME NEW s \in SUBSET (1 .. n), s # {}
        PROVE  h[Max(s)][g[s \ {Max(s)}]] = Log!Recorded(g[s \ {Max(s)}], l[Max(s)])
    <3>1. Max(s) \in 1 .. n
      BY <1>0, <2>3, LargestExists
    <3>2. g[s \ {Max(s)}] \in StatsRecords
      BY <2>2
    <3> QED BY <3>1, <3>2
  <2>4. \A s \in SUBSET (1 .. n) : g[s] = Body(g)[s]
    BY <2>2, <2>3 DEF FoldsWith
  <2> QED BY <2>2, <2>4
<1>3. it = Body(it)
  BY <1>2
<1> HIDE DEF it
<1> DEFINE r == [k \in 0 .. n |-> it[1 .. k]]
<1>4. r[0] = Log!NoStats
  <2>1. 1 .. 0 = {} /\ r[0] = it[1 .. 0]
    BY <1>0
  <2> QED BY <1>3, <2>1
<1>5. ASSUME NEW k \in 0 .. n - 1 PROVE r[k + 1] = Log!Recorded(r[k], l[k + 1])
  <2>1. /\ 1 .. k + 1 # {} /\ 1 .. k + 1 \in SUBSET (1 .. n)
        /\ Max(1 .. k + 1) = k + 1 /\ (1 .. k + 1) \ {Max(1 .. k + 1)} = 1 .. k
    BY <1>0, LargestOfFirst
  <2>2. Body(it)[1 .. k + 1] = Log!Recorded(it[1 .. k], l[k + 1])
    BY <2>1
  <2>3. it[1 .. k + 1] = Log!Recorded(it[1 .. k], l[k + 1])
    BY <1>3, <2>2
  <2> QED BY <1>0, <2>3
<1>6. r[n] = it[1 .. n]
  BY <1>0
<1> HIDE DEF r
<1> QED BY <1>1, <1>4, <1>5, <1>6

LEMMA LogCounts == \A S : Log!Cardinality(S) = Cardinality(S)
BY DEF Log!Cardinality, Cardinality

Winning(l) == {i \in 1 .. Len(l) : l[i] > 0}
Losing(l) == {i \in 1 .. Len(l) : l[i] < 0}

\* p is the largest of the running totals, and d the largest fall to a later one
PeakOf(a, n, p) == (\E i \in 0 .. n : a[i] = p) /\ \A i \in 0 .. n : a[i] <= p
FallOf(a, n, d) ==
  /\ \E i, j \in 0 .. n : i <= j /\ a[i] - a[j] = d
  /\ \A i, j \in 0 .. n : i <= j => a[i] - a[j] <= d

\* the statistics s say what the log l says
Tally(s, l) ==
  /\ s \in StatsRecords
  /\ s.trades = Len(l) /\ s.wins = Cardinality(Winning(l)) /\ s.losses = Cardinality(Losing(l))
  /\ \E a : /\ RunningTotals(a, l) /\ s.total = a[Len(l)]
            /\ PeakOf(a, Len(l), s.peak) /\ FallOf(a, Len(l), s.drawdown)

LEMMA TallyStart == Tally(Log!NoStats, <<>>)
<1> DEFINE a == [i \in 0 .. 0 |-> 0]
<1>1. RunningTotals(a, <<>>) /\ PeakOf(a, 0, 0) /\ FallOf(a, 0, 0) /\ a[0] = 0
  BY 0 .. 0 = {0} DEF RunningTotals, PeakOf, FallOf
<1>2. Winning(<<>>) = {} /\ Losing(<<>>) = {}
  BY DEF Winning, Losing
<1>3. Cardinality({}) = 0
  BY FS_EmptySet
<1> HIDE DEF a
<1> QED BY <1>1, <1>2, <1>3, NoStatsTypes, Len(<<>>) = 0 DEF Tally, Log!NoStats

\* one more index, or none, is counted
LEMMA OneMoreCounts ==
  ASSUME NEW n \in Nat, NEW w \in SUBSET (1 .. n)
  PROVE  /\ Cardinality(w) \in Nat
         /\ Cardinality(w \cup {n + 1}) = Cardinality(w) + 1
<1>1. IsFiniteSet(w)
  <2>1. IsFiniteSet(1 .. n)
    BY FS_Interval
  <2> QED BY <2>1, FS_Subset
<1>2. n + 1 \notin w
  OBVIOUS
<1> QED BY <1>1, <1>2, FS_AddElement, FS_CardinalityType

LEMMA TallyAppend ==
  ASSUME NEW l \in Seq(Int), NEW pnl \in Int, NEW s, Tally(s, l)
  PROVE  Tally(Log!Recorded(s, pnl), Append(l, pnl))
<1> DEFINE n == Len(l)
    l2 == Append(l, pnl)
    s2 == Log!Recorded(s, pnl)
<1>0. n \in Nat /\ l2 \in Seq(Int) /\ Len(l2) = n + 1 /\ l2[n + 1] = pnl
      /\ \A i \in 1 .. n : l2[i] = l[i]
  OBVIOUS
<1>1. PICK a : /\ RunningTotals(a, l) /\ s.total = a[n]
               /\ PeakOf(a, n, s.peak) /\ FallOf(a, n, s.drawdown)
  BY DEF Tally
<1> DEFINE b == [i \in 0 .. n + 1 |-> IF i <= n THEN a[i] ELSE a[n] + pnl]
<1>2. /\ b \in [0 .. n + 1 -> Int] /\ b[n + 1] = s.total + pnl /\ s.total \in Int
      /\ \A i \in 0 .. n : b[i] = a[i] /\ a[i] \in Int
  <2>1. a \in [0 .. n -> Int] /\ n \in 0 .. n /\ n + 1 \in 0 .. n + 1 /\ ~(n + 1 <= n)
    BY <1>0, <1>1 DEF RunningTotals
  <2>2. s.total \in Int /\ s.total = a[n] /\ a[n] + pnl \in Int
    BY <1>1, <2>1
  <2>3. b[n + 1] = s.total + pnl
    BY <2>1, <2>2
  <2>4. ASSUME NEW i \in 0 .. n PROVE b[i] = a[i] /\ a[i] \in Int
    <3>1. i \in 0 .. n + 1 /\ i <= n
      BY <1>0
    <3> QED BY <2>1, <3>1
  <2>5. b \in [0 .. n + 1 -> Int]
    <3>1. \A i \in 0 .. n + 1 : (IF i <= n THEN a[i] ELSE a[n] + pnl) \in Int
      <4>1. \A i \in 0 .. n + 1 : i <= n => i \in 0 .. n
        BY <1>0
      <4> HIDE DEF n
      <4> QED BY <2>1, <2>2, <4>1
    <3> HIDE DEF n
    <3> QED BY <3>1
  <2> HIDE DEF b, n
  <2> QED BY <2>2, <2>3, <2>4, <2>5
<1>3. RunningTotals(b, l2)
  BY <1>0, <1>1, <1>2 DEF RunningTotals
<1>4. s2 \in StatsRecords /\ s \in StatsRecords
  BY RecordedTypes DEF Tally
<1>5. /\ s2.trades = s.trades + 1
      /\ s2.wins = s.wins + (IF pnl > 0 THEN 1 ELSE 0)
      /\ s2.losses = s.losses + (IF pnl < 0 THEN 1 ELSE 0)
      /\ s2.total = s.total + pnl
      /\ s2.peak = Log!Greater(s.peak, s.total + pnl)
      /\ s2.drawdown = Log!Greater(s.drawdown, s2.peak - (s.total + pnl))
  BY DEF Log!Recorded
<1> HIDE DEF b, s2, l2, n
<1>6. PeakOf(b, n + 1, s2.peak)
  <2>1. PICK i \in 0 .. n : a[i] = s.peak
    BY <1>1 DEF PeakOf
  <2>2. \A j \in 0 .. n + 1 : j \in 0 .. n \/ j = n + 1
    BY <1>0
  <2>3. i \in 0 .. n + 1 /\ n + 1 \in 0 .. n + 1
    BY <1>0
  <2>4. s.peak \in Int
    BY <1>4 DEF StatsRecords
  <2>5. s2.peak >= s.peak /\ s2.peak >= s.total + pnl /\ s2.peak \in {s.peak, s.total + pnl}
    BY <1>2, <1>5, <2>4 DEF Log!Greater
  <2>6. \A j \in 0 .. n + 1 : b[j] <= s2.peak
    BY <1>1, <1>2, <2>2, <2>4, <2>5 DEF PeakOf
  <2>7. \E j \in 0 .. n + 1 : b[j] = s2.peak
    BY <1>2, <2>1, <2>3, <2>5
  <2> QED BY <2>6, <2>7 DEF PeakOf
<1>7. FallOf(b, n + 1, s2.drawdown)
  <2>1. PICK i \in 0 .. n, j \in 0 .. n : i <= j /\ a[i] - a[j] = s.drawdown
    BY <1>1 DEF FallOf
  <2>2. PICK k \in 0 .. n + 1 : b[k] = s2.peak
    BY <1>6 DEF PeakOf
  <2>3. \A m \in 0 .. n + 1 : m \in 0 .. n \/ m = n + 1
    BY <1>0
  <2>4. s.drawdown \in Int /\ s2.peak \in Int
    BY <1>4 DEF StatsRecords
  <2>5. /\ s2.drawdown >= s.drawdown /\ s2.drawdown >= s2.peak - (s.total + pnl)
        /\ s2.drawdown \in {s.drawdown, s2.peak - (s.total + pnl)}
    BY <1>2, <1>5, <2>4 DEF Log!Greater
  <2>6. \A p, q \in 0 .. n + 1 : p <= q => b[p] - b[q] <= s2.drawdown
    <3> SUFFICES ASSUME NEW p \in 0 .. n + 1, NEW q \in 0 .. n + 1, p <= q
                 PROVE  b[p] - b[q] <= s2.drawdown
      OBVIOUS
    <3>0. s2.drawdown \in Int
      BY <1>2, <2>4, <2>5
    <3>1. CASE q \in 0 .. n
      <4>1. p \in 0 .. n
        BY <1>0, <3>1
      <4>2. a[p] - a[q] <= s.drawdown
        BY <1>1, <3>1, <4>1 DEF FallOf
      <4> QED BY <1>2, <2>4, <2>5, <3>0, <3>1, <4>1, <4>2
    <3>2. CASE q = n + 1
      <4>1. b[p] <= s2.peak /\ b[p] \in Int
        BY <1>2, <1>6 DEF PeakOf
      <4> QED BY <1>2, <2>4, <2>5, <3>0, <3>2, <4>1
    <3> QED BY <2>3, <3>1, <3>2
  <2>7. \E p, q \in 0 .. n + 1 : p <= q /\ b[p] - b[q] = s2.drawdown
    <3>1. CASE s2.drawdown = s.drawdown
      <4>1. i \in 0 .. n + 1 /\ j \in 0 .. n + 1 /\ b[i] - b[j] = s2.drawdown
        BY <1>0, <1>2, <2>1, <3>1
      <4> QED BY <2>1, <4>1
    <3>2. CASE s2.drawdown = s2.peak - (s.total + pnl)
      <4>1. n + 1 \in 0 .. n + 1 /\ k <= n + 1 /\ b[k] - b[n + 1] = s2.drawdown
        BY <1>0, <1>2, <2>2, <3>2
      <4> QED BY <2>2, <4>1
    <3> QED BY <2>5, <3>1, <3>2
  <2> QED BY <2>6, <2>7 DEF FallOf
<1>8. /\ Winning(l2) = IF pnl > 0 THEN Winning(l) \cup {n + 1} ELSE Winning(l)
      /\ Losing(l2) = IF pnl < 0 THEN Losing(l) \cup {n + 1} ELSE Losing(l)
  <2>1. \A i : i \in 1 .. n + 1 <=> i \in 1 .. n \/ i = n + 1
    BY <1>0
  <2>2. Winning(l) = {i \in 1 .. n : l[i] > 0} /\ Losing(l) = {i \in 1 .. n : l[i] < 0}
    BY DEF Winning, Losing, n
  <2>3. Winning(l2) = {i \in 1 .. n + 1 : l2[i] > 0} /\ Losing(l2) = {i \in 1 .. n + 1 : l2[i] < 0}
    BY <1>0 DEF Winning, Losing
  <2> QED BY <1>0, <2>1, <2>2, <2>3
<1>9. s2.wins = Cardinality(Winning(l2)) /\ s2.losses = Cardinality(Losing(l2))
  <2>1. Winning(l) \in SUBSET (1 .. n) /\ Losing(l) \in SUBSET (1 .. n)
    BY DEF Winning, Losing, n
  <2>2. Cardinality(Winning(l)) \in Nat /\ Cardinality(Losing(l)) \in Nat
        /\ Cardinality(Winning(l) \cup {n + 1}) = Cardinality(Winning(l)) + 1
        /\ Cardinality(Losing(l) \cup {n + 1}) = Cardinality(Losing(l)) + 1
    BY <1>0, <2>1, OneMoreCounts
  <2>3. s.wins = Cardinality(Winning(l)) /\ s.losses = Cardinality(Losing(l))
    BY DEF Tally
  <2> QED BY <1>5, <1>8, <2>2, <2>3
<1>10. s2.trades = n + 1 /\ s2.total = b[n + 1]
  BY <1>2, <1>5 DEF Tally, n
<1>11. \E c : /\ RunningTotals(c, l2) /\ s2.total = c[Len(l2)]
              /\ PeakOf(c, Len(l2), s2.peak) /\ FallOf(c, Len(l2), s2.drawdown)
  BY <1>0, <1>3, <1>6, <1>7, <1>10
<1>12. Tally(s2, l2)
  BY <1>0, <1>4, <1>9, <1>10, <1>11 DEF Tally
<1> QED BY <1>12 DEF s2, l2

LEMMA TallyFold ==
  ASSUME NEW l \in Seq(Int)
  PROVE  Tally(Log!FoldLeft(Log!Recorded, Log!NoStats, l), l)
<1> DEFINE n == Len(l)
<1>0. n \in Nat
  OBVIOUS
<1>1. PICK r : /\ r[0] = Log!NoStats
               /\ \A k \in 0 .. Len(l) - 1 : r[k + 1] = Log!Recorded(r[k], l[k + 1])
               /\ Log!FoldLeft(Log!Recorded, Log!NoStats, l) = r[Len(l)]
  BY FoldOfRecorded
<1> DEFINE P(k) == k <= n => Tally(r[k], SubSeq(l, 1, k))
<1>2. P(0)
  <2>1. SubSeq(l, 1, 0) = <<>>
    OBVIOUS
  <2> QED BY <1>1, <2>1, TallyStart
<1>3. ASSUME NEW k \in Nat, P(k) PROVE P(k + 1)
  <2> SUFFICES ASSUME k + 1 <= n PROVE Tally(r[k + 1], SubSeq(l, 1, k + 1))
    OBVIOUS
  <2>1. /\ SubSeq(l, 1, k) \in Seq(Int) /\ l[k + 1] \in Int
        /\ SubSeq(l, 1, k + 1) = Append(SubSeq(l, 1, k), l[k + 1])
    BY PrefixGrows
  <2>2. Tally(r[k], SubSeq(l, 1, k))
    BY <1>0, <1>3
  <2>3. Tally(Log!Recorded(r[k], l[k + 1]), Append(SubSeq(l, 1, k), l[k + 1]))
    BY <2>1, <2>2, TallyAppend
  <2>4. r[k + 1] = Log!Recorded(r[k], l[k + 1])
    BY <1>0, <1>1
  <2> QED BY <2>1, <2>3, <2>4
<1>4. P(n)
  <2> HIDE DEF P, n
  <2> DEFINE S == {k \in Nat : P(k)}
  <2>1. 0 \in S /\ \A k \in Nat : k \in S => k + 1 \in S
    BY <1>2, <1>3
  <2>2. \A k \in Nat : k \in S
    <3> HIDE DEF S
    <3> QED BY <2>1, NatByInduction
  <2> QED BY <1>0, <2>2
<1>5. Tally(r[n], SubSeq(l, 1, n))
  <2>1. n <= n
    BY <1>0
  <2> HIDE DEF n
  <2> QED BY <1>4, <2>1
<1>6. SubSeq(l, 1, n) = l
  OBVIOUS
<1> QED BY <1>1, <1>5, <1>6

\* the sum of a prefix is the running total there
LEMMA TotalsOfPrefixes ==
  ASSUME NEW a, log_log \in Seq(Int), RunningTotals(a, log_log)
  PROVE  \A k \in 0 .. Len(log_log) : Log!Total(k) = a[k]
<1> DEFINE l == log_log
    n == Len(l)
<1>0. n \in Nat
  OBVIOUS
<1> SUFFICES ASSUME NEW k \in 0 .. n PROVE Log!Total(k) = a[k]
  OBVIOUS
<1> DEFINE q == SubSeq(l, 1, k)
    b == [i \in 0 .. k |-> a[i]]
<1>1. q \in Seq(Int) /\ Len(q) = k /\ \A i \in 1 .. k : q[i] = l[i]
  OBVIOUS
<1>2. /\ a \in [0 .. n -> Int] /\ a[0] = 0
      /\ \A i \in 1 .. n : a[i] = a[i - 1] + l[i]
  BY DEF RunningTotals
<1>3. \A i \in 0 .. k : i \in 0 .. n /\ b[i] = a[i]
  BY <1>0
<1>4. b \in [0 .. k -> Int]
  BY <1>2, <1>3
<1>5. \A i \in 1 .. k : i \in 1 .. n /\ i \in 0 .. k /\ i - 1 \in 0 .. k
  BY <1>0
<1>6. 0 \in 0 .. k /\ k \in 0 .. k
  BY <1>0
<1>7. \A i \in 1 .. k : b[i] = b[i - 1] + q[i]
  BY <1>1, <1>2, <1>3, <1>5
<1>8. b[0] = 0
  BY <1>2, <1>3, <1>6
<1>9. RunningTotals(b, q)
  <2> HIDE DEF b, q
  <2> QED BY <1>1, <1>4, <1>7, <1>8 DEF RunningTotals
<1>10. Log!FoldLeft(LAMBDA x, p : x + p, 0, q) = b[k]
  <2> HIDE DEF b, q
  <2> QED BY <1>1, <1>9, FoldOfSum
<1>11. Log!Total(k) = Log!FoldLeft(LAMBDA x, p : x + p, 0, q)
  BY DEF Log!Total
<1> QED BY <1>3, <1>6, <1>10, <1>11

\* a statistic that tallies is what the property says of it
LEMMA TalliedMatches ==
  ASSUME log_log \in Seq(Int), Tally(log_stats, log_log)
  PROVE  Log!StatsMatchLog
<1> DEFINE l == log_log
    n == Len(l)
    pairs == {q \in (0 .. n) \X (0 .. n) : q[1] <= q[2]}
    falls == {Log!Total(p[1]) - Log!Total(p[2]) : p \in pairs}
<1>0. n \in Nat /\ DOMAIN l = 1 .. n
  OBVIOUS
<1>1. PICK a : /\ RunningTotals(a, l) /\ log_stats.total = a[n]
               /\ PeakOf(a, n, log_stats.peak) /\ FallOf(a, n, log_stats.drawdown)
  BY DEF Tally
<1>2. \A k \in 0 .. n : Log!Total(k) = a[k]
  BY <1>1, TotalsOfPrefixes
<1>3. \A k \in 0 .. n : a[k] \in Int
  BY <1>1 DEF RunningTotals
<1>4. log_stats.drawdown \in falls
  <2>1. PICK i \in 0 .. n, j \in 0 .. n : i <= j /\ a[i] - a[j] = log_stats.drawdown
    BY <1>1 DEF FallOf
  <2>2. <<i, j>> \in pairs /\ <<i, j>>[1] = i /\ <<i, j>>[2] = j
    BY <2>1
  <2>3. Log!Total(i) - Log!Total(j) = log_stats.drawdown
    BY <1>2, <2>1
  <2> HIDE DEF pairs
  <2> QED BY <2>2, <2>3
<1>5. \A d \in falls : d \in Int /\ d <= log_stats.drawdown
  <2> SUFFICES ASSUME NEW p \in pairs
               PROVE  /\ Log!Total(p[1]) - Log!Total(p[2]) \in Int
                      /\ Log!Total(p[1]) - Log!Total(p[2]) <= log_stats.drawdown
    <3> HIDE DEF pairs
    <3> QED OBVIOUS
  <2>1. p[1] \in 0 .. n /\ p[2] \in 0 .. n /\ p[1] <= p[2]
    OBVIOUS
  <2>2. a[p[1]] - a[p[2]] <= log_stats.drawdown
    BY <1>1, <2>1 DEF FallOf
  <2> QED BY <1>2, <1>3, <2>1, <2>2
<1>6. Log!Max(falls) = log_stats.drawdown
  <2> HIDE DEF falls
  <2>1. log_stats.drawdown \in Int
    BY <1>4, <1>5
  <2>2. \A d \in falls : log_stats.drawdown >= d
    BY <1>5, <2>1
  <2>3. \E x \in falls : \A y \in falls : x >= y
    BY <1>4, <2>2
  <2>4. Log!Max(falls) \in falls /\ \A y \in falls : Log!Max(falls) >= y
    BY <2>3 DEF Log!Max
  <2>5. Log!Max(falls) >= log_stats.drawdown /\ Log!Max(falls) <= log_stats.drawdown
        /\ Log!Max(falls) \in Int
    BY <1>4, <1>5, <2>4
  <2> QED BY <2>1, <2>5
<1>7. /\ log_stats.wins = Log!Cardinality({i \in DOMAIN log_log : log_log[i] > 0})
      /\ log_stats.losses = Log!Cardinality({i \in DOMAIN log_log : log_log[i] < 0})
  <2>1. /\ {i \in DOMAIN log_log : log_log[i] > 0} = Winning(l)
        /\ {i \in DOMAIN log_log : log_log[i] < 0} = Losing(l)
    BY <1>0 DEF Winning, Losing
  <2> QED BY <2>1, LogCounts DEF Tally
<1>8. log_stats.trades = n /\ log_stats.total = Log!Total(n)
  <2>1. n \in 0 .. n
    BY <1>0
  <2> QED BY <1>1, <1>2, <2>1 DEF Tally
<1> QED BY <1>6, <1>7, <1>8 DEF Log!StatsMatchLog

-----------------------------------------------------------------------------
(***************************************************************************)
(* PositionLog: the ages of positions, and the statistics.                 *)
(***************************************************************************)
LogOK == Log!TypeOK /\ log_log \in Seq(Results)

\* what makes AgeHasCause inductive: a row whose position has left the memory,
\* or that is older than the shares, has a cause
LogAges ==
  /\ log_held <= log_clock /\ log_opened <= log_clock /\ log_row <= log_clock
  /\ log_opened = 0 /\ log_row # 0 => log_causes # {}
  /\ log_row # 0 /\ log_held # 0 /\ log_row < log_held => log_causes # {}
  /\ Log!AgeHasCause

LEMMA ResultsAreIntegers == ASSUME NEW q \in Seq(Results) PROVE q \in Seq(Int)
<1>1. Len(q) \in Nat /\ q \in [1 .. Len(q) -> Results]
  OBVIOUS
<1>2. \A i \in 1 .. Len(q) : q[i] \in Results
  OBVIOUS
<1>3. q \in [1 .. Len(q) -> Int]
  BY <1>1, <1>2, LogAssumption
<1> QED BY <1>1, <1>3

LogTally == log_logged => Tally(log_stats, log_log)

LogInv == LogOK /\ LogAges /\ LogTally

LEMMA LogStarts == Log!Init => LogInv
<1> SUFFICES ASSUME Log!Init PROVE LogInv
  OBVIOUS
<1>1. log_log = <<>> /\ log_stats = Log!NoStats
  BY DEF Log!Init
<1>2. LogOK
  BY LogAssumption, Len(<<>>) = 0 DEF Log!Init, LogOK, Log!TypeOK, Log!Times
<1>3. LogAges
  BY DEF Log!Init, LogAges, Log!AgeHasCause
<1>4. LogTally
  BY <1>1, TallyStart DEF LogTally
<1> QED BY <1>2, <1>3, <1>4 DEF LogInv

\* the log grows by one result, within its bound
LEMMA LogGrows ==
  ASSUME LogOK, NEW pnl \in Results, Len(log_log) < MaxTrades
  PROVE  /\ Append(log_log, pnl) \in Seq(Results)
         /\ Len(Append(log_log, pnl)) <= MaxTrades
         /\ \A i \in DOMAIN Append(log_log, pnl) : Append(log_log, pnl)[i] \in Results
<1>1. PICK q \in Seq(Results) : q = log_log
  BY DEF LogOK
<1>2. Append(q, pnl) \in Seq(Results) /\ Len(Append(q, pnl)) = Len(q) + 1 /\ Len(q) \in Nat
  BY <1>1
<1>3. Len(Append(q, pnl)) <= MaxTrades
  BY <1>1, <1>2, LogAssumption
<1>4. \A i \in DOMAIN Append(q, pnl) : Append(q, pnl)[i] \in Results
  BY <1>2
<1> QED BY <1>1, <1>2, <1>3, <1>4

LEMMA LogTypesKept ==
  ASSUME LogOK, Log!Next
  PROVE  LogOK'
<1> USE DEF LogOK, Log!TypeOK, Log!Times
<1>1. ASSUME NEW pnl \in Results, Log!Sell(pnl) PROVE LogOK'
  <2>1. /\ log_clock' = log_clock /\ log_held' = log_held /\ log_opened' = 0
        /\ log_row' \in {0, log_row} /\ log_logged' \in BOOLEAN
    BY <1>1 DEF Log!Sell, Log!CloseRow
  <2>5. log_faults' \in 0 .. MaxFaults
    <3>1. PICK refused \in SUBSET {"log", "row"} :
                 /\ log_faults + Cardinality(refused) <= MaxFaults
                 /\ log_faults' = log_faults + Cardinality(refused)
      BY <1>1, LogCounts DEF Log!Sell
    <3>2. IsFiniteSet({"log", "row"})
      <4>1. IsFiniteSet({"log"})
        BY FS_Singleton
      <4>2. IsFiniteSet({"log"} \cup {"row"})
        BY <4>1, FS_AddElement
      <4>3. {"log", "row"} = {"log"} \cup {"row"}
        OBVIOUS
      <4> QED BY <4>2, <4>3, Zenon
    <3>3. Cardinality(refused) \in Nat
      BY <3>2, FS_Subset, FS_CardinalityType
    <3> QED BY <3>1, <3>3, LogAssumption
  <2>2. \/ log_log' = log_log
        \/ log_log' = Append(log_log, pnl) /\ Len(log_log) < MaxTrades
    BY <1>1 DEF Log!Sell
  <2>3. CASE log_log' = log_log
    BY <2>1, <2>3, <2>5, LogAssumption
  <2>4. CASE log_log' = Append(log_log, pnl) /\ Len(log_log) < MaxTrades
    <3>1. /\ log_log' \in Seq(Results) /\ Len(log_log') <= MaxTrades
          /\ \A i \in DOMAIN log_log' : log_log'[i] \in Results
      BY <2>4, LogGrows
    <3> QED BY <2>1, <2>5, <3>1, LogAssumption
  <2> QED BY <2>2, <2>3, <2>4
<1>2. ASSUME log_log' = log_log, log_logged' \in BOOLEAN, log_clock' \in 1 .. LogTime,
             log_held' \in 0 .. LogTime, log_opened' \in 0 .. LogTime,
             log_row' \in 0 .. LogTime, log_faults' \in 0 .. MaxFaults
      PROVE  LogOK'
  BY <1>2
<1> USE LogAssumption DEF Log!performance, Log!account
<1>3. CASE Log!Buy
  <2>1. log_clock \in 0 .. LogTime
    OBVIOUS
  <2> QED BY <1>2, <1>3, <2>1 DEF Log!Buy, Log!Write, Log!SaveOpen
<1>4. CASE Log!SellRefused
  BY <1>2, <1>4 DEF Log!SellRefused
<1>5. CASE Log!Sync
  BY <1>2, <1>5 DEF Log!Sync
<1>6. CASE Log!SellNotice
  BY <1>2, <1>6 DEF Log!SellNotice
<1>7. CASE Log!Account
  BY <1>2, <1>7 DEF Log!Account, Log!SharesGone, Log!SharesBought
<1>8. CASE Log!Tick
  BY <1>2, <1>8 DEF Log!Tick
<1>9. CASE Log!Restart
  BY <1>2, <1>9 DEF Log!Restart
<1> QED BY <1>1, <1>3, <1>4, <1>5, <1>6, <1>7, <1>8, <1>9 DEF Log!Next

LEMMA LogAgesKept ==
  ASSUME LogOK, LogAges, Log!Next
  PROVE  LogAges'
<1>0. /\ log_clock \in Nat \ {0} /\ log_held \in Nat /\ log_opened \in Nat /\ log_row \in Nat
  BY LogAssumption DEF LogOK, Log!TypeOK, Log!Times
<1> USE <1>0 DEF LogAges, Log!AgeHasCause, Log!performance, Log!account
<1>1. ASSUME NEW pnl \in Results, Log!Sell(pnl) PROVE LogAges'
  BY <1>1 DEF Log!Sell, Log!CloseRow, Log!LeavesMemory
<1>2. CASE Log!Buy
  BY <1>2 DEF Log!Buy, Log!Write, Log!SaveOpen
<1>3. CASE Log!SellRefused
  BY <1>3 DEF Log!SellRefused, Log!LeavesMemory
<1>4. CASE Log!Sync
  BY <1>4 DEF Log!Sync, Log!LeavesMemory
<1>5. CASE Log!SellNotice
  BY <1>5 DEF Log!SellNotice, Log!LeavesMemory
<1>6. CASE Log!Account
  BY <1>6 DEF Log!Account, Log!SharesGone, Log!SharesBought
<1>7. CASE Log!Tick
  BY <1>7 DEF Log!Tick
<1>8. CASE Log!Restart
  BY <1>8 DEF Log!Restart, Log!LeavesMemory
<1> QED BY <1>1, <1>2, <1>3, <1>4, <1>5, <1>6, <1>7, <1>8 DEF Log!Next

LEMMA LogTallyKept ==
  ASSUME LogOK, LogTally, Log!Next
  PROVE  LogTally'
<1>0. log_log \in Seq(Int) /\ log_logged \in BOOLEAN
  <2>1. PICK q \in Seq(Results) : q = log_log
    BY DEF LogOK
  <2>2. q \in Seq(Int)
    BY ResultsAreIntegers
  <2> QED BY <2>1, <2>2 DEF LogOK, Log!TypeOK
<1>1. ASSUME NEW pnl \in Results, Log!Sell(pnl) PROVE LogTally'
  <2>1. log_stats' = Log!Recorded(log_stats, pnl)
    BY <1>1 DEF Log!Sell
  <2>2. \/ log_logged' = FALSE
        \/ log_logged' = log_logged /\ log_log' = Append(log_log, pnl)
    BY <1>1 DEF Log!Sell
  <2>3. Tally(log_stats, log_log) =>
          Tally(Log!Recorded(log_stats, pnl), Append(log_log, pnl))
    <3>1. pnl \in Int
      BY LogAssumption
    <3> QED BY <1>0, <3>1, TallyAppend
  <2> QED BY <2>1, <2>2, <2>3 DEF LogTally
<1>2. CASE Log!Restart
  <2>1. log_log' = log_log /\ log_stats' = Log!FoldLeft(Log!Recorded, Log!NoStats, log_log)
    BY <1>2 DEF Log!Restart, Log!Load
  <2>2. Tally(Log!FoldLeft(Log!Recorded, Log!NoStats, log_log), log_log)
    BY <1>0, TallyFold
  <2>3. Tally(log_stats', log_log')
    BY <2>1, <2>2
  <2> QED BY <2>3 DEF LogTally
<1>3. ASSUME log_log' = log_log, log_stats' = log_stats, log_logged' = log_logged
      PROVE  LogTally'
  BY <1>3 DEF LogTally
<1> USE DEF Log!performance
<1>4. CASE Log!Buy
  BY <1>3, <1>4 DEF Log!Buy
<1>5. CASE Log!SellRefused
  BY <1>3, <1>5 DEF Log!SellRefused
<1>6. CASE Log!Sync
  BY <1>3, <1>6 DEF Log!Sync
<1>7. CASE Log!SellNotice
  BY <1>3, <1>7 DEF Log!SellNotice
<1>8. CASE Log!Account
  BY <1>3, <1>8 DEF Log!Account
<1>9. CASE Log!Tick
  BY <1>3, <1>9 DEF Log!Tick
<1> QED BY <1>1, <1>2, <1>4, <1>5, <1>6, <1>7, <1>8, <1>9 DEF Log!Next

LEMMA LogSteps == LogInv /\ Log!Next => LogInv'
BY LogTypesKept, LogAgesKept, LogTallyKept DEF LogInv

LEMMA LogRests == LogInv /\ UNCHANGED logVars => LogInv'
<1> SUFFICES ASSUME LogInv, UNCHANGED logVars PROVE LogInv'
  OBVIOUS
<1>1. LogOK' /\ LogAges' /\ LogTally'
  BY DEF LogInv, logVars, LogOK, LogAges, LogTally, Log!TypeOK, Log!Times, Log!AgeHasCause
<1> QED BY <1>1 DEF LogInv

LEMMA LogMeans == LogInv => Log!TypeOK /\ Log!AgeHasCause /\ Log!StatsMatchLog
<1> SUFFICES ASSUME LogInv PROVE Log!TypeOK /\ Log!AgeHasCause /\ Log!StatsMatchLog
  OBVIOUS
<1>1. log_log \in Seq(Int)
  BY ResultsAreIntegers DEF LogInv, LogOK
<1>2. Log!StatsMatchLog
  <2>1. CASE log_logged
    BY <1>1, <2>1, TalliedMatches DEF LogInv, LogTally
  <2>2. CASE ~log_logged
    BY <2>2 DEF Log!StatsMatchLog
  <2> QED BY <2>1, <2>2
<1> QED BY <1>2 DEF LogInv, LogOK, LogAges

-----------------------------------------------------------------------------
(***************************************************************************)
(* StrategySwitches, for any strategies and limits.  Both properties are   *)
(* inductive together with the types.                                      *)
(***************************************************************************)
\* what a mode, a toggle or the settings page does leaves the file alone
LEMMA ListsTyped ==
  ASSUME NEW f \in Switches!Values
  PROVE  Switches!Listed(f) \subseteq Switches!Strategies
BY DEF Switches!Values, Switches!Listed, Switches!Strategies

LEMMA RewrittenTyped ==
  ASSUME Switches!TypeOK, NEW on \in SUBSET Switches!Strategies, Switches!RewriteLists(on)
  PROVE  sw_settings' \in Switches!Values /\ sw_hidden' \subseteq Switches!Kinds
<1>1. sw_settings' = [sw_settings EXCEPT !.scalping = on \cap Scalping, !.quant = on \cap Quant]
  BY DEF Switches!RewriteLists
<1>2. sw_settings' \in Switches!Values
  BY <1>1 DEF Switches!TypeOK, Switches!Values
<1> QED BY <1>2 DEF Switches!RewriteLists, Switches!TypeOK

(***************************************************************************)
(* Every variable keeps its type (StrategySwitches.TypeOK).                *)
(***************************************************************************)
LEMMA SwitchesTypesKept == Switches!TypeOK /\ [Switches!Next]_switchesVars => Switches!TypeOK'
<1> SUFFICES ASSUME Switches!TypeOK, [Switches!Next]_switchesVars PROVE Switches!TypeOK'
  OBVIOUS
<1>1. ASSUME NEW mode \in Switches!Modes, Switches!Start(mode) PROVE Switches!TypeOK'
  BY <1>1
     DEF Switches!Start, Switches!ModeStrategies, Switches!TypeOK, Switches!Values,
     Switches!Strategies
<1>2. CASE Switches!Stop
  BY <1>2 DEF Switches!Stop, Switches!TypeOK
<1>3. ASSUME NEW name \in Switches!Strategies, NEW mode \in Switches!Kinds \cup {""},
             Switches!Toggle(name, mode)
      PROVE  Switches!TypeOK'
  <2> DEFINE on == IF name \in sw_enabled THEN sw_enabled \ {name} ELSE sw_enabled \cup {name}
  <2>1. on \in SUBSET Switches!Strategies
    BY DEF Switches!TypeOK
  <2>2. Switches!RewriteLists(on) /\ sw_enabled' = on
        /\ sw_chosen' = (IF name \in on THEN sw_chosen \cup {name} ELSE sw_chosen \ {name})
        /\ UNCHANGED <<sw_file, sw_limit, sw_started, sw_applied, sw_filed>>
    BY <1>3 DEF Switches!Toggle
  <2>3. sw_settings' \in Switches!Values /\ sw_hidden' \subseteq Switches!Kinds
    BY <2>1, <2>2, RewrittenTyped
  <2> QED BY <2>1, <2>2, <2>3 DEF Switches!TypeOK
<1>4. ASSUME NEW on \in SUBSET Switches!Strategies, NEW off \in SUBSET Switches!Strategies,
             Switches!SetStrategies(on, off)
      PROVE  Switches!TypeOK'
  <2>1. sw_settings' \in Switches!Values /\ sw_hidden' \subseteq Switches!Kinds
    BY <1>4, RewrittenTyped, (sw_enabled \cup on) \ off \in SUBSET Switches!Strategies
       DEF Switches!SetStrategies, Switches!TypeOK
  <2> QED BY <1>4, <2>1 DEF Switches!SetStrategies, Switches!TypeOK
<1>5. ASSUME NEW v \in Limits, Switches!SetTrading(v) PROVE Switches!TypeOK'
  <2>1. sw_settings' \in Switches!Values
    BY <1>5 DEF Switches!SetTrading, Switches!TypeOK, Switches!Values
  <2> QED BY <1>5, <2>1 DEF Switches!SetTrading, Switches!TypeOK
<1>6. ASSUME NEW v \in Limits, Switches!SetRisk(v) PROVE Switches!TypeOK'
  BY <1>6 DEF Switches!SetRisk, Switches!TypeOK
<1>7. CASE Switches!Persist
  <2>1. sw_file' \in Switches!Values
    BY <1>7 DEF Switches!Persist, Switches!TypeOK, Switches!Values
  <2>2. sw_hidden' \subseteq Switches!Kinds
        /\ sw_filed' = [chosen |-> sw_chosen, hidden |-> sw_hidden']
    BY <1>7 DEF Switches!Persist, Switches!Filed, Switches!TypeOK
  <2>3. sw_filed' \in [chosen : SUBSET Switches!Strategies, hidden : SUBSET Switches!Kinds]
    BY <2>2 DEF Switches!TypeOK
  <2> QED BY <1>7, <2>1, <2>2, <2>3 DEF Switches!Persist, Switches!TypeOK
<1>8. CASE Switches!Restart
  BY <1>8, ListsTyped DEF Switches!Restart, Switches!Loaded, Switches!TypeOK, Switches!Values
<1>9. CASE UNCHANGED switchesVars
  BY <1>9 DEF switchesVars, Switches!TypeOK
<1> QED BY <1>1, <1>2, <1>3, <1>4, <1>5, <1>6, <1>7, <1>8, <1>9 DEF Switches!Next

LEMMA SwitchesTyped == Switches!Init => Switches!TypeOK
<1> SUFFICES ASSUME NEW f \in Switches!Values, Switches!InitWith(f) PROVE Switches!TypeOK
  BY DEF Switches!Init, Switches!Values
<1>1. Switches!Listed(f) \subseteq Switches!Strategies /\ f.limit \in Limits
  BY ListsTyped DEF Switches!Values
<1>2. sw_filed = [chosen |-> Switches!Listed(f), hidden |-> {}]
  BY DEF Switches!InitWith
<1>3. sw_filed \in [chosen : SUBSET Switches!Strategies, hidden : SUBSET Switches!Kinds]
  BY <1>1, <1>2
<1> QED BY <1>1, <1>3 DEF Switches!InitWith, Switches!TypeOK

(***************************************************************************)
(* The limits in force were given to the risk manager, or are those the    *)
(* file had at first: what SetTrading leaves in the settings goes nowhere, *)
(* because a persist writes the risk manager's limits over them            *)
(* (routes.py:849-853, 941-947).                                           *)
(***************************************************************************)
LEMMA LimitsStayApplied ==
  Switches!LimitsWereApplied /\ [Switches!Next]_switchesVars => Switches!LimitsWereApplied'
<1> SUFFICES ASSUME Switches!LimitsWereApplied, [Switches!Next]_switchesVars
             PROVE  Switches!LimitsWereApplied'
  OBVIOUS
<1>1. CASE \/ \E mode \in Switches!Modes : Switches!Start(mode)
           \/ Switches!Stop
           \/ \E name \in Switches!Strategies, mode \in Switches!Kinds \cup {""} :
                Switches!Toggle(name, mode)
           \/ \E on, off \in SUBSET Switches!Strategies : Switches!SetStrategies(on, off)
           \/ \E v \in Limits : Switches!SetTrading(v)
           \/ UNCHANGED switchesVars
  BY <1>1
     DEF Switches!Start, Switches!Stop, Switches!Toggle, Switches!SetStrategies,
     Switches!SetTrading, switchesVars, Switches!LimitsWereApplied
<1>2. ASSUME NEW v \in Limits, Switches!SetRisk(v) PROVE Switches!LimitsWereApplied'
  BY <1>2 DEF Switches!SetRisk, Switches!LimitsWereApplied
<1>3. CASE Switches!Persist
  BY <1>3 DEF Switches!Persist, Switches!LimitsWereApplied
<1>4. CASE Switches!Restart
  BY <1>4 DEF Switches!Restart, Switches!Loaded, Switches!LimitsWereApplied
<1> QED BY <1>1, <1>2, <1>3, <1>4 DEF Switches!Next

-----------------------------------------------------------------------------
(***************************************************************************)
(* Rewriting both lists keeps them what was chosen, for every kind of      *)
(* which nothing was listed but off: then what is enabled of the kind is   *)
(* what is listed of it.                                                   *)
(***************************************************************************)
LEMMA RewriteKeeps ==
  ASSUME Switches!TypeOK, Switches!ChoiceKept,
         NEW add \in SUBSET Switches!Strategies, NEW drop \in SUBSET Switches!Strategies,
         Switches!RewriteLists((sw_enabled \cup add) \ drop),
         sw_enabled' = (sw_enabled \cup add) \ drop,
         sw_chosen' = (sw_chosen \cup add) \ drop
  PROVE  Switches!ChoiceKept'
<1> USE SwitchesAssumption
<1> DEFINE on == (sw_enabled \cup add) \ drop
<1>1. sw_settings' = [sw_settings EXCEPT !.scalping = on \cap Scalping, !.quant = on \cap Quant]
  BY DEF Switches!RewriteLists
<1>2. sw_settings'["scalping"] = on \cap Scalping /\ sw_settings'["quant"] = on \cap Quant
  BY <1>1 DEF Switches!TypeOK, Switches!Values
<1>3. sw_enabled' \subseteq Switches!Listed(sw_settings')
  BY <1>2 DEF Switches!Listed, Switches!TypeOK, Switches!Strategies
<1>4. ASSUME NEW k \in Switches!Kinds \ sw_hidden'
      PROVE  sw_settings'[k] = sw_chosen' \cap Switches!OfKind(k)
  <2>1. k \notin sw_hidden /\ sw_settings[k] \subseteq sw_enabled
    BY <1>4 DEF Switches!RewriteLists
  <2>2. sw_settings[k] = sw_chosen \cap Switches!OfKind(k)
        /\ sw_settings'[k] = on \cap Switches!OfKind(k)
    BY <1>2, <2>1 DEF Switches!ChoiceKept, Switches!OfKind, Switches!Kinds
  <2>3. sw_enabled \cap Switches!OfKind(k) \subseteq sw_settings[k]
    BY DEF Switches!ChoiceKept, Switches!Listed, Switches!TypeOK, Switches!Values, Switches!OfKind,
       Switches!Kinds
  <2> QED BY <2>1, <2>2, <2>3
<1> QED BY <1>3, <1>4 DEF Switches!ChoiceKept

\* what the file lists is what was chosen when it was written
FileKept ==
  \A k \in Switches!Kinds \ sw_filed.hidden :
    sw_file[k] = sw_filed.chosen \cap Switches!OfKind(k)

ChosenOK == Switches!ChoiceKept /\ FileKept

(***************************************************************************)
(* A persist writes what is enabled, which is what is listed of every kind *)
(* that is not hidden.                                                     *)
(***************************************************************************)
LEMMA PersistKeeps ==
  ASSUME Switches!TypeOK, Switches!ChoiceKept, Switches!Persist
  PROVE  FileKept'
<1> USE SwitchesAssumption
<1>1. /\ sw_file'["scalping"] = sw_enabled \cap Scalping
      /\ sw_file'["quant"] = sw_enabled \cap Quant
  BY DEF Switches!Persist
<1>2. sw_filed'.chosen = sw_chosen /\ sw_filed'.hidden = sw_hidden'
      /\ \A k \in Switches!Kinds \ sw_hidden' :
           k \notin sw_hidden /\ sw_settings[k] \subseteq sw_enabled
  BY DEF Switches!Persist, Switches!Filed
<1>3. ASSUME NEW k \in Switches!Kinds \ sw_filed'.hidden
      PROVE  sw_file'[k] = sw_filed'.chosen \cap Switches!OfKind(k)
  <2>1. k \notin sw_hidden /\ sw_settings[k] \subseteq sw_enabled
    BY <1>2, <1>3
  <2>2. sw_settings[k] = sw_chosen \cap Switches!OfKind(k)
        /\ sw_file'[k] = sw_enabled \cap Switches!OfKind(k)
    BY <1>1, <2>1 DEF Switches!ChoiceKept, Switches!OfKind, Switches!Kinds
  <2>3. sw_enabled \cap Switches!OfKind(k) \subseteq sw_settings[k]
    BY DEF Switches!ChoiceKept, Switches!Listed, Switches!TypeOK, Switches!Values, Switches!OfKind,
       Switches!Kinds
  <2> QED BY <1>2, <2>1, <2>2, <2>3
<1> QED BY <1>3 DEF FileKept

(***************************************************************************)
(* The lists are what was chosen by hand, but for the kinds a mode hid     *)
(* (StrategySwitches.ChoiceKept; routes.py:393-414, 683-686, 892-895,      *)
(* 950-957).  A strategy is of one kind.                                   *)
(***************************************************************************)
LEMMA ChoiceStaysKept ==
  Switches!TypeOK /\ ChosenOK /\ [Switches!Next]_switchesVars => ChosenOK'
<1> USE SwitchesAssumption
<1> SUFFICES ASSUME Switches!TypeOK, Switches!ChoiceKept, FileKept, [Switches!Next]_switchesVars
             PROVE  Switches!ChoiceKept' /\ FileKept'
  BY DEF ChosenOK
<1>1. ASSUME NEW mode \in Switches!Modes, Switches!Start(mode) PROVE Switches!ChoiceKept'
  BY <1>1 DEF Switches!Start, Switches!ModeStrategies, Switches!ChoiceKept, Switches!Listed
<1>2. ASSUME NEW name \in Switches!Strategies, NEW mode \in Switches!Kinds \cup {""},
             Switches!Toggle(name, mode)
      PROVE  Switches!ChoiceKept'
  <2>1. CASE name \in sw_enabled
    BY <1>2, <2>1, RewriteKeeps, {} \in SUBSET Switches!Strategies,
       {name} \in SUBSET Switches!Strategies,
       (sw_enabled \cup {}) \ {name} = sw_enabled \ {name},
       (sw_chosen \cup {}) \ {name} = sw_chosen \ {name}
       DEF Switches!Toggle
  <2>2. CASE name \notin sw_enabled
    BY <1>2, <2>2, RewriteKeeps, {} \in SUBSET Switches!Strategies,
       {name} \in SUBSET Switches!Strategies,
       (sw_enabled \cup {name}) \ {} = sw_enabled \cup {name},
       (sw_chosen \cup {name}) \ {} = sw_chosen \cup {name}
       DEF Switches!Toggle
  <2> QED BY <2>1, <2>2
<1>3. ASSUME NEW on \in SUBSET Switches!Strategies, NEW off \in SUBSET Switches!Strategies,
             Switches!SetStrategies(on, off)
      PROVE  Switches!ChoiceKept'
  BY <1>3, RewriteKeeps DEF Switches!SetStrategies
<1>4. ASSUME NEW v \in Limits, Switches!SetTrading(v) PROVE Switches!ChoiceKept'
  <2>1. sw_settings' = [sw_settings EXCEPT !.limit = v]
        /\ UNCHANGED <<sw_enabled, sw_chosen, sw_hidden>>
    BY <1>4 DEF Switches!SetTrading
  <2>2. sw_settings'["scalping"] = sw_settings["scalping"]
        /\ sw_settings'["quant"] = sw_settings["quant"]
    BY <2>1 DEF Switches!TypeOK, Switches!Values
  <2> QED BY <2>1, <2>2 DEF Switches!ChoiceKept, Switches!Listed, Switches!Kinds
<1>5. ASSUME Switches!Persist PROVE Switches!ChoiceKept'
  BY <1>5 DEF Switches!Persist, Switches!Filed, Switches!ChoiceKept, Switches!Listed
<1>6. CASE Switches!Restart
  BY <1>6 DEF Switches!Restart, Switches!Loaded, Switches!ChoiceKept, Switches!Listed, FileKept
<1>7. ASSUME Switches!Stop \/ UNCHANGED switchesVars \/ \E v \in Limits : Switches!SetRisk(v)
      PROVE  Switches!ChoiceKept'
  BY <1>7 DEF Switches!Stop, Switches!SetRisk, switchesVars, Switches!ChoiceKept, Switches!Listed
<1>8. CASE ~Switches!Persist
  <2>1. UNCHANGED <<sw_file, sw_filed>>
    BY <1>8
       DEF Switches!Next, Switches!Start, Switches!Stop, Switches!Toggle, Switches!SetStrategies,
           Switches!SetTrading, Switches!SetRisk, Switches!Restart, switchesVars
  <2> QED BY <1>1, <1>2, <1>3, <1>4, <1>6, <1>7, <1>8, <2>1 DEF Switches!Next, FileKept
<1> QED BY <1>5, <1>8, PersistKeeps

SwitchesInv == Switches!TypeOK /\ ChosenOK /\ Switches!LimitsWereApplied

LEMMA SwitchesStart == Switches!Init => SwitchesInv
<1> SUFFICES ASSUME Switches!Init PROVE SwitchesInv
  OBVIOUS
<1>1. Switches!ChoiceKept
  BY SwitchesAssumption
     DEF Switches!Init, Switches!InitWith, Switches!ChoiceKept, Switches!Listed, Switches!OfKind,
         Switches!Kinds
<1>3. FileKept
  BY SwitchesAssumption
     DEF Switches!Init, Switches!InitWith, FileKept, Switches!Listed, Switches!OfKind,
         Switches!Kinds
<1>2. Switches!LimitsWereApplied
  BY DEF Switches!Init, Switches!InitWith, Switches!LimitsWereApplied
<1> QED BY <1>1, <1>2, <1>3, SwitchesTyped DEF SwitchesInv, ChosenOK

LEMMA SwitchesSteps == SwitchesInv /\ [Switches!Next]_switchesVars => SwitchesInv'
BY SwitchesTypesKept, ChoiceStaysKept, LimitsStayApplied DEF SwitchesInv

-----------------------------------------------------------------------------
(***************************************************************************)
(* CandleStore: what the stored bars say, and which of them the strategies *)
(* are given.                                                              *)
(***************************************************************************)
\* q is the stored bars of s up to time k, oldest first
RowsOf(q, s, k) ==
  /\ q \in Seq(Nat)
  /\ \A i \in 1 .. Len(q) : q[i] \in 1 .. k /\ candles_bars[s][q[i]] # 0
  /\ \A i, j \in 1 .. Len(q) : i < j => q[i] < q[j]
  /\ \A t \in 1 .. k : candles_bars[s][t] # 0 => \E i \in 1 .. Len(q) : q[i] = t

LEMMA RowsStart == ASSUME NEW s PROVE RowsOf(<<>>, s, 0)
BY 1 .. 0 = {}, Len(<<>>) = 0 DEF RowsOf

LEMMA RowsGrow ==
  ASSUME NEW s, NEW k \in Nat, NEW q, RowsOf(q, s, k)
  PROVE  RowsOf(IF candles_bars[s][k + 1] # 0 THEN Append(q, k + 1) ELSE q, s, k + 1)
<1>a. q \in Seq(Nat) /\ Len(q) \in Nat
  BY DEF RowsOf
<1>0. /\ q \in Seq(Nat) /\ Len(q) \in Nat
      /\ \A i \in 1 .. Len(q) : q[i] \in 1 .. k /\ candles_bars[s][q[i]] # 0
      /\ \A i, j \in 1 .. Len(q) : i < j => q[i] < q[j]
      /\ \A t \in 1 .. k : candles_bars[s][t] # 0 => \E i \in 1 .. Len(q) : q[i] = t
  BY <1>a, Zenon DEF RowsOf
<1>1. CASE candles_bars[s][k + 1] = 0
  <2>1. \A i \in 1 .. Len(q) : q[i] \in 1 .. k + 1
    BY <1>0
  <2>2. \A t \in 1 .. k + 1 : candles_bars[s][t] # 0 => t \in 1 .. k
    BY <1>1
  <2>3. RowsOf(q, s, k + 1)
    BY <1>0, <2>1, <2>2 DEF RowsOf
  <2> QED BY <1>1, <2>3
<1>2. CASE candles_bars[s][k + 1] # 0
  <2> DEFINE r == Append(q, k + 1)
      n == Len(q)
  <2>1. /\ r \in Seq(Nat) /\ Len(r) = n + 1 /\ r[n + 1] = k + 1
        /\ \A i \in 1 .. n : r[i] = q[i]
    BY <1>0
  <2>2. \A i \in 1 .. n + 1 : i \in 1 .. n \/ i = n + 1
    BY <1>0
  <2>3. \A i \in 1 .. n : i \in 1 .. n + 1 /\ q[i] \in 1 .. k + 1 /\ q[i] < k + 1
    BY <1>0
  <2> HIDE DEF r
  <2>4. ASSUME NEW i \in 1 .. n + 1 PROVE r[i] \in 1 .. k + 1 /\ candles_bars[s][r[i]] # 0
    <3>1. CASE i \in 1 .. n
      BY <1>0, <2>1, <2>3, <3>1
    <3>2. CASE i = n + 1
      BY <1>2, <2>1, <3>2
    <3> QED BY <2>2, <3>1, <3>2
  <2>5. ASSUME NEW i \in 1 .. n + 1, NEW j \in 1 .. n + 1, i < j PROVE r[i] < r[j]
    <3>1. i \in 1 .. n
      BY <1>0, <2>5
    <3>2. CASE j \in 1 .. n
      BY <1>0, <2>1, <2>5, <3>1, <3>2
    <3>3. CASE j = n + 1
      BY <2>1, <2>3, <3>1, <3>3
    <3> QED BY <2>2, <3>2, <3>3
  <2>6. ASSUME NEW t \in 1 .. k + 1, candles_bars[s][t] # 0 PROVE \E i \in 1 .. n + 1 : r[i] = t
    <3>1. CASE t = k + 1
      <4>1. n + 1 \in 1 .. n + 1
        BY <1>0
      <4> QED BY <2>1, <3>1, <4>1
    <3>2. CASE t \in 1 .. k
      <4>1. PICK i \in 1 .. n : q[i] = t
        BY <1>0, <2>6, <3>2
      <4> QED BY <2>1, <2>3, <4>1
    <3> QED BY <3>1, <3>2
  <2>7. RowsOf(r, s, k + 1)
    BY <2>1, <2>4, <2>5, <2>6 DEF RowsOf
  <2> QED BY <1>2, <2>7 DEF r
<1> QED BY <1>1, <1>2

\* what the recursive function of StoredRows is made of
RowsStep(f, s, n) ==
  [t \in 0 .. n |-> IF t = 0 THEN <<>>
                    ELSE IF candles_bars[s][t] # 0 THEN Append(f[t - 1], t) ELSE f[t - 1]]

LEMMA RowsExist == ASSUME NEW s, NEW n \in Nat PROVE \E f : f = RowsStep(f, s, n)
<1> DEFINE P(k) == \E f : f = RowsStep(f, s, k)
<1>1. P(0)
  <2> DEFINE f == [t \in 0 .. 0 |-> <<>>]
  <2>1. \A t \in 0 .. 0 : t = 0
    OBVIOUS
  <2>2. f = RowsStep(f, s, 0)
    BY <2>1 DEF RowsStep
  <2> QED BY <2>2
<1>2. ASSUME NEW k \in Nat, P(k) PROVE P(k + 1)
  <2>1. PICK f : f = RowsStep(f, s, k)
    BY <1>2
  <2> DEFINE last == IF candles_bars[s][k + 1] # 0 THEN Append(f[k], k + 1) ELSE f[k]
      g == [t \in 0 .. k + 1 |-> IF t = k + 1 THEN last ELSE f[t]]
  <2>2. \A t \in 0 .. k : f[t] = IF t = 0 THEN <<>>
                                 ELSE IF candles_bars[s][t] # 0 THEN Append(f[t - 1], t)
                                 ELSE f[t - 1]
    BY <2>1 DEF RowsStep
  <2>3. g[k + 1] = last /\ \A t \in 0 .. k : g[t] = f[t]
    <3> HIDE DEF last
    <3> QED OBVIOUS
  <2>4. ASSUME NEW t \in 0 .. k + 1
        PROVE  g[t] = IF t = 0 THEN <<>>
                      ELSE IF candles_bars[s][t] # 0 THEN Append(g[t - 1], t) ELSE g[t - 1]
    <3>1. CASE t = k + 1
      <4>1. k \in 0 .. k /\ t # 0 /\ t - 1 = k
        BY <3>1
      <4>2. g[k] = f[k] /\ g[k + 1] = last
        BY <2>3, <4>1
      <4> HIDE DEF g
      <4> QED BY <3>1, <4>1, <4>2
    <3>2. CASE t \in 0 .. k
      <4>1. g[t] = f[t] /\ (t # 0 => t - 1 \in 0 .. k)
        BY <2>3, <3>2
      <4>2. t # 0 => g[t - 1] = f[t - 1]
        BY <2>3, <4>1
      <4> HIDE DEF g
      <4> QED BY <2>2, <3>2, <4>1, <4>2
    <3> QED BY <3>1, <3>2
  <2>5. g = RowsStep(g, s, k + 1)
    BY <2>4 DEF RowsStep
  <2> HIDE DEF g
  <2> QED BY <2>5
<1>3. P(n)
  <2> HIDE DEF P
  <2> DEFINE S == {k \in Nat : P(k)}
  <2>1. 0 \in S /\ \A k \in Nat : k \in S => k + 1 \in S
    BY <1>1, <1>2
  <2>2. \A k \in Nat : k \in S
    <3> HIDE DEF S
    <3> QED BY <2>1, NatByInduction
  <2> QED BY <2>2
<1> QED BY <1>3

LEMMA StoredRowsAre == ASSUME NEW s PROVE RowsOf(Candles!StoredRows(s), s, StoreTime)
<1> DEFINE Body(g) == RowsStep(g, s, StoreTime)
    f == CHOOSE g : g = Body(g)
<1>0. StoreTime \in Nat
  BY CandlesAssumption
<1>1. Candles!StoredRows(s) = f[StoreTime]
  BY DEF Candles!StoredRows, RowsStep
<1>2. \E g : g = Body(g)
  BY <1>0, RowsExist
<1>3. f = Body(f)
  BY <1>2
<1> HIDE DEF f
<1> DEFINE P(k) == k <= StoreTime => RowsOf(f[k], s, k)
<1>4. P(0)
  <2>1. f[0] = <<>>
    BY <1>0, <1>3 DEF RowsStep
  <2> QED BY <2>1, RowsStart
<1>5. ASSUME NEW k \in Nat, P(k) PROVE P(k + 1)
  <2> SUFFICES ASSUME k + 1 <= StoreTime PROVE RowsOf(f[k + 1], s, k + 1)
    OBVIOUS
  <2>1. RowsOf(f[k], s, k)
    BY <1>0, <1>5
  <2>2. k + 1 \in 0 .. StoreTime /\ k + 1 # 0 /\ (k + 1) - 1 = k
    BY <1>0
  <2>3. Body(f)[k + 1] = IF candles_bars[s][k + 1] # 0 THEN Append(f[k], k + 1) ELSE f[k]
    BY <2>2 DEF RowsStep
  <2>4. f[k + 1] = IF candles_bars[s][k + 1] # 0 THEN Append(f[k], k + 1) ELSE f[k]
    <3> HIDE DEF Body
    <3> QED BY <1>3, <2>3
  <2> QED BY <2>1, <2>4, RowsGrow
<1>6. P(StoreTime)
  <2> HIDE DEF P
  <2> DEFINE S == {k \in Nat : P(k)}
  <2>1. 0 \in S /\ \A k \in Nat : k \in S => k + 1 \in S
    BY <1>4, <1>5
  <2>2. \A k \in Nat : k \in S
    <3> HIDE DEF S
    <3> QED BY <2>1, NatByInduction
  <2> QED BY <1>0, <2>2
<1> QED BY <1>0, <1>1, <1>6

LEMMA CandlesGiven ==
  ASSUME NEW s, NEW limit \in Nat \ {0}, NEW got, got = Candles!GetCandles(s, limit)
  PROVE  /\ Len(got) <= limit
         /\ \A i, j \in DOMAIN got : i < j => got[i] < got[j]
         /\ \A t \in 1 .. StoreTime : candles_bars[s][t] # 0 =>
              (\E i \in DOMAIN got : got[i] = t) \/ (Len(got) = limit /\ t < got[1])
<1> DEFINE rows == Candles!StoredRows(s)
<1>1. RowsOf(rows, s, StoreTime)
  BY StoredRowsAre
<1>2. PICK q \in Seq(Nat) : q = rows
  BY <1>1 DEF RowsOf
<1> DEFINE n == Len(q)
    from == IF limit < n THEN n - limit + 1 ELSE 1
<1>3. n \in Nat /\ from \in Nat \ {0} /\ from <= n + 1
  OBVIOUS
<1>4. got = SubSeq(q, from, n)
  BY <1>2 DEF Candles!GetCandles
<1> HIDE DEF rows, from
<1>5. /\ Len(got) = n - from + 1 /\ DOMAIN got = 1 .. n - from + 1
      /\ \A i \in 1 .. n - from + 1 : got[i] = q[from + i - 1]
  BY <1>3, <1>4
<1>6. \A i, j \in 1 .. n : i < j => q[i] < q[j]
  BY <1>1, <1>2 DEF RowsOf
<1>7. \A i \in 1 .. n - from + 1 : from + i - 1 \in 1 .. n
  BY <1>3
<1>8. Len(got) <= limit
  BY <1>3, <1>5 DEF from
<1>9. ASSUME NEW i \in DOMAIN got, NEW j \in DOMAIN got, i < j PROVE got[i] < got[j]
  <2>1. i \in 1 .. n - from + 1 /\ j \in 1 .. n - from + 1
    BY <1>5
  <2>2. got[i] = q[from + i - 1] /\ got[j] = q[from + j - 1]
    BY <1>5, <2>1
  <2>3. from + i - 1 \in 1 .. n /\ from + j - 1 \in 1 .. n /\ from + i - 1 < from + j - 1
    BY <1>3, <1>7, <1>9, <2>1
  <2> HIDE DEF n
  <2> QED BY <1>6, <2>2, <2>3
<1>10. ASSUME NEW t \in 1 .. StoreTime, candles_bars[s][t] # 0
       PROVE  (\E i \in DOMAIN got : got[i] = t) \/ (Len(got) = limit /\ t < got[1])
  <2>1. PICK k \in 1 .. n : q[k] = t
    BY <1>1, <1>2, <1>10 DEF RowsOf
  <2>2. CASE from <= k
    <3>1. k - from + 1 \in 1 .. n - from + 1 /\ from + (k - from + 1) - 1 = k
      BY <1>3, <2>2
    <3>2. got[k - from + 1] = q[k]
      BY <1>5, <3>1
    <3> QED BY <1>5, <2>1, <3>1, <3>2
  <2>3. CASE k < from
    <3>1. limit < n /\ from = n - limit + 1
      BY <1>3, <2>3 DEF from
    <3>2. Len(got) = limit /\ 1 \in 1 .. n - from + 1 /\ from + 1 - 1 = from /\ from \in 1 .. n
      BY <1>3, <1>5, <3>1
    <3>3. got[1] = q[from]
      BY <1>5, <3>2
    <3>4. q[k] < q[from]
      BY <1>6, <2>3, <3>2
    <3> QED BY <2>1, <3>2, <3>3, <3>4
  <2> QED BY <1>3, <2>2, <2>3
<1> QED BY <1>8, <1>9, <1>10

-----------------------------------------------------------------------------
\* the stored bar of t is that of the earliest answer with t
EarliestAnswer(s, t) ==
  /\ candles_bars[s][t] = 0 => \A a \in candles_answers[s] : a[2] # t
  /\ candles_bars[s][t] # 0 =>
       /\ \E a \in candles_answers[s] : a[2] = t /\ a[1] = candles_bars[s][t]
       /\ \A a \in candles_answers[s] : a[2] = t => candles_bars[s][t] <= a[1]

CandlesInv ==
  /\ Candles!TypeOK
  /\ candles_answers = [s \in Symbols |-> candles_answers[s]]
  /\ \A s \in Symbols :
       /\ \A a \in candles_answers[s] : a[1] \in 1 .. candles_now
       /\ \A t \in 1 .. StoreTime : EarliestAnswer(s, t)

LEMMA CandlesStart == Candles!Init => CandlesInv
<1> SUFFICES ASSUME Candles!Init PROVE CandlesInv
  OBVIOUS
<1>1. PICK which \in {"daily", "minute"} : Candles!InitWith(which)
  BY DEF Candles!Init
<1>2. Candles!TypeOK
  BY <1>1, CandlesAssumption DEF Candles!InitWith, Candles!TypeOK, Candles!Times
<1>3. \A s \in Symbols : candles_answers[s] = {}
  BY <1>1 DEF Candles!InitWith
<1>4. candles_answers = [s \in Symbols |-> candles_answers[s]]
  BY <1>1 DEF Candles!InitWith
<1>5. \A s \in Symbols, t \in 1 .. StoreTime : candles_bars[s][t] = 0
  BY <1>1 DEF Candles!InitWith, Candles!Times
<1> QED BY <1>2, <1>3, <1>4, <1>5 DEF CandlesInv, EarliestAnswer

\* answers read now change nothing that is stored
LEMMA StoredKeeps ==
  ASSUME CandlesInv, NEW got, Candles!Stored(got), UNCHANGED <<candles_table, candles_now>>
  PROVE  CandlesInv'
<1>0. candles_now \in 1 .. StoreTime /\ StoreTime \in Nat
  BY CandlesAssumption DEF CandlesInv, Candles!TypeOK, Candles!Times
<1>1. \A s \in Symbols, t \in 1 .. StoreTime :
        /\ candles_bars[s][t] \in 0 .. StoreTime
        /\ candles_bars'[s][t] =
             IF t \in got[s] /\ candles_bars[s][t] = 0 THEN candles_now ELSE candles_bars[s][t]
  BY DEF Candles!Stored, Candles!Times, CandlesInv, Candles!TypeOK
<1>2. Candles!TypeOK'
  <2>1. candles_bars' = [s \in Symbols |-> [t \in 1 .. StoreTime |->
          IF t \in got[s] /\ candles_bars[s][t] = 0 THEN candles_now ELSE candles_bars[s][t]]]
    BY DEF Candles!Stored, Candles!Times
  <2>2. candles_bars' \in [Symbols -> [1 .. StoreTime -> 0 .. StoreTime]]
    BY <1>0, <1>1, <2>1
  <2> QED BY <2>2 DEF CandlesInv, Candles!TypeOK, Candles!Times
<1>3. \A s \in Symbols :
        candles_answers'[s] = candles_answers[s] \cup {<<candles_now, t>> : t \in got[s]}
  BY DEF Candles!Stored
<1>4. candles_answers' = [s \in Symbols |-> candles_answers'[s]]
  BY <1>3 DEF Candles!Stored
<1>5. ASSUME NEW s \in Symbols PROVE \A a \in candles_answers'[s] : a[1] \in 1 .. candles_now'
  BY <1>0, <1>3 DEF CandlesInv
<1>6. ASSUME NEW s \in Symbols, NEW t \in 1 .. StoreTime PROVE EarliestAnswer(s, t)'
  <2> DEFINE old == candles_answers[s]
      new == candles_answers'[s]
      b == candles_bars[s][t]
  <2>1. EarliestAnswer(s, t) /\ \A a \in old : a[1] \in 1 .. candles_now
    BY DEF CandlesInv
  <2>2. \A a \in new : a \in old \/ \E u \in got[s] : a = <<candles_now, u>>
    BY <1>3
  <2>3. old \subseteq new /\ (t \in got[s] => <<candles_now, t>> \in new)
    BY <1>3
  <2>4. b \in 0 .. StoreTime
    BY <1>1
  <2>5. CASE b # 0
    <3>1. candles_bars'[s][t] = b
      BY <1>1, <2>5
    <3>2. PICK a \in old : a[2] = t /\ a[1] = b
      BY <2>1, <2>5 DEF EarliestAnswer
    <3>3. b <= candles_now
      BY <1>0, <2>1, <3>2
    <3>4. \A x \in new : x[2] = t => b <= x[1]
      <4> SUFFICES ASSUME NEW x \in new, x[2] = t PROVE b <= x[1]
        OBVIOUS
      <4>1. CASE x \in old
        BY <2>1, <2>5, <4>1 DEF EarliestAnswer
      <4>2. CASE \E u \in got[s] : x = <<candles_now, u>>
        BY <3>3, <4>2
      <4> QED BY <2>2, <4>1, <4>2
    <3>5. a \in new
      BY <2>3
    <3> HIDE DEF new, b
    <3>6. \E x \in new : x[2] = t /\ x[1] = b
      BY <3>2, <3>5
    <3> QED BY <2>5, <3>1, <3>4, <3>6 DEF EarliestAnswer, new
  <2>6. CASE b = 0 /\ t \in got[s]
    <3>1. candles_bars'[s][t] = candles_now /\ candles_now # 0
      BY <1>0, <1>1, <2>6
    <3>2. \A x \in old : x[2] # t
      BY <2>1, <2>6 DEF EarliestAnswer
    <3>3. \A x \in new : x[2] = t => candles_now <= x[1]
      <4> SUFFICES ASSUME NEW x \in new, x[2] = t PROVE candles_now <= x[1]
        OBVIOUS
      <4>1. PICK u \in got[s] : x = <<candles_now, u>>
        BY <2>2, <3>2
      <4> QED BY <1>0, <4>1
    <3>4. <<candles_now, t>> \in new /\ <<candles_now, t>>[2] = t
          /\ <<candles_now, t>>[1] = candles_now
      BY <2>3, <2>6
    <3> HIDE DEF new
    <3>5. \E x \in new : x[2] = t /\ x[1] = candles_now
      BY <3>4
    <3> QED BY <3>1, <3>3, <3>5 DEF EarliestAnswer, new
  <2>7. CASE b = 0 /\ t \notin got[s]
    <3>1. candles_bars'[s][t] = 0
      BY <1>1, <2>7
    <3>2. \A x \in old : x[2] # t
      BY <2>1, <2>7 DEF EarliestAnswer
    <3>3. \A x \in new : x[2] # t
      <4> SUFFICES ASSUME NEW x \in new PROVE x[2] # t
        OBVIOUS
      <4>1. CASE \E u \in got[s] : x = <<candles_now, u>>
        BY <2>7, <4>1
      <4> QED BY <2>2, <3>2, <4>1
    <3> QED BY <3>1, <3>3 DEF EarliestAnswer
  <2> QED BY <2>5, <2>6, <2>7
<1> QED BY <1>2, <1>4, <1>5, <1>6 DEF CandlesInv

LEMMA CandlesSteps == CandlesInv /\ Candles!Next => CandlesInv'
<1> SUFFICES ASSUME CandlesInv, Candles!Next PROVE CandlesInv'
  OBVIOUS
<1>1. CASE Candles!BulkFetch
  BY <1>1, StoredKeeps DEF Candles!BulkFetch
<1>2. ASSUME NEW s \in Symbols, Candles!FetchMinutes(s) PROVE CandlesInv'
  BY <1>2, StoredKeeps DEF Candles!FetchMinutes
<1>3. CASE Candles!Tick
  <2>1. candles_now' \in 1 .. StoreTime /\ candles_now \in 1 .. StoreTime
        /\ candles_now' = candles_now + 1
    BY <1>3, CandlesAssumption DEF Candles!Tick, CandlesInv, Candles!TypeOK, Candles!Times
  <2>2. UNCHANGED <<candles_table, candles_bars, candles_answers>>
    BY <1>3 DEF Candles!Tick
  <2>3. \A s \in Symbols : \A a \in candles_answers[s] : a[1] \in 1 .. candles_now'
    BY <2>1 DEF CandlesInv
  <2> QED BY <2>1, <2>2, <2>3
          DEF CandlesInv, EarliestAnswer, Candles!TypeOK, Candles!Times
<1> QED BY <1>1, <1>2, <1>3 DEF Candles!Next

LEMMA CandlesMean == CandlesInv => Candles!FirstAnswerStays
<1> SUFFICES ASSUME CandlesInv, NEW s \in Symbols
             PROVE  /\ \A t \in 1 .. StoreTime :
                         LET whens == {a[1] : a \in {p \in candles_answers[s] : p[2] = t}}
                         IN candles_bars[s][t] = IF whens = {} THEN 0 ELSE Candles!Min(whens)
                    /\ \A limit \in 1 .. StoreTime :
                         LET got == Candles!GetCandles(s, limit)
                         IN /\ Len(got) <= limit
                            /\ \A i, j \in DOMAIN got : i < j => got[i] < got[j]
                            /\ \A t \in 1 .. StoreTime : candles_bars[s][t] # 0 =>
                                 \/ \E i \in DOMAIN got : got[i] = t
                                 \/ Len(got) = limit /\ t < got[1]
  BY DEF Candles!FirstAnswerStays, Candles!Times
<1>1. ASSUME NEW t \in 1 .. StoreTime,
             NEW whens, whens = {a[1] : a \in {p \in candles_answers[s] : p[2] = t}}
      PROVE  candles_bars[s][t] = IF whens = {} THEN 0 ELSE Candles!Min(whens)
  <2> DEFINE b == candles_bars[s][t]
  <2>1. EarliestAnswer(s, t) /\ \A a \in candles_answers[s] : a[1] \in 1 .. candles_now
    BY DEF CandlesInv
  <2>2. /\ \A w \in whens : \E a \in candles_answers[s] : a[2] = t /\ w = a[1]
        /\ \A a \in candles_answers[s] : a[2] = t => a[1] \in whens
    BY <1>1
  <2>3. CASE b = 0
    BY <2>1, <2>2, <2>3 DEF EarliestAnswer
  <2>4. CASE b # 0
    <3>1. b \in whens /\ \A w \in whens : b <= w
      BY <2>1, <2>2, <2>4 DEF EarliestAnswer
    <3>2. \A w \in whens : w \in Int
      BY <2>1, <2>2
    <3> HIDE DEF b
    <3>3. \E x \in whens : \A y \in whens : x <= y
      BY <3>1
    <3>4. Candles!Min(whens) \in whens /\ \A y \in whens : Candles!Min(whens) <= y
      BY <3>3 DEF Candles!Min
    <3>5. b = Candles!Min(whens)
      <4>1. Candles!Min(whens) \in Int /\ b \in Int
        BY <3>1, <3>2, <3>4
      <4>2. Candles!Min(whens) <= b /\ b <= Candles!Min(whens)
        BY <3>1, <3>4
      <4> QED BY <4>1, <4>2
    <3> QED BY <3>1, <3>5 DEF b
  <2> QED BY <2>3, <2>4
<1>2. ASSUME NEW limit \in 1 .. StoreTime, NEW got, got = Candles!GetCandles(s, limit)
      PROVE  /\ Len(got) <= limit
             /\ \A i, j \in DOMAIN got : i < j => got[i] < got[j]
             /\ \A t \in 1 .. StoreTime : candles_bars[s][t] # 0 =>
                  \/ \E i \in DOMAIN got : got[i] = t
                  \/ Len(got) = limit /\ t < got[1]
  <2>1. limit \in Nat \ {0}
    BY CandlesAssumption
  <2> QED BY <1>2, <2>1, CandlesGiven
<1> QED BY <1>1, <1>2

-----------------------------------------------------------------------------
(***************************************************************************)
(* BacktestAccount: the order history.  Every sale of a symbol sells what  *)
(* the last purchase of that symbol bought.                                *)
(***************************************************************************)
AccSymbols == {q.symbol : q \in Quotes}
OrderRecords == [symbol : AccSymbols, side : {"buy", "sell"}, price : Nat,
                 quantity : Nat \ {0}, filled : BOOLEAN]

FilledIn(h, side) == {i \in DOMAIN h : h[i].side = side /\ h[i].filled}
UpTo(h, side, s, k) == {i \in FilledIn(h, side) : i <= k /\ h[i].symbol = s}

\* j is the last purchase of its symbol before the sale i, and as many were
\* bought until j as are sold until i
SoldFrom(h, i, j) ==
  /\ j \in FilledIn(h, "buy") /\ j < i /\ h[j].symbol = h[i].symbol
  /\ \A k \in FilledIn(h, "buy") : h[k].symbol = h[i].symbol /\ k < i => k <= j
  /\ Cardinality(UpTo(h, "buy", h[i].symbol, j)) = Cardinality(UpTo(h, "sell", h[i].symbol, i))

Paired(h) == \A i \in FilledIn(h, "sell") : \E j : SoldFrom(h, i, j)

BoughtIn(h, i) ==
  CHOOSE j \in FilledIn(h, "buy") :
    /\ h[j].symbol = h[i].symbol
    /\ Cardinality(UpTo(h, "buy", h[i].symbol, j)) = Cardinality(UpTo(h, "sell", h[i].symbol, i))

GainIn(h, i) == (h[i].price - h[BoughtIn(h, i)].price) * h[i].quantity
GainsOf(h) == [i \in FilledIn(h, "sell") |-> GainIn(h, i)]
GainTotal(h) == Total(GainsOf(h), FilledIn(h, "sell"))

LEMMA FilledFinite ==
  ASSUME NEW h \in Seq(OrderRecords), NEW side
  PROVE  /\ FilledIn(h, side) \subseteq 1 .. Len(h) /\ IsFiniteSet(FilledIn(h, side))
         /\ Cardinality(FilledIn(h, side)) \in Nat
         /\ \A s, k : IsFiniteSet(UpTo(h, side, s, k)) /\ Cardinality(UpTo(h, side, s, k)) \in Nat
<1>1. Len(h) \in Nat /\ DOMAIN h = 1 .. Len(h)
  OBVIOUS
<1>2. IsFiniteSet(1 .. Len(h))
  BY <1>1, FS_Interval
<1>3. FilledIn(h, side) \in SUBSET (1 .. Len(h))
  BY <1>1 DEF FilledIn
<1>4. IsFiniteSet(FilledIn(h, side))
  BY <1>2, <1>3, FS_Subset
<1>5. ASSUME NEW s, NEW k
      PROVE  IsFiniteSet(UpTo(h, side, s, k)) /\ Cardinality(UpTo(h, side, s, k)) \in Nat
  <2>1. UpTo(h, side, s, k) \in SUBSET FilledIn(h, side)
    BY DEF UpTo
  <2>2. IsFiniteSet(UpTo(h, side, s, k))
    BY <1>4, <2>1, FS_Subset
  <2> QED BY <2>2, FS_CardinalityType
<1> QED BY <1>3, <1>4, <1>5, FS_CardinalityType

\* one order more
LEMMA OrderAppended ==
  ASSUME NEW h \in Seq(OrderRecords), NEW e \in OrderRecords
  PROVE  /\ Append(h, e) \in Seq(OrderRecords) /\ Len(h) \in Nat
         /\ Len(Append(h, e)) = Len(h) + 1 /\ DOMAIN Append(h, e) = 1 .. Len(h) + 1
         /\ Append(h, e)[Len(h) + 1] = e /\ \A i \in 1 .. Len(h) : Append(h, e)[i] = h[i]
OBVIOUS

LEMMA FilledAppended ==
  ASSUME NEW h \in Seq(OrderRecords), NEW e \in OrderRecords, NEW side
  PROVE  /\ FilledIn(Append(h, e), side)
              = FilledIn(h, side) \cup (IF e.side = side /\ e.filled THEN {Len(h) + 1} ELSE {})
         /\ Len(h) + 1 \notin FilledIn(h, side)
<1> DEFINE n == Len(h)
    g == Append(h, e)
<1>1. n \in Nat /\ DOMAIN h = 1 .. n /\ DOMAIN g = 1 .. n + 1
      /\ g[n + 1] = e /\ \A i \in 1 .. n : g[i] = h[i]
  BY OrderAppended
<1>2. 1 .. n + 1 = (1 .. n) \cup {n + 1} /\ n + 1 \notin 1 .. n
  BY <1>1
<1> HIDE DEF n, g
<1>3. \A i : i \in FilledIn(g, side) <=>
        i \in FilledIn(h, side) \/ (i = n + 1 /\ e.side = side /\ e.filled)
  BY <1>1, <1>2 DEF FilledIn
<1>4. n + 1 \notin FilledIn(h, side)
  BY <1>1, <1>2 DEF FilledIn
<1>5. FilledIn(g, side)
        = FilledIn(h, side) \cup (IF e.side = side /\ e.filled THEN {n + 1} ELSE {})
  BY <1>3
<1> QED BY <1>4, <1>5 DEF n, g

LEMMA UpToAppended ==
  ASSUME NEW h \in Seq(OrderRecords), NEW e \in OrderRecords, NEW side, NEW s
  PROVE  /\ \A k \in 0 .. Len(h) : UpTo(Append(h, e), side, s, k) = UpTo(h, side, s, k)
         /\ Cardinality(UpTo(Append(h, e), side, s, Len(h) + 1))
              = Cardinality(UpTo(h, side, s, Len(h)))
                + (IF e.side = side /\ e.filled /\ e.symbol = s THEN 1 ELSE 0)
<1> DEFINE n == Len(h)
    g == Append(h, e)
    more == e.side = side /\ e.filled /\ e.symbol = s
<1>1. n \in Nat /\ g[n + 1] = e /\ \A i \in 1 .. n : g[i] = h[i]
  BY OrderAppended
<1>2. FilledIn(g, side)
        = FilledIn(h, side) \cup (IF e.side = side /\ e.filled THEN {n + 1} ELSE {})
  BY FilledAppended
<1>3. FilledIn(h, side) \subseteq 1 .. n
  BY FilledFinite
<1>4. IsFiniteSet(UpTo(h, side, s, n)) /\ Cardinality(UpTo(h, side, s, n)) \in Nat
  BY FilledFinite
<1> HIDE DEF n, g
<1>5. ASSUME NEW k \in 0 .. n PROVE UpTo(g, side, s, k) = UpTo(h, side, s, k)
  BY <1>1, <1>2, <1>3 DEF UpTo
<1>6. UpTo(g, side, s, n + 1) = UpTo(h, side, s, n) \cup (IF more THEN {n + 1} ELSE {})
  <2>1. \A i \in 1 .. n : i <= n + 1 /\ i <= n
    BY <1>1
  <2>2. \A i : i \in UpTo(g, side, s, n + 1) <=> i \in UpTo(h, side, s, n) \/ (more /\ i = n + 1)
    BY <1>1, <1>2, <1>3, <2>1 DEF UpTo
  <2> QED BY <2>2
<1>7. n + 1 \notin UpTo(h, side, s, n)
  BY <1>1 DEF UpTo
<1>8. Cardinality(UpTo(g, side, s, n + 1))
        = Cardinality(UpTo(h, side, s, n)) + (IF more THEN 1 ELSE 0)
  <2>1. CASE more
    <3>1. UpTo(g, side, s, n + 1) = UpTo(h, side, s, n) \cup {n + 1}
      BY <1>6, <2>1
    <3>2. Cardinality(UpTo(g, side, s, n + 1)) = Cardinality(UpTo(h, side, s, n)) + 1
      BY <1>4, <1>7, <3>1, FS_AddElement
    <3> QED BY <2>1, <3>2
  <2>2. CASE ~more
    <3>1. UpTo(g, side, s, n + 1) = UpTo(h, side, s, n)
      BY <1>6, <2>2
    <3> QED BY <1>4, <2>2, <3>1
  <2> QED BY <2>1, <2>2
<1> QED BY <1>5, <1>8 DEF n, g

\* the purchase that a sale sold is no other than that
LEMMA BoughtIs ==
  ASSUME NEW h \in Seq(OrderRecords), NEW i, NEW j, SoldFrom(h, i, j)
  PROVE  BoughtIn(h, i) = j
<1> DEFINE s == h[i].symbol
    sold == Cardinality(UpTo(h, "sell", s, i))
    Fits(k) == k \in FilledIn(h, "buy") /\ h[k].symbol = s
               /\ Cardinality(UpTo(h, "buy", s, k)) = sold
<1>1. Fits(j)
  BY DEF SoldFrom
<1>2. FilledIn(h, "buy") \subseteq Nat
  BY FilledFinite
<1>3. ASSUME NEW a \in FilledIn(h, "buy"), NEW b \in FilledIn(h, "buy"), a < b, Fits(a), Fits(b)
      PROVE  FALSE
  <2>1. UpTo(h, "buy", s, a) \in SUBSET UpTo(h, "buy", s, b)
    BY <1>2, <1>3 DEF UpTo
  <2>2. b \in UpTo(h, "buy", s, b) /\ b \notin UpTo(h, "buy", s, a)
    BY <1>2, <1>3 DEF UpTo
  <2>3. IsFiniteSet(UpTo(h, "buy", s, b))
    BY FilledFinite
  <2>4. UpTo(h, "buy", s, b) = UpTo(h, "buy", s, a)
    BY <1>3, <2>1, <2>3, FS_Subset
  <2> QED BY <2>2, <2>4
<1>4. \A k : Fits(k) => k = j
  <2> SUFFICES ASSUME NEW k, Fits(k), k # j PROVE FALSE
    OBVIOUS
  <2>1. k \in Nat /\ j \in Nat
    BY <1>1, <1>2
  <2>2. k < j \/ j < k
    BY <2>1
  <2> HIDE DEF s, sold
  <2> QED BY <1>1, <1>3, <2>2
<1>5. BoughtIn(h, i) = CHOOSE k \in FilledIn(h, "buy") : Fits(k)
  BY DEF BoughtIn
<1> HIDE DEF s, sold
<1> QED BY <1>1, <1>4, <1>5

\* what is paired stays so
LEMMA SoldFromStays ==
  ASSUME NEW h \in Seq(OrderRecords), NEW e \in OrderRecords,
         NEW i \in FilledIn(h, "sell"), NEW j, SoldFrom(h, i, j)
  PROVE  SoldFrom(Append(h, e), i, j)
<1> DEFINE n == Len(h)
    g == Append(h, e)
<1>1. n \in Nat /\ g \in Seq(OrderRecords) /\ \A k \in 1 .. n : g[k] = h[k]
  BY OrderAppended
<1>2. i \in 1 .. n /\ FilledIn(h, "buy") \subseteq 1 .. n
  BY FilledFinite
<1>3. j \in 1 .. n
  BY <1>2 DEF SoldFrom
<1>4. g[i] = h[i] /\ g[j] = h[j]
  BY <1>1, <1>2, <1>3
<1>5. \A k : k \in FilledIn(g, "buy") => k \in FilledIn(h, "buy") \/ k = n + 1
  BY FilledAppended
<1>6. j \in FilledIn(g, "buy")
  BY FilledAppended DEF SoldFrom
<1>7. UpTo(g, "buy", h[i].symbol, j) = UpTo(h, "buy", h[i].symbol, j)
      /\ UpTo(g, "sell", h[i].symbol, i) = UpTo(h, "sell", h[i].symbol, i)
  <2>1. i \in 0 .. n /\ j \in 0 .. n
    BY <1>1, <1>2, <1>3
  <2> QED BY <2>1, UpToAppended
<1> HIDE DEF n, g
<1>8. \A k \in FilledIn(g, "buy") : g[k].symbol = g[i].symbol /\ k < i => k <= j
  <2> SUFFICES ASSUME NEW k \in FilledIn(g, "buy"), g[k].symbol = g[i].symbol, k < i PROVE k <= j
    OBVIOUS
  <2>1. k # n + 1
    BY <1>1, <1>2
  <2>2. k \in FilledIn(h, "buy") /\ k \in 1 .. n
    BY <1>2, <1>5, <2>1
  <2> QED BY <1>1, <1>4, <2>2 DEF SoldFrom
<1>9. SoldFrom(g, i, j)
  BY <1>4, <1>6, <1>7, <1>8 DEF SoldFrom
<1> QED BY <1>9 DEF g

LEMMA GainTypes ==
  ASSUME NEW h \in Seq(OrderRecords), Paired(h), NEW i \in FilledIn(h, "sell")
  PROVE  GainIn(h, i) \in Int
<1>1. PICK j : SoldFrom(h, i, j)
  BY DEF Paired
<1>2. BoughtIn(h, i) = j
  BY <1>1, BoughtIs
<1>3. i \in 1 .. Len(h) /\ j \in 1 .. Len(h)
  BY <1>1, FilledFinite DEF SoldFrom
<1>4. h[i] \in OrderRecords /\ h[j] \in OrderRecords
  BY <1>3
<1> QED BY <1>2, <1>4 DEF GainIn, OrderRecords

LEMMA GainStays ==
  ASSUME NEW h \in Seq(OrderRecords), NEW e \in OrderRecords, Paired(h),
         NEW i \in FilledIn(h, "sell")
  PROVE  GainIn(Append(h, e), i) = GainIn(h, i)
<1>1. PICK j : SoldFrom(h, i, j)
  BY DEF Paired
<1>2. BoughtIn(h, i) = j
  BY <1>1, BoughtIs
<1>3. Append(h, e) \in Seq(OrderRecords) /\ SoldFrom(Append(h, e), i, j)
  BY <1>1, OrderAppended, SoldFromStays
<1>4. BoughtIn(Append(h, e), i) = j
  BY <1>3, BoughtIs
<1>5. i \in 1 .. Len(h) /\ j \in 1 .. Len(h)
  BY <1>1, FilledFinite DEF SoldFrom
<1>6. Append(h, e)[i] = h[i] /\ Append(h, e)[j] = h[j]
  BY <1>5, OrderAppended
<1> QED BY <1>2, <1>4, <1>6 DEF GainIn

\* an order that sells nothing gains nothing
LEMMA NoSaleGains ==
  ASSUME NEW h \in Seq(OrderRecords), NEW e \in OrderRecords, Paired(h),
         ~(e.side = "sell" /\ e.filled)
  PROVE  /\ Paired(Append(h, e)) /\ GainTotal(Append(h, e)) = GainTotal(h)
         /\ FilledIn(Append(h, e), "sell") = FilledIn(h, "sell")
<1> DEFINE g == Append(h, e)
<1>1. FilledIn(g, "sell") = FilledIn(h, "sell")
  <2>1. FilledIn(g, "sell")
          = FilledIn(h, "sell") \cup (IF e.side = "sell" /\ e.filled THEN {Len(h) + 1} ELSE {})
    BY FilledAppended
  <2> QED BY <2>1
<1>2. Paired(g)
  BY <1>1, SoldFromStays DEF Paired
<1>3. \A i \in FilledIn(h, "sell") : GainIn(g, i) = GainIn(h, i)
  BY GainStays
<1>4. GainsOf(g) = GainsOf(h)
  BY <1>1, <1>3 DEF GainsOf
<1> QED BY <1>1, <1>2, <1>4 DEF GainTotal

\* a sale gains what it brought more than its purchase
LEMMA SaleGains ==
  ASSUME NEW h \in Seq(OrderRecords), NEW e \in OrderRecords, Paired(h),
         e.side = "sell", e.filled, NEW j, SoldFrom(Append(h, e), Len(h) + 1, j)
  PROVE  /\ Paired(Append(h, e))
         /\ GainTotal(Append(h, e)) = GainTotal(h) + (e.price - h[j].price) * e.quantity
<1> DEFINE g == Append(h, e)
    n == Len(h)
    S == FilledIn(h, "sell")
<1>0. g \in Seq(OrderRecords) /\ n \in Nat /\ g[n + 1] = e /\ \A k \in 1 .. n : g[k] = h[k]
  BY OrderAppended
<1>1. FilledIn(g, "sell") = S \cup {n + 1} /\ n + 1 \notin S
  BY FilledAppended
<1>2. Paired(g)
  <2> SUFFICES ASSUME NEW i \in FilledIn(g, "sell") PROVE \E k : SoldFrom(g, i, k)
    BY DEF Paired
  <2>1. CASE i \in S
    BY <2>1, SoldFromStays DEF Paired
  <2>2. CASE i = n + 1
    BY <2>2
  <2> QED BY <1>1, <2>1, <2>2
<1>3. BoughtIn(g, n + 1) = j
  BY <1>0, BoughtIs
<1>4. j \in 1 .. n
  <2>1. j \in FilledIn(g, "buy") /\ j < n + 1
    BY DEF SoldFrom
  <2>2. FilledIn(g, "buy") \subseteq 1 .. Len(g)
    BY <1>0, FilledFinite
  <2>3. j \in 1 .. Len(g)
    BY <2>1, <2>2
  <2> QED BY <1>0, <2>1, <2>3
<1>5. GainIn(g, n + 1) = (e.price - h[j].price) * e.quantity
  BY <1>0, <1>3, <1>4 DEF GainIn
<1>6. \A i \in S \cup {n + 1} : GainsOf(g)[i] \in Int /\ GainsOf(g)[i] = GainIn(g, i)
  BY <1>0, <1>1, <1>2, GainTypes DEF GainsOf
<1>7. \A i \in S : GainsOf(g)[i] = GainsOf(h)[i]
  BY <1>1, GainStays DEF GainsOf
<1>8. IsFiniteSet(S)
  BY FilledFinite
<1>9. Total(GainsOf(g), S \cup {n + 1}) = Total(GainsOf(g), S) + GainsOf(g)[n + 1]
  <2> HIDE DEF g, n, S
  <2> QED BY <1>1, <1>6, <1>8, SumAdd
<1>10. Total(GainsOf(g), S) = Total(GainsOf(h), S)
  <2> HIDE DEF g, n, S
  <2> QED BY <1>6, <1>7, <1>8, SumSame
<1>11. GainsOf(g)[n + 1] = (e.price - h[j].price) * e.quantity
  BY <1>5, <1>6
<1>12. GainTotal(g) = GainTotal(h) + (e.price - h[j].price) * e.quantity
  BY <1>1, <1>9, <1>10, <1>11 DEF GainTotal
<1> QED BY <1>2, <1>12

-----------------------------------------------------------------------------
(***************************************************************************)
(* The account: balance b and fees f, positions p, order history h.  What  *)
(* was invested in the positions, what is left and the fees are what there *)
(* was at first and what the sales gained.                                 *)
(***************************************************************************)
Positions == [quantity : 1 .. MaxPositionSize, avg : Nat, current : Nat, strategy : ToSet(Tested)]

AccountTypes(b, f, p, h) ==
  /\ b \in Int /\ f \in Nat /\ h \in Seq(OrderRecords)
  /\ DOMAIN p \subseteq AccSymbols /\ IsFiniteSet(DOMAIN p) /\ p \in [DOMAIN p -> Positions]

\* how many of side side there were of the symbol s
Count(h, side, s) == Cardinality(UpTo(h, side, s, Len(h)))

\* the position in s comes from the purchase j
From(h, p, s, j) ==
  /\ j \in FilledIn(h, "buy") /\ h[j].symbol = s /\ p[s].avg = h[j].price
  /\ \A k \in FilledIn(h, "buy") : h[k].symbol = s => k <= j

HeldFrom(h, p) ==
  \A s \in AccSymbols :
    IF s \in DOMAIN p
    THEN (\E j : From(h, p, s, j)) /\ Count(h, "buy", s) = Count(h, "sell", s) + 1
    ELSE Count(h, "buy", s) = Count(h, "sell", s)

Cost(p) == [s \in DOMAIN p |-> p[s].avg * p[s].quantity]
Invested(p) == Total(Cost(p), DOMAIN p)

Balanced(b, f, p, h) ==
  /\ AccountTypes(b, f, p, h)
  /\ Paired(h) /\ HeldFrom(h, p)
  /\ Cardinality(FilledIn(h, "sell")) + Cardinality(DOMAIN p) = Cardinality(FilledIn(h, "buy"))
  /\ b + Invested(p) + f = InitialBalance + GainTotal(h)
  /\ b + f >= 0

LEMMA GainTotalType ==
  ASSUME NEW h \in Seq(OrderRecords), Paired(h)
  PROVE  GainTotal(h) \in Int
<1> DEFINE S == FilledIn(h, "sell")
    g == GainsOf(h)
<1>1. IsFiniteSet(S)
  BY FilledFinite
<1>2. \A i \in S : g[i] \in Int
  BY GainTypes DEF GainsOf
<1>3. Total(g, S) \in Int
  <2> HIDE DEF S, g
  <2> QED BY <1>1, <1>2, SumType
<1> QED BY <1>3 DEF GainTotal

LEMMA Invests ==
  ASSUME NEW p, IsFiniteSet(DOMAIN p), p \in [DOMAIN p -> Positions]
  PROVE  /\ Invested(p) \in Int
         /\ \A s \in DOMAIN p : Cost(p)[s] \in Int /\ Cost(p)[s] = p[s].avg * p[s].quantity
<1>1. \A s \in DOMAIN p : p[s] \in Positions
  OBVIOUS
<1>2. \A s \in DOMAIN p : p[s].avg \in Nat /\ p[s].quantity \in Int
  BY <1>1, AccountAssumption DEF Positions
<1>3. \A s \in DOMAIN p : Cost(p)[s] \in Int /\ Cost(p)[s] = p[s].avg * p[s].quantity
  BY <1>2 DEF Cost
<1>4. Total(Cost(p), DOMAIN p) \in Int
  <2>1. \A s \in DOMAIN p : Cost(p)[s] \in Int
    BY <1>3
  <2> QED BY <2>1, SumType
<1> QED BY <1>3, <1>4 DEF Invested

Minus(p, s) == [x \in DOMAIN p \ {s} |-> p[x]]

LEMMA InvestedLess ==
  ASSUME NEW p, IsFiniteSet(DOMAIN p), p \in [DOMAIN p -> Positions], NEW s \in DOMAIN p
  PROVE  /\ Invested(p) = Invested(Minus(p, s)) + p[s].avg * p[s].quantity
         /\ DOMAIN Minus(p, s) = DOMAIN p \ {s} /\ IsFiniteSet(DOMAIN p \ {s})
         /\ Minus(p, s) \in [DOMAIN p \ {s} -> Positions]
<1> DEFINE q == Minus(p, s)
    D == DOMAIN p \ {s}
<1>1. DOMAIN q = D /\ q \in [D -> Positions] /\ \A x \in D : q[x] = p[x]
  BY DEF Minus
<1>2. IsFiniteSet(D)
  BY FS_RemoveElement
<1>3. \A x \in DOMAIN p : Cost(p)[x] \in Int /\ Cost(p)[x] = p[x].avg * p[x].quantity
  BY Invests
<1>4. Total(Cost(p), DOMAIN p) = Cost(p)[s] + Total(Cost(p), D)
  <2>1. \A x \in DOMAIN p : Cost(p)[x] \in Int
    BY <1>3
  <2> QED BY <2>1, SumRemove
<1>5. Total(Cost(p), D) = Total(Cost(q), D)
  <2>1. \A x \in D : Cost(p)[x] \in Int /\ Cost(p)[x] = Cost(q)[x]
    BY <1>1, <1>3 DEF Cost
  <2> HIDE DEF D, q
  <2> QED BY <1>2, <2>1, SumSame
<1>6. Total(Cost(q), D) \in Int /\ Invested(q) = Total(Cost(q), D)
  <2>1. Invested(q) \in Int
    BY <1>1, <1>2, Invests
  <2> QED BY <1>1, <2>1 DEF Invested
<1>7. Invested(p) = Invested(q) + p[s].avg * p[s].quantity
  <2>1. Cost(p)[s] \in Int /\ Cost(p)[s] = p[s].avg * p[s].quantity
    BY <1>3
  <2> HIDE DEF q, D
  <2> QED BY <1>4, <1>5, <1>6, <2>1 DEF Invested
<1> QED BY <1>1, <1>2, <1>7

-----------------------------------------------------------------------------
\* a rejected order changes nothing
LEMMA BalancedRejected ==
  ASSUME NEW b, NEW f, NEW p, NEW h, NEW e \in OrderRecords, ~e.filled, Balanced(b, f, p, h)
  PROVE  Balanced(b, f, p, Append(h, e))
         /\ FilledIn(Append(h, e), "sell") = FilledIn(h, "sell")
<1> DEFINE g == Append(h, e)
    n == Len(h)
<1>0. h \in Seq(OrderRecords) /\ Paired(h) /\ HeldFrom(h, p)
  BY DEF Balanced, AccountTypes
<1>1. g \in Seq(OrderRecords) /\ Len(g) = n + 1 /\ n \in Nat /\ \A i \in 1 .. n : g[i] = h[i]
  BY <1>0, OrderAppended
<1>2. Paired(g) /\ GainTotal(g) = GainTotal(h) /\ FilledIn(g, "sell") = FilledIn(h, "sell")
  BY <1>0, NoSaleGains
<1>3. FilledIn(g, "buy") = FilledIn(h, "buy") /\ FilledIn(h, "buy") \subseteq 1 .. n
  <2>1. FilledIn(g, "buy")
          = FilledIn(h, "buy") \cup (IF e.side = "buy" /\ e.filled THEN {n + 1} ELSE {})
    BY <1>0, FilledAppended
  <2>2. FilledIn(h, "buy") \subseteq 1 .. n
    BY <1>0, FilledFinite
  <2> QED BY <2>1, <2>2
<1>4. \A side, s : Count(g, side, s) = Count(h, side, s)
  <2> SUFFICES ASSUME NEW side, NEW s PROVE Count(g, side, s) = Count(h, side, s)
    OBVIOUS
  <2>1. Cardinality(UpTo(g, side, s, n + 1)) = Cardinality(UpTo(h, side, s, n))
          + (IF e.side = side /\ e.filled /\ e.symbol = s THEN 1 ELSE 0)
    BY <1>0, UpToAppended
  <2>2. Cardinality(UpTo(h, side, s, n)) \in Nat
    BY <1>0, FilledFinite
  <2> HIDE DEF g, n
  <2>3. Cardinality(UpTo(g, side, s, n + 1)) = Cardinality(UpTo(h, side, s, n))
    BY <2>1, <2>2
  <2> QED BY <1>1, <2>3 DEF Count, n
<1> HIDE DEF g, n
<1>5. \A s, j : From(h, p, s, j) => From(g, p, s, j)
  BY <1>1, <1>3 DEF From
<1>6. HeldFrom(g, p)
  BY <1>0, <1>4, <1>5 DEF HeldFrom
<1>7. Balanced(b, f, p, g)
  BY <1>1, <1>2, <1>3, <1>6 DEF Balanced, AccountTypes
<1> QED BY <1>2, <1>7 DEF g

\* a new price is none of the account's business
LEMMA BalancedMarked ==
  ASSUME NEW b, NEW f, NEW p, NEW h, Balanced(b, f, p, h), NEW s \in DOMAIN p, NEW price \in Nat
  PROVE  /\ Balanced(b, f, [p EXCEPT ![s] = [p[s] EXCEPT !.current = price]], h)
         /\ DOMAIN [p EXCEPT ![s] = [p[s] EXCEPT !.current = price]] = DOMAIN p
<1> DEFINE q == [p EXCEPT ![s] = [p[s] EXCEPT !.current = price]]
<1>1. /\ p \in [DOMAIN p -> Positions] /\ IsFiniteSet(DOMAIN p) /\ DOMAIN p \subseteq AccSymbols
      /\ HeldFrom(h, p)
  BY DEF Balanced, AccountTypes
<1>2. p[s] \in Positions
  BY <1>1
<1>3. [p[s] EXCEPT !.current = price] \in Positions
      /\ [p[s] EXCEPT !.current = price].avg = p[s].avg
      /\ [p[s] EXCEPT !.current = price].quantity = p[s].quantity
  BY <1>2 DEF Positions
<1>4. DOMAIN q = DOMAIN p /\ q \in [DOMAIN p -> Positions]
  BY <1>1, <1>3
<1>5. \A x \in DOMAIN p : q[x].avg = p[x].avg /\ q[x].quantity = p[x].quantity
  BY <1>1, <1>3
<1> HIDE DEF q
<1>6. Cost(q) = Cost(p)
  BY <1>4, <1>5 DEF Cost
<1>7. HeldFrom(h, q)
  <2>1. \A x \in DOMAIN p : \A j : From(h, p, x, j) => From(h, q, x, j)
    BY <1>5 DEF From
  <2> QED BY <1>1, <1>4, <2>1 DEF HeldFrom
<1>8. Balanced(b, f, q, h)
  BY <1>1, <1>4, <1>6, <1>7 DEF Balanced, AccountTypes, Invested
<1> QED BY <1>4, <1>8 DEF q

-----------------------------------------------------------------------------
\* how a filled order counts
LEMMA CountAppended ==
  ASSUME NEW h \in Seq(OrderRecords), NEW e \in OrderRecords, e.filled, NEW side, NEW s
  PROVE  /\ Count(h, side, s) \in Nat
         /\ Count(Append(h, e), side, s) =
              Count(h, side, s) + (IF e.side = side /\ e.symbol = s THEN 1 ELSE 0)
<1> DEFINE g == Append(h, e)
    n == Len(h)
<1>1. Len(g) = n + 1
  BY OrderAppended
<1>2. Cardinality(UpTo(h, side, s, n)) \in Nat
  BY FilledFinite
<1>3. Cardinality(UpTo(g, side, s, n + 1)) = Cardinality(UpTo(h, side, s, n))
          + (IF e.side = side /\ e.filled /\ e.symbol = s THEN 1 ELSE 0)
  BY UpToAppended
<1> HIDE DEF g, n
<1>4. Cardinality(UpTo(g, side, s, n + 1)) = Cardinality(UpTo(h, side, s, n))
          + (IF e.side = side /\ e.symbol = s THEN 1 ELSE 0)
  BY <1>3
<1> QED BY <1>1, <1>2, <1>4 DEF Count, g, n

\* a purchase: what it cost is invested
LEMMA BalancedBought ==
  ASSUME NEW b, NEW f, NEW p, NEW h, Balanced(b, f, p, h), NEW e \in OrderRecords,
         e.side = "buy", e.filled, e.symbol \notin DOMAIN p, e.price * e.quantity <= b,
         NEW new \in Positions, new.avg = e.price, new.quantity = e.quantity, NEW fee \in Nat,
         NEW q, q = [x \in DOMAIN p \cup {e.symbol} |-> IF x = e.symbol THEN new ELSE p[x]]
  PROVE  /\ Balanced(b - (e.price * e.quantity + fee), f + fee, q, Append(h, e))
         /\ FilledIn(Append(h, e), "sell") = FilledIn(h, "sell")
<1> DEFINE g == Append(h, e)
    n == Len(h)
    s == e.symbol
    D == DOMAIN p
    cost == e.price * e.quantity
<1>0. /\ b \in Int /\ f \in Nat /\ h \in Seq(OrderRecords)
      /\ D \subseteq AccSymbols /\ IsFiniteSet(D) /\ p \in [D -> Positions]
      /\ Paired(h) /\ HeldFrom(h, p)
  BY DEF Balanced, AccountTypes
<1>1. /\ g \in Seq(OrderRecords) /\ Len(g) = n + 1 /\ n \in Nat /\ g[n + 1] = e
      /\ \A i \in 1 .. n : g[i] = h[i]
  BY <1>0, OrderAppended
<1>2. Paired(g) /\ GainTotal(g) = GainTotal(h) /\ FilledIn(g, "sell") = FilledIn(h, "sell")
  BY <1>0, NoSaleGains
<1>3. /\ FilledIn(g, "buy") = FilledIn(h, "buy") \cup {n + 1} /\ n + 1 \notin FilledIn(h, "buy")
      /\ FilledIn(h, "buy") \subseteq 1 .. n /\ IsFiniteSet(FilledIn(h, "buy"))
      /\ Cardinality(FilledIn(h, "buy")) \in Nat /\ Cardinality(FilledIn(h, "sell")) \in Nat
  <2>1. FilledIn(g, "buy")
          = FilledIn(h, "buy") \cup (IF e.side = "buy" /\ e.filled THEN {n + 1} ELSE {})
        /\ n + 1 \notin FilledIn(h, "buy")
    BY <1>0, FilledAppended
  <2>2. FilledIn(h, "buy") \subseteq 1 .. n /\ IsFiniteSet(FilledIn(h, "buy"))
        /\ Cardinality(FilledIn(h, "buy")) \in Nat
    BY <1>0, FilledFinite
  <2>3. Cardinality(FilledIn(h, "sell")) \in Nat
    BY <1>0, FilledFinite
  <2> QED BY <2>1, <2>2, <2>3
<1>4. s \in AccSymbols /\ e.price \in Nat /\ e.quantity \in Nat
  BY DEF OrderRecords
<1>5. cost \in Nat
  BY <1>4
<1>6. DOMAIN q = D \cup {s} /\ q[s] = new /\ \A x \in D : q[x] = p[x] /\ x # s
  OBVIOUS
<1>7. q \in [D \cup {s} -> Positions]
  BY <1>0
<1>8. IsFiniteSet(D \cup {s}) /\ Cardinality(D \cup {s}) = Cardinality(D) + 1
      /\ Cardinality(D) \in Nat
  BY <1>0, FS_AddElement, FS_CardinalityType
<1>9. \A x : Count(g, "sell", x) = Count(h, "sell", x) /\ Count(h, "sell", x) \in Nat
             /\ Count(g, "buy", x) = Count(h, "buy", x) + (IF x = s THEN 1 ELSE 0)
             /\ Count(h, "buy", x) \in Nat
  <2> SUFFICES ASSUME NEW x
               PROVE  /\ Count(g, "sell", x) = Count(h, "sell", x) /\ Count(h, "sell", x) \in Nat
                      /\ Count(g, "buy", x) = Count(h, "buy", x) + (IF x = s THEN 1 ELSE 0)
                      /\ Count(h, "buy", x) \in Nat
    OBVIOUS
  <2>1. Count(h, "sell", x) \in Nat /\ Count(g, "sell", x)
          = Count(h, "sell", x) + (IF e.side = "sell" /\ e.symbol = x THEN 1 ELSE 0)
    BY <1>0, CountAppended
  <2>2. Count(h, "buy", x) \in Nat /\ Count(g, "buy", x)
          = Count(h, "buy", x) + (IF e.side = "buy" /\ e.symbol = x THEN 1 ELSE 0)
    BY <1>0, CountAppended
  <2> HIDE DEF g
  <2> QED BY <2>1, <2>2
<1> HIDE DEF g, n, D
<1>10. HeldFrom(g, q)
  <2> SUFFICES ASSUME NEW x \in AccSymbols
               PROVE  IF x \in DOMAIN q
                      THEN (\E j : From(g, q, x, j))
                           /\ Count(g, "buy", x) = Count(g, "sell", x) + 1
                      ELSE Count(g, "buy", x) = Count(g, "sell", x)
    BY DEF HeldFrom
  <2>1. CASE x = s
    <3>1. Count(h, "buy", x) = Count(h, "sell", x)
      BY <1>0, <2>1 DEF HeldFrom, D
    <3>2. From(g, q, x, n + 1)
      BY <1>1, <1>3, <1>6, <2>1 DEF From
    <3>3. Count(g, "buy", x) = Count(g, "sell", x) + 1
      <4>1. Count(g, "buy", x) = Count(h, "buy", x) + 1
        BY <1>9, <2>1
      <4> QED BY <1>9, <3>1, <4>1
    <3>4. x \in DOMAIN q
      BY <1>6, <2>1
    <3> QED BY <3>2, <3>3, <3>4
  <2>2. CASE x # s /\ x \in D
    <3>1. PICK j : From(h, p, x, j)
      BY <1>0, <2>2 DEF HeldFrom, D
    <3>2. Count(h, "buy", x) = Count(h, "sell", x) + 1
      BY <1>0, <2>2 DEF HeldFrom, D
    <3>3. From(g, q, x, j)
      BY <1>1, <1>3, <1>6, <2>2, <3>1 DEF From
    <3> QED BY <1>6, <1>9, <2>2, <3>2, <3>3
  <2>3. CASE x # s /\ x \notin D
    <3>1. Count(h, "buy", x) = Count(h, "sell", x)
      BY <1>0, <2>3 DEF HeldFrom, D
    <3> QED BY <1>6, <1>9, <2>3, <3>1
  <2> QED BY <2>1, <2>2, <2>3
<1>11. Invested(q) = Invested(p) + cost /\ Invested(p) \in Int
  <2>1. s \in DOMAIN q /\ q \in [DOMAIN q -> Positions] /\ IsFiniteSet(DOMAIN q)
    BY <1>6, <1>7, <1>8
  <2>2. Invested(q) = Invested(Minus(q, s)) + q[s].avg * q[s].quantity
    BY <2>1, InvestedLess
  <2>3. Minus(q, s) = p
    <3>1. (D \cup {s}) \ {s} = D
      BY DEF D
    <3>2. p = [x \in D |-> p[x]]
      BY <1>0
    <3> QED BY <1>6, <3>1, <3>2 DEF Minus
  <2>4. Invested(p) \in Int
    BY <1>0, Invests DEF D
  <2>5. q[s].avg * q[s].quantity = cost
    BY <1>6
  <2> HIDE DEF cost
  <2> QED BY <2>2, <2>3, <2>4, <2>5
<1>12. /\ Cardinality(FilledIn(h, "sell")) + Cardinality(D) = Cardinality(FilledIn(h, "buy"))
       /\ b + Invested(p) + f = InitialBalance + GainTotal(h)
  BY DEF Balanced, D
<1>13. Cardinality(FilledIn(g, "buy")) = Cardinality(FilledIn(h, "buy")) + 1
  BY <1>3, FS_AddElement
<1>14. GainTotal(h) \in Int /\ InitialBalance \in Nat
  BY <1>0, GainTotalType, AccountAssumption
<1>15. cost <= b
  OBVIOUS
<1> HIDE DEF cost
<1>16. /\ b - (cost + fee) \in Int /\ f + fee \in Nat
       /\ (b - (cost + fee)) + Invested(q) + (f + fee) = InitialBalance + GainTotal(g)
       /\ (b - (cost + fee)) + (f + fee) >= 0
  BY <1>0, <1>2, <1>5, <1>11, <1>12, <1>14, <1>15
<1>17. Cardinality(FilledIn(g, "sell")) + Cardinality(DOMAIN q) = Cardinality(FilledIn(g, "buy"))
  BY <1>2, <1>3, <1>6, <1>8, <1>12, <1>13
<1>18. AccountTypes(b - (cost + fee), f + fee, q, g)
  BY <1>0, <1>1, <1>4, <1>6, <1>7, <1>8, <1>16 DEF AccountTypes
<1>19. Balanced(b - (cost + fee), f + fee, q, g)
  BY <1>2, <1>10, <1>16, <1>17, <1>18 DEF Balanced
<1> QED BY <1>2, <1>19 DEF g, cost

LEMMA SaleAdds ==
  ASSUME NEW b \in Int, NEW f \in Nat, NEW fee \in Nat, NEW brought \in Nat, NEW invested \in Nat,
         NEW rest \in Int, NEW gains \in Int, NEW first \in Nat,
         b + (rest + invested) + f = first + gains, b + f >= 0
  PROVE  /\ b + brought - fee \in Int /\ f + fee \in Nat
         /\ (b + brought - fee) + rest + (f + fee) = first + (gains + (brought - invested))
         /\ (b + brought - fee) + (f + fee) >= 0
OBVIOUS

\* a sale of all there is: it brings what was invested, and what it gains
LEMMA BalancedSold ==
  ASSUME NEW b, NEW f, NEW p, NEW h, Balanced(b, f, p, h), NEW e \in OrderRecords,
         e.side = "sell", e.filled, e.symbol \in DOMAIN p, e.quantity = p[e.symbol].quantity,
         NEW fee \in Nat
  PROVE  /\ Balanced(b + e.price * e.quantity - fee, f + fee, Minus(p, e.symbol), Append(h, e))
         /\ Cardinality(FilledIn(Append(h, e), "sell")) = Cardinality(FilledIn(h, "sell")) + 1
<1> DEFINE g == Append(h, e)
    n == Len(h)
    s == e.symbol
    D == DOMAIN p
    q == Minus(p, s)
    brought == e.price * e.quantity
    invested == p[s].avg * p[s].quantity
<1>0. /\ b \in Int /\ f \in Nat /\ h \in Seq(OrderRecords)
      /\ D \subseteq AccSymbols /\ IsFiniteSet(D) /\ p \in [D -> Positions]
      /\ Paired(h) /\ HeldFrom(h, p)
  BY DEF Balanced, AccountTypes
<1>1. /\ g \in Seq(OrderRecords) /\ Len(g) = n + 1 /\ n \in Nat /\ g[n + 1] = e
      /\ \A i \in 1 .. n : g[i] = h[i]
  BY <1>0, OrderAppended
<1>2. FilledIn(g, "buy") = FilledIn(h, "buy") /\ FilledIn(h, "buy") \subseteq 1 .. n
      /\ Cardinality(FilledIn(h, "buy")) \in Nat
  <2>1. FilledIn(g, "buy")
          = FilledIn(h, "buy") \cup (IF e.side = "buy" /\ e.filled THEN {n + 1} ELSE {})
    BY <1>0, FilledAppended
  <2>2. FilledIn(h, "buy") \subseteq 1 .. n /\ Cardinality(FilledIn(h, "buy")) \in Nat
    BY <1>0, FilledFinite
  <2> QED BY <2>1, <2>2
<1>3. Cardinality(FilledIn(g, "sell")) = Cardinality(FilledIn(h, "sell")) + 1
      /\ Cardinality(FilledIn(h, "sell")) \in Nat
  <2>1. FilledIn(g, "sell")
          = FilledIn(h, "sell") \cup (IF e.side = "sell" /\ e.filled THEN {n + 1} ELSE {})
        /\ n + 1 \notin FilledIn(h, "sell")
    BY <1>0, FilledAppended
  <2>2. FilledIn(g, "sell") = FilledIn(h, "sell") \cup {n + 1}
    BY <2>1
  <2>3. IsFiniteSet(FilledIn(h, "sell")) /\ Cardinality(FilledIn(h, "sell")) \in Nat
    BY <1>0, FilledFinite
  <2> HIDE DEF g, n
  <2> QED BY <2>1, <2>2, <2>3, FS_AddElement
<1>4. s \in AccSymbols /\ e.price \in Nat /\ e.quantity \in Nat /\ p[s] \in Positions
  BY <1>0 DEF OrderRecords
<1>5. \A x : Count(g, "buy", x) = Count(h, "buy", x) /\ Count(h, "buy", x) \in Nat
             /\ Count(g, "sell", x) = Count(h, "sell", x) + (IF x = s THEN 1 ELSE 0)
             /\ Count(h, "sell", x) \in Nat
  <2> SUFFICES ASSUME NEW x
               PROVE  /\ Count(g, "buy", x) = Count(h, "buy", x) /\ Count(h, "buy", x) \in Nat
                      /\ Count(g, "sell", x) = Count(h, "sell", x) + (IF x = s THEN 1 ELSE 0)
                      /\ Count(h, "sell", x) \in Nat
    OBVIOUS
  <2>1. Count(h, "sell", x) \in Nat /\ Count(g, "sell", x)
          = Count(h, "sell", x) + (IF e.side = "sell" /\ e.symbol = x THEN 1 ELSE 0)
    BY <1>0, CountAppended
  <2>2. Count(h, "buy", x) \in Nat /\ Count(g, "buy", x)
          = Count(h, "buy", x) + (IF e.side = "buy" /\ e.symbol = x THEN 1 ELSE 0)
    BY <1>0, CountAppended
  <2> HIDE DEF g
  <2> QED BY <2>1, <2>2
<1>6. PICK j : From(h, p, s, j)
  BY <1>0, <1>4 DEF HeldFrom
<1>7. Count(h, "buy", s) = Count(h, "sell", s) + 1
  BY <1>0, <1>4 DEF HeldFrom
<1>8. SoldFrom(g, n + 1, j)
  <2>1. j \in 1 .. n /\ j \in FilledIn(g, "buy") /\ g[j].symbol = s
    BY <1>1, <1>2, <1>6 DEF From
  <2>2. \A k \in FilledIn(g, "buy") : g[k].symbol = s => k <= j
    BY <1>1, <1>2, <1>6 DEF From
  <2>3. UpTo(h, "buy", s, j) = UpTo(h, "buy", s, n)
    <3>1. \A k \in FilledIn(h, "buy") : h[k].symbol = s => (k <= j <=> k <= n)
      BY <1>2, <1>6, <2>1 DEF From
    <3> HIDE DEF n, s
    <3> QED BY <3>1 DEF UpTo
  <2>4. UpTo(g, "buy", s, j) = UpTo(h, "buy", s, j)
    <3>1. j \in 0 .. n
      BY <1>1, <2>1
    <3> QED BY <1>0, <3>1, UpToAppended
  <2>5. Cardinality(UpTo(g, "buy", s, j)) = Count(h, "buy", s)
    BY <2>3, <2>4 DEF Count
  <2>6. Cardinality(UpTo(g, "sell", s, n + 1)) = Count(g, "sell", s)
    BY <1>1 DEF Count
  <2>7. Cardinality(UpTo(g, "buy", s, j)) = Cardinality(UpTo(g, "sell", s, n + 1))
    BY <1>5, <1>7, <2>5, <2>6
  <2>8. g[n + 1].symbol = s /\ j < n + 1
    BY <1>1, <2>1
  <2> HIDE DEF g, n, s
  <2> QED BY <2>1, <2>2, <2>7, <2>8 DEF SoldFrom
<1>9. Paired(g) /\ GainTotal(g) = GainTotal(h) + (e.price - h[j].price) * e.quantity
  BY <1>0, <1>8, SaleGains
<1>10. (e.price - h[j].price) * e.quantity = brought - invested
       /\ brought \in Nat /\ invested \in Nat
  <2>1. h[j].price = p[s].avg /\ p[s].avg \in Nat
    BY <1>4, <1>6 DEF From, Positions
  <2>2. \A x, y, z \in Nat : (x - y) * z = x * z - y * z /\ x * z \in Nat
    OBVIOUS
  <2> QED BY <1>4, <2>1, <2>2
<1>22. brought \in Nat /\ invested \in Nat /\ GainTotal(g) = GainTotal(h) + (brought - invested)
  BY <1>9, <1>10
<1>11. /\ Invested(p) = Invested(q) + invested
       /\ DOMAIN q = D \ {s} /\ IsFiniteSet(D \ {s}) /\ q \in [D \ {s} -> Positions]
  BY <1>0, InvestedLess
<1>12. Invested(q) \in Int
  <2> HIDE DEF q
  <2> QED BY <1>11, Invests
<1>13. Cardinality(D \ {s}) = Cardinality(D) - 1 /\ Cardinality(D) \in Nat
  <2>1. Cardinality(D) \in Nat
    BY <1>0, FS_CardinalityType
  <2>2. Cardinality(D \ {s}) = IF s \in D THEN Cardinality(D) - 1 ELSE Cardinality(D)
    BY <1>0, FS_RemoveElement
  <2> QED BY <2>1, <2>2
<1>14. \A x \in D \ {s} : q[x] = p[x]
  BY DEF Minus
<1>15. /\ Cardinality(FilledIn(h, "sell")) + Cardinality(D) = Cardinality(FilledIn(h, "buy"))
       /\ b + Invested(p) + f = InitialBalance + GainTotal(h) /\ b + f >= 0
  BY DEF Balanced, D
<1>16. GainTotal(h) \in Int /\ InitialBalance \in Nat
  BY <1>0, GainTotalType, AccountAssumption
<1> HIDE DEF g, n, D, q
<1>17. HeldFrom(g, q)
  <2> SUFFICES ASSUME NEW x \in AccSymbols
               PROVE  IF x \in DOMAIN q
                      THEN (\E k : From(g, q, x, k))
                           /\ Count(g, "buy", x) = Count(g, "sell", x) + 1
                      ELSE Count(g, "buy", x) = Count(g, "sell", x)
    BY DEF HeldFrom
  <2>1. CASE x = s
    BY <1>5, <1>7, <1>11, <2>1
  <2>2. CASE x # s /\ x \in D
    <3>1. PICK k : From(h, p, x, k)
      BY <1>0, <2>2 DEF HeldFrom, D
    <3>2. Count(h, "buy", x) = Count(h, "sell", x) + 1
      BY <1>0, <2>2 DEF HeldFrom, D
    <3>3. From(g, q, x, k)
      BY <1>1, <1>2, <1>14, <2>2, <3>1 DEF From
    <3> QED BY <1>5, <1>11, <2>2, <3>2, <3>3
  <2>3. CASE x # s /\ x \notin D
    <3>1. Count(h, "buy", x) = Count(h, "sell", x)
      BY <1>0, <2>3 DEF HeldFrom, D
    <3> QED BY <1>5, <1>11, <2>3, <3>1
  <2> QED BY <2>1, <2>2, <2>3
<1> HIDE DEF brought, invested
<1>18. /\ b + brought - fee \in Int /\ f + fee \in Nat
       /\ (b + brought - fee) + Invested(q) + (f + fee) = InitialBalance + GainTotal(g)
       /\ (b + brought - fee) + (f + fee) >= 0
  <2>1. b + (Invested(q) + invested) + f = InitialBalance + GainTotal(h)
    BY <1>11, <1>15
  <2>2. b \in Int /\ f \in Nat /\ brought \in Nat /\ invested \in Nat /\ b + f >= 0
    BY <1>0, <1>15, <1>22
  <2>3. /\ b + brought - fee \in Int /\ f + fee \in Nat
        /\ (b + brought - fee) + Invested(q) + (f + fee)
             = InitialBalance + (GainTotal(h) + (brought - invested))
        /\ (b + brought - fee) + (f + fee) >= 0
    BY <1>12, <1>16, <2>1, <2>2, SaleAdds
  <2> QED BY <1>22, <2>3
<1>19. Cardinality(FilledIn(g, "sell")) + Cardinality(DOMAIN q) = Cardinality(FilledIn(g, "buy"))
  BY <1>2, <1>3, <1>11, <1>13, <1>15
<1>20. AccountTypes(b + brought - fee, f + fee, q, g)
  BY <1>0, <1>1, <1>11, <1>18 DEF AccountTypes
<1>21. Balanced(b + brought - fee, f + fee, q, g)
  BY <1>9, <1>17, <1>18, <1>19, <1>20 DEF Balanced
<1> QED BY <1>3, <1>21 DEF g, q, brought

-----------------------------------------------------------------------------
(***************************************************************************)
(* The names and sums of BacktestAccount are those above.                  *)
(***************************************************************************)
\* what the positions are worth, and would gain
Worths(p) == [s \in DOMAIN p |-> p[s].current * p[s].quantity]
Gaining(p) == [s \in DOMAIN p |-> (p[s].current - p[s].avg) * p[s].quantity]

LEMMA WorthIs ==
  ASSUME IsFiniteSet(DOMAIN acc_positions),
         \A s \in DOMAIN acc_positions : Worths(acc_positions)[s] \in Int
  PROVE  Account!Worth = Total(Worths(acc_positions), DOMAIN acc_positions)
<1> DEFINE S == DOMAIN acc_positions
    f == Worths(acc_positions)
    it == CHOOSE g : g = [s \in SUBSET S |-> IF s = {} THEN 0
                                   ELSE Account!WorthOf(AnyOf(s)) + g[s \ {AnyOf(s)}]]
    to == CHOOSE g : g = SumStep(g, S, f)
<1>1. Account!Worth = it[S]
  BY DEF Account!Worth, Account!Held, Account!MapThenSumSet, Account!MapThenFoldSet, AnyOf
<1>2. \A g : SumStep(g, S, f) = [s \in SUBSET S |-> IF s = {} THEN 0
                                   ELSE Account!WorthOf(AnyOf(s)) + g[s \ {AnyOf(s)}]]
  <2>1. \A s \in SUBSET S : s # {} => f[AnyOf(s)] = Account!WorthOf(AnyOf(s))
    BY AnyIn DEF Account!WorthOf, Worths
  <2> HIDE DEF S, f
  <2> QED BY <2>1 DEF SumStep
<1>3. it = to
  <2> HIDE DEF S, f
  <2> QED BY <1>2
<1>4. to = SumStep(to, S, f)
  <2> HIDE DEF S, f
  <2>1. \E g : g = SumStep(g, S, f)
    BY SumStepExists DEF S, f
  <2> QED BY <2>1
<1>5. to[S] = Total(f, S)
  <2> HIDE DEF to
  <2> QED BY <1>4, SumStepTotals
<1> HIDE DEF it, to
<1> QED BY <1>1, <1>3, <1>5

\* the names of the module for what is written here with arguments
LEMMA AccountNames ==
  /\ \A S : Account!Cardinality(S) = Cardinality(S)
  /\ \A side : Account!Of(side) = FilledIn(acc_history, side)
  /\ \A side, s, k : Account!Trades(side, s, k) = UpTo(acc_history, side, s, k)
  /\ Account!Held = DOMAIN acc_positions
  /\ \A s : Account!Without(s) = Minus(acc_positions, s)
  /\ Account!ToSet(Tested) = ToSet(Tested)
<1>1. \A S : Account!Cardinality(S) = Cardinality(S)
  BY DEF Account!Cardinality, Cardinality
<1>2. \A side : Account!Of(side) = FilledIn(acc_history, side)
  BY DEF Account!Of, FilledIn
<1>3. \A side, s, k : Account!Trades(side, s, k) = UpTo(acc_history, side, s, k)
  BY <1>2 DEF Account!Trades, UpTo
<1>4. Account!Held = DOMAIN acc_positions
  BY DEF Account!Held
<1>5. \A s : Account!Without(s) = Minus(acc_positions, s)
  BY <1>4 DEF Account!Without, Minus
<1>6. Account!ToSet(Tested) = ToSet(Tested)
  BY DEF Account!ToSet, ToSet
<1> QED BY <1>1, <1>2, <1>3, <1>4, <1>5, <1>6

LEMMA GainNames ==
  /\ \A i : Account!Bought(i) = BoughtIn(acc_history, i)
  /\ \A i : Account!Gain(i) = GainIn(acc_history, i)
<1>1. \A i : Account!Bought(i) = BoughtIn(acc_history, i)
  BY AccountNames DEF Account!Bought, BoughtIn
<1> QED BY <1>1 DEF Account!Gain, GainIn

LEMMA UnrealisedIs ==
  ASSUME IsFiniteSet(DOMAIN acc_positions),
         \A s \in DOMAIN acc_positions : Gaining(acc_positions)[s] \in Int
  PROVE  Account!MapThenSumSet(Account!Unrealised, DOMAIN acc_positions)
           = Total(Gaining(acc_positions), DOMAIN acc_positions)
<1> DEFINE S == DOMAIN acc_positions
    f == Gaining(acc_positions)
    it == CHOOSE g : g = [s \in SUBSET S |-> IF s = {} THEN 0
                                   ELSE Account!Unrealised(AnyOf(s)) + g[s \ {AnyOf(s)}]]
    to == CHOOSE g : g = SumStep(g, S, f)
<1>0. IsFiniteSet(S) /\ \A s \in S : f[s] \in Int
  OBVIOUS
<1>1. Account!MapThenSumSet(Account!Unrealised, DOMAIN acc_positions) = it[S]
  BY DEF Account!MapThenSumSet, Account!MapThenFoldSet, AnyOf
<1>2. \A g : SumStep(g, S, f) = [s \in SUBSET S |-> IF s = {} THEN 0
                                   ELSE Account!Unrealised(AnyOf(s)) + g[s \ {AnyOf(s)}]]
  <2>1. \A s \in SUBSET S : s # {} => f[AnyOf(s)] = Account!Unrealised(AnyOf(s))
    BY AnyIn DEF Account!Unrealised, Gaining
  <2> HIDE DEF S, f
  <2> QED BY <2>1 DEF SumStep
<1>3. it = to
  <2> HIDE DEF S, f
  <2> QED BY <1>2
<1>4. to = SumStep(to, S, f)
  <2> HIDE DEF S, f
  <2>1. \E g : g = SumStep(g, S, f)
    BY <1>0, SumStepExists
  <2> QED BY <2>1
<1>5. to[S] = Total(f, S)
  <2> HIDE DEF to, S, f
  <2> QED BY <1>0, <1>4, SumStepTotals
<1> HIDE DEF it, to
<1> QED BY <1>1, <1>3, <1>5

LEMMA GainsAre ==
  ASSUME acc_history \in Seq(OrderRecords), Paired(acc_history)
  PROVE  Account!MapThenSumSet(Account!Gain, FilledIn(acc_history, "sell")) = GainTotal(acc_history)
<1> DEFINE S == FilledIn(acc_history, "sell")
    f == GainsOf(acc_history)
    it == CHOOSE g : g = [s \in SUBSET S |-> IF s = {} THEN 0
                                   ELSE Account!Gain(AnyOf(s)) + g[s \ {AnyOf(s)}]]
    to == CHOOSE g : g = SumStep(g, S, f)
<1>0. IsFiniteSet(S) /\ \A s \in S : f[s] \in Int
  BY FilledFinite, GainTypes DEF GainsOf
<1>1. Account!MapThenSumSet(Account!Gain, FilledIn(acc_history, "sell")) = it[S]
  BY DEF Account!MapThenSumSet, Account!MapThenFoldSet, AnyOf
<1>2. \A g : SumStep(g, S, f) = [s \in SUBSET S |-> IF s = {} THEN 0
                                   ELSE Account!Gain(AnyOf(s)) + g[s \ {AnyOf(s)}]]
  <2>1. \A s \in SUBSET S : s # {} => f[AnyOf(s)] = Account!Gain(AnyOf(s))
    BY AnyIn, GainNames DEF GainsOf
  <2> HIDE DEF S, f
  <2> QED BY <2>1 DEF SumStep
<1>3. it = to
  <2> HIDE DEF S, f
  <2> QED BY <1>2
<1>4. to = SumStep(to, S, f)
  <2> HIDE DEF S, f
  <2>1. \E g : g = SumStep(g, S, f)
    BY <1>0, SumStepExists
  <2> QED BY <2>1
<1>5. to[S] = Total(f, S)
  <2> HIDE DEF to, S, f
  <2> QED BY <1>0, <1>4, SumStepTotals
<1> HIDE DEF it, to
<1> QED BY <1>1, <1>3, <1>5 DEF GainTotal

LEMMA StatsAre ==
  ASSUME IsFiniteSet(DOMAIN acc_stats), \A s \in DOMAIN acc_stats : acc_stats[s] \in Int
  PROVE  Account!MapThenSumSet(LAMBDA s : acc_stats[s], DOMAIN acc_stats)
           = Total(acc_stats, DOMAIN acc_stats)
<1> DEFINE S == DOMAIN acc_stats
    f == acc_stats
    it == CHOOSE g : g = [s \in SUBSET S |-> IF s = {} THEN 0
                                   ELSE acc_stats[AnyOf(s)] + g[s \ {AnyOf(s)}]]
    to == CHOOSE g : g = SumStep(g, S, f)
<1>0. IsFiniteSet(S) /\ \A s \in S : f[s] \in Int
  OBVIOUS
<1>1. Account!MapThenSumSet(LAMBDA s : acc_stats[s], DOMAIN acc_stats) = it[S]
  BY DEF Account!MapThenSumSet, Account!MapThenFoldSet, AnyOf
<1>2. \A g : SumStep(g, S, f) = [s \in SUBSET S |-> IF s = {} THEN 0
                                   ELSE acc_stats[AnyOf(s)] + g[s \ {AnyOf(s)}]]
  <2>1. \A s \in SUBSET S : s # {} => f[AnyOf(s)] = acc_stats[AnyOf(s)]
    OBVIOUS
  <2> HIDE DEF S, f
  <2> QED BY <2>1 DEF SumStep
<1>3. it = to
  <2> HIDE DEF S, f
  <2> QED BY <1>2
<1>4. to = SumStep(to, S, f)
  <2> HIDE DEF S, f
  <2>1. \E g : g = SumStep(g, S, f)
    BY <1>0, SumStepExists
  <2> QED BY <2>1
<1>5. to[S] = Total(f, S)
  <2> HIDE DEF to, S, f
  <2> QED BY <1>0, <1>4, SumStepTotals
<1> HIDE DEF it, to
<1> QED BY <1>1, <1>3, <1>5

-----------------------------------------------------------------------------
LEMMA SumPlus ==
  ASSUME NEW S, IsFiniteSet(S), NEW f, \A x \in S : f[x] \in Int,
         NEW g, \A x \in S : g[x] \in Int, NEW k, \A x \in S : k[x] = f[x] + g[x]
  PROVE  Total(k, S) = Total(f, S) + Total(g, S)
<1>0. \A x \in S : k[x] \in Int
  OBVIOUS
<1>1. PICK a : SumsOver(a, S, f)
  BY SumIs
<1>2. PICK b : SumsOver(b, S, g)
  BY SumIs
<1>3. PICK c : SumsOver(c, S, k)
  BY <1>0, SumIs
<1>4. /\ a \in [SUBSET S -> Int] /\ SumsUp(a, S, f) /\ \A s \in SUBSET S : Total(f, s) = a[s]
      /\ b \in [SUBSET S -> Int] /\ SumsUp(b, S, g) /\ \A s \in SUBSET S : Total(g, s) = b[s]
      /\ c \in [SUBSET S -> Int] /\ SumsUp(c, S, k) /\ \A s \in SUBSET S : Total(k, s) = c[s]
  BY <1>1, <1>2, <1>3 DEF SumsOver
<1> DEFINE Q == {s \in SUBSET S : c[s] = a[s] + b[s]}
<1>5. ASSUME NEW s \in SUBSET S, \A x \in s : s \ {x} \in Q PROVE s \in Q
  <2>1. CASE s = {}
    <3>1. a[s] = 0 /\ b[s] = 0 /\ c[s] = 0
      BY <1>4, <2>1 DEF SumsUp
    <3> QED BY <3>1
  <2>2. CASE s # {}
    <3> DEFINE e == AnyOf(s)
        r == s \ {e}
    <3>1. e \in s
      BY <2>2, AnyIn
    <3>2. c[s] = k[e] + c[r] /\ a[s] = f[e] + a[r] /\ b[s] = g[e] + b[r]
      BY <1>4, <2>2 DEF SumsUp
    <3>3. c[r] = a[r] + b[r] /\ r \in SUBSET S
      BY <1>5, <3>1
    <3>4. a[r] \in Int /\ b[r] \in Int
      BY <1>4, <3>3
    <3>5. k[e] = f[e] + g[e] /\ f[e] \in Int /\ g[e] \in Int
      BY <3>1
    <3> HIDE DEF e, r
    <3>6. c[s] = a[s] + b[s]
      BY <3>2, <3>3, <3>4, <3>5
    <3> QED BY <3>6
  <2> QED BY <2>1, <2>2
<1>6. \A s \in SUBSET S : s \in Q
  <2> HIDE DEF Q
  <2> QED BY <1>5, SubsetInduction
<1>7. S \in SUBSET S
  OBVIOUS
<1>8. c[S] = a[S] + b[S]
  BY <1>6, <1>7
<1> QED BY <1>4, <1>7, <1>8

LEMMA TestedFinite ==
  IsFiniteSet(ToSet(Tested)) /\ \A i \in 1 .. Len(Tested) : Tested[i] \in ToSet(Tested)
<1>1. Tested \in Seq(ToSet(Tested))
  BY AccountAssumption
<1>2. Len(Tested) \in Nat /\ Tested \in [1 .. Len(Tested) -> ToSet(Tested)]
      /\ DOMAIN Tested = 1 .. Len(Tested)
  BY <1>1
<1>3. \A x \in ToSet(Tested) : \E i \in 1 .. Len(Tested) : Tested[i] = x
  BY <1>2 DEF ToSet
<1>4. Tested \in Surjection(1 .. Len(Tested), ToSet(Tested))
  BY <1>2, <1>3 DEF Surjection
<1>5. IsFiniteSet(1 .. Len(Tested))
  BY <1>2, FS_Interval
<1> QED BY <1>2, <1>4, <1>5, FS_Surjection

\* the tracker records one trade more
LEMMA OneMoreRecorded ==
  ASSUME NEW T, IsFiniteSet(T), NEW st \in [T -> Nat], NEW e \in T
  PROVE  /\ [st EXCEPT ![e] = @ + 1] \in [T -> Nat]
         /\ Total([st EXCEPT ![e] = @ + 1], T) = Total(st, T) + 1
<1> DEFINE new == [st EXCEPT ![e] = @ + 1]
<1>1. new \in [T -> Nat] /\ new[e] = st[e] + 1 /\ \A x \in T \ {e} : new[x] = st[x]
  OBVIOUS
<1>2. (\A x \in T : st[x] \in Int) /\ (\A x \in T : new[x] \in Int) /\ st[e] \in Int
  BY <1>1
<1>3. IsFiniteSet(T \ {e})
  BY FS_RemoveElement
<1> HIDE DEF new
<1>4. Total(st, T) = st[e] + Total(st, T \ {e})
  BY <1>2, SumRemove
<1>5. Total(new, T) = new[e] + Total(new, T \ {e})
  BY <1>2, SumRemove
<1>6. Total(st, T \ {e}) = Total(new, T \ {e}) /\ Total(st, T \ {e}) \in Int
  <2>1. \A x \in T \ {e} : st[x] \in Int /\ st[x] = new[x]
    BY <1>1, <1>2
  <2> QED BY <1>3, <2>1, SumSame, SumType
<1>7. Total(new, T) = Total(st, T) + 1
  BY <1>1, <1>2, <1>4, <1>5, <1>6
<1> QED BY <1>1, <1>7 DEF new

-----------------------------------------------------------------------------
(***************************************************************************)
(* The invariant, and the steps of a backtest.                             *)
(***************************************************************************)
\* what ResultAddsUp says of the result r
ReportTrue(b, f, p, h, st, r) ==
  /\ r.pnl = GainTotal(h) + Total(Gaining(p), DOMAIN p) - r.totalFees
  /\ r.wins = Cardinality({i \in FilledIn(h, "sell") : GainIn(h, i) > 0})
  /\ r.wins + r.losses = r.sellCount
  /\ r.sellCount + r.openPositions = Cardinality(FilledIn(h, "buy"))
  /\ b >= -f
  /\ Total(st, DOMAIN st) <= r.sellCount

ControlTypes ==
  /\ acc_cached \in Int /\ acc_dailyPnl \in Int
  /\ acc_running \in BOOLEAN /\ acc_expired \in BOOLEAN /\ acc_done \in BOOLEAN
  /\ acc_turn \in -1 .. Len(Tested) /\ acc_fed \in 0 .. Length
  /\ acc_turn # 0 => acc_candle \in Quotes
  /\ acc_stats \in [ToSet(Tested) -> Nat]

AccountRuns ==
  /\ Balanced(acc_balance, acc_fees, acc_positions, acc_history)
  /\ Total(acc_stats, ToSet(Tested)) <= Cardinality(FilledIn(acc_history, "sell"))

Reported ==
  acc_result # <<>> =>
    /\ acc_turn = 0
    /\ ReportTrue(acc_balance, acc_fees, acc_positions, acc_history, acc_stats, acc_result[1])

AccountInv == ControlTypes /\ AccountRuns /\ Reported

LEMMA FeeTypes ==
  ASSUME NEW cost \in Nat
  PROVE  Account!Commission(cost) \in Nat /\ Account!SellFees(cost) \in Nat
BY DEF Account!Commission, Account!SellFees

LEMMA HeldTypes ==
  ASSUME AccountRuns
  PROVE  /\ \A s \in DOMAIN acc_positions :
              /\ s \in AccSymbols
              /\ acc_positions[s] \in Positions
              /\ acc_positions[s].quantity \in Nat \ {0}
              /\ acc_positions[s].avg \in Nat /\ acc_positions[s].current \in Nat
              /\ acc_positions[s].strategy \in ToSet(Tested)
         /\ IsFiniteSet(DOMAIN acc_positions)
         /\ acc_positions \in [DOMAIN acc_positions -> Positions]
         /\ acc_balance \in Int /\ acc_fees \in Nat /\ acc_history \in Seq(OrderRecords)
<1>1. /\ IsFiniteSet(DOMAIN acc_positions) /\ DOMAIN acc_positions \subseteq AccSymbols
      /\ acc_positions \in [DOMAIN acc_positions -> Positions]
      /\ acc_balance \in Int /\ acc_fees \in Nat /\ acc_history \in Seq(OrderRecords)
  BY DEF AccountRuns, Balanced, AccountTypes
<1>2. \A s \in DOMAIN acc_positions : acc_positions[s] \in Positions
  BY <1>1
<1> QED BY <1>1, <1>2, AccountAssumption DEF Positions

LEMMA SellCount ==
  ASSUME AccountRuns
  PROVE  Cardinality(FilledIn(acc_history, "sell")) \in Nat
<1>1. acc_history \in Seq(OrderRecords)
  BY HeldTypes
<1> QED BY <1>1, FilledFinite

LEMMA StatsTotal ==
  ASSUME ControlTypes
  PROVE  Total(acc_stats, ToSet(Tested)) \in Int /\ DOMAIN acc_stats = ToSet(Tested)
<1>1. IsFiniteSet(ToSet(Tested))
  BY TestedFinite
<1>2. acc_stats \in [ToSet(Tested) -> Nat]
  BY DEF ControlTypes
<1>3. \A x \in ToSet(Tested) : acc_stats[x] \in Int
  BY <1>2
<1> QED BY <1>1, <1>2, <1>3, SumType

-----------------------------------------------------------------------------
LEMMA AccountStarts == Account!Init => AccountInv
<1> SUFFICES ASSUME Account!Init PROVE AccountInv
  OBVIOUS
<1>0. /\ acc_balance = InitialBalance /\ acc_dailyPnl = 0 /\ acc_fees = 0
      /\ acc_positions = <<>> /\ acc_history = <<>> /\ acc_running = TRUE
      /\ acc_cached = 0 /\ acc_expired = TRUE /\ acc_done = FALSE
      /\ acc_stats = [s \in Account!ToSet(Tested) |-> 0]
      /\ acc_turn = 0 /\ acc_fed = 0 /\ acc_result = <<>>
  BY DEF Account!Init
<1>1. acc_stats = [s \in ToSet(Tested) |-> 0]
  BY <1>0, AccountNames
<1>2. Len(Tested) \in Nat /\ Length \in Nat /\ InitialBalance \in Nat
  BY AccountAssumption
<1>3. ControlTypes
  <2>1. acc_stats \in [ToSet(Tested) -> Nat]
    BY <1>1
  <2>2. acc_turn \in -1 .. Len(Tested) /\ acc_fed \in 0 .. Length
    BY <1>0, <1>2
  <2>3. acc_running \in BOOLEAN /\ acc_expired \in BOOLEAN /\ acc_done \in BOOLEAN
    BY <1>0
  <2>4. acc_cached \in Int /\ acc_dailyPnl \in Int /\ ~(acc_turn # 0)
    BY <1>0
  <2> QED BY <2>1, <2>2, <2>3, <2>4 DEF ControlTypes
<1>4. /\ acc_history \in Seq(OrderRecords) /\ DOMAIN acc_history = {} /\ Len(acc_history) = 0
      /\ DOMAIN acc_positions = {}
  BY <1>0
<1>5. IsFiniteSet({}) /\ Cardinality({}) = 0
  BY FS_EmptySet
<1>6. AccountTypes(acc_balance, acc_fees, acc_positions, acc_history)
  <2>1. acc_positions \in [{} -> Positions]
    BY <1>4, <1>0
  <2> QED BY <1>0, <1>2, <1>4, <1>5, <2>1 DEF AccountTypes
<1>7. \A side : FilledIn(acc_history, side) = {}
  BY <1>4 DEF FilledIn
<1>8. \A side, s : Count(acc_history, side, s) = 0
  <2>1. \A side, s : UpTo(acc_history, side, s, Len(acc_history)) = {}
    BY <1>7 DEF UpTo
  <2> QED BY <1>5, <2>1 DEF Count
<1>9. Paired(acc_history) /\ HeldFrom(acc_history, acc_positions)
  BY <1>4, <1>7, <1>8 DEF Paired, HeldFrom
<1>10. GainTotal(acc_history) = 0 /\ Invested(acc_positions) = 0
  BY <1>4, <1>7, SumEmpty DEF GainTotal, Invested
<1>11. Balanced(acc_balance, acc_fees, acc_positions, acc_history)
  <2>1. Cardinality(FilledIn(acc_history, "sell")) + Cardinality(DOMAIN acc_positions)
          = Cardinality(FilledIn(acc_history, "buy"))
    <3>1. /\ Cardinality(FilledIn(acc_history, "sell")) = 0 /\ Cardinality(DOMAIN acc_positions) = 0
          /\ Cardinality(FilledIn(acc_history, "buy")) = 0
      BY <1>4, <1>5, <1>7
    <3> QED BY <3>1
  <2>2. /\ acc_balance + Invested(acc_positions) + acc_fees
             = InitialBalance + GainTotal(acc_history)
        /\ acc_balance + acc_fees >= 0
    BY <1>0, <1>2, <1>10
  <2> QED BY <1>6, <1>9, <2>1, <2>2 DEF Balanced
<1>12. Total(acc_stats, ToSet(Tested)) = 0
  <2> DEFINE T == ToSet(Tested)
  <2>1. IsFiniteSet(T) /\ \A s \in T : acc_stats[s] \in Int /\ acc_stats[s] = 0
    BY <1>1, TestedFinite
  <2>2. Total(acc_stats, T) + Total(acc_stats, T) = Total(acc_stats, T)
    <3>1. \A x \in T : acc_stats[x] \in Int
      BY <2>1
    <3>2. \A x \in T : acc_stats[x] = acc_stats[x] + acc_stats[x]
      BY <2>1
    <3> HIDE DEF T
    <3>3. Total(acc_stats, T) = Total(acc_stats, T) + Total(acc_stats, T)
      BY <2>1, <3>1, <3>2, SumPlus
    <3> QED BY <3>3
  <2>3. Total(acc_stats, T) \in Int
    BY <1>3, StatsTotal
  <2> HIDE DEF T
  <2>4. \A n \in Int : n + n = n => n = 0
    OBVIOUS
  <2>5. Total(acc_stats, T) = 0
    BY ONLY <2>2, <2>3, <2>4, Zenon
  <2> QED BY <2>5 DEF T
<1>13. AccountRuns
  BY <1>5, <1>7, <1>11, <1>12 DEF AccountRuns
<1> QED BY <1>0, <1>3, <1>13 DEF AccountInv, Reported

\* a forced sale, at the price of marked
LEMMA ForceCloseSteps ==
  ASSUME AccountInv, NEW s \in DOMAIN acc_positions, NEW marked \in Positions,
         marked.quantity = acc_positions[s].quantity, Account!ForceClose(s, marked)
  PROVE  AccountRuns' /\ acc_dailyPnl' \in Int /\ acc_stats' \in [ToSet(Tested) -> Nat]
<1> DEFINE p == acc_positions
    e == [symbol |-> s, side |-> "sell", price |-> marked.current,
          quantity |-> p[s].quantity, filled |-> TRUE]
    cost == marked.current * marked.quantity
    fee == Account!SellFees(cost)
<1>0. AccountRuns /\ ControlTypes
  BY DEF AccountInv
<1>1. /\ s \in AccSymbols /\ p[s].quantity \in Nat \ {0} /\ marked.current \in Nat
      /\ marked.avg \in Nat /\ marked.strategy \in ToSet(Tested) /\ acc_balance \in Int
  BY <1>0, HeldTypes DEF Positions
<1>2. cost \in Nat
  BY <1>1
<1>3. fee \in Nat
  BY <1>2, FeeTypes
<1>4. e \in OrderRecords
  BY <1>1 DEF OrderRecords
<1>5. acc_history' = Append(acc_history, e)
  BY DEF Account!ForceClose, Account!Recorded, Account!SellAll
<1>6. acc_balance' = acc_balance + cost - fee /\ acc_fees' = acc_fees + fee
  BY DEF Account!ForceClose, Account!Pay
<1>7. acc_positions' = Minus(p, s)
  BY AccountNames DEF Account!ForceClose
<1>8. acc_stats' = [acc_stats EXCEPT ![marked.strategy] = @ + 1]
  BY DEF Account!ForceClose
<1>9. acc_dailyPnl' \in Int
  <2>1. acc_dailyPnl' = acc_dailyPnl - fee + (marked.current - marked.avg) * marked.quantity
    BY DEF Account!ForceClose
  <2>2. acc_dailyPnl \in Int /\ marked.quantity \in Nat
    BY <1>0, <1>1 DEF ControlTypes
  <2>3. (marked.current - marked.avg) * marked.quantity \in Int
    BY <1>1, <2>2
  <2> HIDE DEF fee
  <2> QED BY <1>3, <2>1, <2>2, <2>3
<1>10. e.side = "sell" /\ e.filled /\ e.symbol = s /\ e.quantity = p[s].quantity
       /\ e.price * e.quantity = cost
  BY DEF e
<1> HIDE DEF fee, e
<1>11. /\ Balanced(acc_balance + e.price * e.quantity - fee, acc_fees + fee, Minus(p, s),
                   Append(acc_history, e))
       /\ Cardinality(FilledIn(Append(acc_history, e), "sell"))
            = Cardinality(FilledIn(acc_history, "sell")) + 1
  <2>1. Balanced(acc_balance, acc_fees, p, acc_history)
    BY <1>0 DEF AccountRuns
  <2> HIDE DEF p
  <2>2. e.symbol \in DOMAIN p /\ e.quantity = p[e.symbol].quantity
    BY <1>10 DEF p
  <2> QED BY <1>3, <1>4, <1>10, <2>1, <2>2, BalancedSold
<1>12. Balanced(acc_balance', acc_fees', acc_positions', acc_history')
  BY <1>5, <1>6, <1>7, <1>10, <1>11
<1>13. acc_stats' \in [ToSet(Tested) -> Nat]
       /\ Total(acc_stats', ToSet(Tested)) = Total(acc_stats, ToSet(Tested)) + 1
  <2>1. acc_stats \in [ToSet(Tested) -> Nat]
    BY <1>0 DEF ControlTypes
  <2> QED BY <1>1, <1>8, <2>1, TestedFinite, OneMoreRecorded
<1>14. Total(acc_stats', ToSet(Tested)) <= Cardinality(FilledIn(acc_history', "sell"))
  <2>1. Total(acc_stats, ToSet(Tested)) <= Cardinality(FilledIn(acc_history, "sell"))
    BY <1>0 DEF AccountRuns
  <2>2. Total(acc_stats, ToSet(Tested)) \in Int
    BY <1>0, StatsTotal
  <2>3. Cardinality(FilledIn(acc_history, "sell")) \in Nat
    BY <1>0, SellCount
  <2>4. Cardinality(FilledIn(acc_history', "sell")) = Cardinality(FilledIn(acc_history, "sell")) + 1
    BY <1>5, <1>11
  <2> QED BY <1>13, <2>1, <2>2, <2>3, <2>4
<1>15. AccountRuns'
  BY <1>12, <1>14 DEF AccountRuns
<1> QED BY <1>9, <1>13, <1>15

\* steps that leave the account alone
LEMMA AccountRunsOn ==
  ASSUME AccountRuns, UNCHANGED <<acc_balance, acc_fees, acc_history, acc_positions, acc_stats>>
  PROVE  AccountRuns'
BY DEF AccountRuns

LEMMA CandleSteps ==
  ASSUME AccountInv, NEW q \in Quotes, Account!Candle(q)
  PROVE  AccountInv'
<1>0. AccountRuns /\ ControlTypes
  BY DEF AccountInv
<1>1. /\ acc_turn = 0 /\ acc_result = <<>> /\ acc_fed < Length
      /\ acc_candle' = q /\ acc_fed' = acc_fed + 1
      /\ UNCHANGED <<acc_running, acc_cached, acc_expired, acc_done, acc_result>>
  BY DEF Account!Candle
<1>2. acc_turn' \in {acc_turn, -1}
  BY DEF Account!Candle
<1>3. AccountRuns' /\ acc_dailyPnl' \in Int /\ acc_stats' \in [ToSet(Tested) -> Nat]
  <2>1. CASE UNCHANGED <<acc_balance, acc_fees, acc_history, acc_dailyPnl, acc_positions,
                         acc_stats>>
    BY <1>0, <2>1, AccountRunsOn DEF ControlTypes
  <2>2. CASE ~UNCHANGED <<acc_balance, acc_fees, acc_history, acc_dailyPnl, acc_positions,
                          acc_stats>>
    <3> DEFINE marked == [acc_positions[q.symbol] EXCEPT !.current = q.price]
    <3>1. /\ q.symbol \in DOMAIN acc_positions
          /\ IF Account!Due(marked) THEN Account!ForceClose(q.symbol, marked)
             ELSE /\ acc_positions' = [acc_positions EXCEPT ![q.symbol] = marked]
                  /\ UNCHANGED <<acc_balance, acc_dailyPnl, acc_fees, acc_history, acc_stats>>
      BY <2>2, AccountNames DEF Account!Candle, Account!account
    <3>2. q.price \in Nat
      BY AccountAssumption
    <3>3. acc_positions[q.symbol] \in Positions
      BY <1>0, <3>1, HeldTypes
    <3>4. marked \in Positions /\ marked.quantity = acc_positions[q.symbol].quantity
      BY <3>2, <3>3 DEF Positions
    <3>5. CASE Account!Due(marked)
      <4> HIDE DEF marked
      <4>1. Account!ForceClose(q.symbol, marked)
        BY <3>1, <3>5
      <4> QED BY <3>1, <3>4, <4>1, ForceCloseSteps
    <3>6. CASE ~Account!Due(marked)
      <4>1. acc_positions' = [acc_positions EXCEPT ![q.symbol] = marked]
            /\ UNCHANGED <<acc_balance, acc_dailyPnl, acc_fees, acc_history, acc_stats>>
        BY <3>1, <3>6
      <4>2. Balanced(acc_balance, acc_fees, acc_positions, acc_history)
        BY <1>0 DEF AccountRuns
      <4>3. Balanced(acc_balance, acc_fees, [acc_positions EXCEPT ![q.symbol] = marked],
                     acc_history)
        BY <3>1, <3>2, <4>2, BalancedMarked
      <4> HIDE DEF marked
      <4>4. Balanced(acc_balance', acc_fees', acc_positions', acc_history')
        BY <4>1, <4>3
      <4> QED BY <1>0, <4>1, <4>4 DEF AccountRuns, ControlTypes
    <3> QED BY <3>5, <3>6
  <2> QED BY <2>1, <2>2
<1>4. ControlTypes'
  <2>1. Len(Tested) \in Nat /\ Length \in Nat
    BY AccountAssumption
  <2> QED BY <1>0, <1>1, <1>2, <1>3, <2>1 DEF ControlTypes
<1> QED BY <1>1, <1>3, <1>4 DEF AccountInv, Reported

-----------------------------------------------------------------------------
LEMMA LiquidateSteps ==
  ASSUME AccountInv, NEW s \in Account!Held, Account!LiquidateOne(s)
  PROVE  AccountInv'
<1>0. AccountRuns /\ ControlTypes /\ Reported
  BY DEF AccountInv
<1>1. s \in DOMAIN acc_positions
  BY AccountNames
<1>2. /\ acc_turn = -1 /\ Account!ForceClose(s, acc_positions[s])
      /\ acc_running' \in BOOLEAN /\ acc_done' \in BOOLEAN /\ acc_turn' \in {0, -1}
      /\ UNCHANGED <<acc_cached, acc_expired, acc_candle, acc_fed, acc_result>>
  BY DEF Account!LiquidateOne
<1>3. acc_positions[s] \in Positions
  BY <1>0, <1>1, HeldTypes
<1>4. AccountRuns' /\ acc_dailyPnl' \in Int /\ acc_stats' \in [ToSet(Tested) -> Nat]
  BY <1>1, <1>2, <1>3, ForceCloseSteps
<1>5. ControlTypes'
  <2>1. Len(Tested) \in Nat
    BY AccountAssumption
  <2> QED BY <1>0, <1>2, <1>4, <2>1 DEF ControlTypes
<1>6. acc_result' = <<>>
  BY <1>0, <1>2 DEF Reported
<1> QED BY <1>4, <1>5, <1>6 DEF AccountInv, Reported

\* the steps that move neither money nor shares
LEMMA QuietSteps ==
  ASSUME AccountInv, Account!CheckMarketClose \/ Account!Nothing \/ Account!WallClock
  PROVE  AccountInv'
<1>0. AccountRuns /\ ControlTypes /\ Reported
  BY DEF AccountInv
<1>1. /\ UNCHANGED <<acc_balance, acc_dailyPnl, acc_fees, acc_history, acc_positions, acc_stats,
                     acc_running, acc_cached, acc_fed, acc_candle, acc_result>>
      /\ acc_expired' \in BOOLEAN /\ acc_done' \in BOOLEAN
      /\ acc_result = <<>> \/ acc_turn # 0
      /\ acc_turn' \in -1 .. Len(Tested) /\ (acc_turn = 0 => acc_turn' = 0)
  <2>1. Len(Tested) \in Nat /\ acc_turn \in -1 .. Len(Tested) /\ acc_expired \in BOOLEAN
        /\ acc_done \in BOOLEAN
    BY <1>0, AccountAssumption DEF ControlTypes
  <2>2. CASE Account!CheckMarketClose
    <3>1. /\ acc_turn = -1 /\ acc_turn' = (IF Tested = <<>> THEN 0 ELSE 1)
          /\ UNCHANGED <<acc_balance, acc_dailyPnl, acc_fees, acc_history, acc_positions, acc_stats,
                     acc_running, acc_cached, acc_fed, acc_candle, acc_result, acc_expired>>
      BY <2>2 DEF Account!CheckMarketClose, Account!account
    <3>2. acc_done' \in BOOLEAN
      BY <2>2 DEF Account!CheckMarketClose
    <3>3. Tested # <<>> => Len(Tested) \in Nat \ {0}
      BY AccountAssumption
    <3>4. acc_turn' \in -1 .. Len(Tested) /\ acc_turn # 0
      BY <2>1, <3>1, <3>3
    <3> QED BY <2>1, <3>1, <3>2, <3>4
  <2>3. CASE Account!Nothing
    BY <2>1, <2>3 DEF Account!Nothing, Account!Heard, Account!account
  <2>4. CASE Account!WallClock
    BY <2>1, <2>4 DEF Account!WallClock, Account!account
  <2> QED BY <2>2, <2>3, <2>4
<1>2. AccountRuns'
  BY <1>0, <1>1, AccountRunsOn
<1>3. ControlTypes'
  BY <1>0, <1>1 DEF ControlTypes
<1>4. acc_result' = <<>>
  BY <1>0, <1>1 DEF Reported
<1> QED BY <1>2, <1>3, <1>4 DEF AccountInv, Reported

-----------------------------------------------------------------------------
LEMMA SizeTypes ==
  ASSUME AccountRuns, NEW funds \in Int, NEW price \in Nat \ {0}
  PROVE  /\ Account!MaxSize(funds, price) \in Int
         /\ Account!MaxSize(funds, price) <= MaxPositionSize
<1> DEFINE p == acc_positions
    affordable == funds \div price
    slot == (funds + Account!Worth) \div (MaxOpenPositions * price)
    cap == (MaxPositionRatio * funds) \div (100 * price)
<1>1. Account!Worth \in Int
  <2>1. IsFiniteSet(DOMAIN p)
    BY HeldTypes
  <2>2. \A s \in DOMAIN p : Worths(p)[s] \in Int
    BY HeldTypes DEF Worths
  <2>3. Account!Worth = Total(Worths(p), DOMAIN p)
    BY <2>1, <2>2, WorthIs
  <2>4. Total(Worths(p), DOMAIN p) \in Int
    BY <2>1, <2>2, SumType
  <2> QED BY <2>3, <2>4
<1>2. MaxOpenPositions \in Nat \ {0} /\ MaxPositionRatio \in Nat /\ MaxPositionSize \in Nat
  BY AccountAssumption
<1>3. affordable \in Int
  OBVIOUS
<1>4. slot \in Int
  <2>1. MaxOpenPositions * price \in Nat \ {0}
    <3>1. \A a, b \in Nat \ {0} : a * b \in Nat \ {0}
      OBVIOUS
    <3> QED BY <1>2, <3>1
  <2>2. \A a \in Int, b \in Nat \ {0} : a \div b \in Int
    OBVIOUS
  <2>3. funds + Account!Worth \in Int
    BY <1>1
  <2> QED BY <2>1, <2>2, <2>3
<1>5. cap \in Int
  <2>1. 100 * price \in Nat \ {0} /\ MaxPositionRatio * funds \in Int
    BY <1>2
  <2>2. \A a \in Int, b \in Nat \ {0} : a \div b \in Int
    OBVIOUS
  <2> QED BY <2>1, <2>2
<1>6. Account!MaxSize(funds, price)
        = Account!Min2(affordable, Account!Min2(slot, Account!Min2(cap, MaxPositionSize)))
  BY DEF Account!MaxSize
<1>7. \A a, b \in Int : Account!Min2(a, b) \in Int /\ Account!Min2(a, b) <= b
  BY DEF Account!Min2
<1> HIDE DEF affordable, slot, cap
<1> DEFINE m1 == Account!Min2(cap, MaxPositionSize)
    m2 == Account!Min2(slot, m1)
    m3 == Account!Min2(affordable, m2)
<1>8. m1 \in Int /\ m1 <= MaxPositionSize
  BY <1>2, <1>5, <1>7
<1>9. m2 \in Int /\ m2 <= m1
  <2> HIDE DEF m1
  <2> QED BY <1>4, <1>7, <1>8
<1>10. m3 \in Int /\ m3 <= m2
  <2> HIDE DEF m2
  <2> QED BY <1>3, <1>7, <1>9
<1>11. Account!MaxSize(funds, price) = m3
  BY <1>6
<1> HIDE DEF m1, m2, m3
<1>12. m3 <= MaxPositionSize
  BY <1>2, <1>8, <1>9, <1>10
<1> QED BY <1>10, <1>11, <1>12

LEMMA BuySteps ==
  ASSUME AccountInv, Account!Buy
  PROVE  AccountInv'
<1> DEFINE s == acc_candle.symbol
    price == acc_candle.price
    size == Account!MaxSize(Account!Balance, price)
    order == [symbol |-> s, side |-> "buy", price |-> price, quantity |-> size]
    e(filled) == [symbol |-> s, side |-> "buy", price |-> price, quantity |-> size,
                  filled |-> filled]
    new == [quantity |-> size, avg |-> price, current |-> price, strategy |-> Tested[acc_turn]]
    cost == price * size
    fee == Account!Commission(cost)
<1>0. AccountRuns /\ ControlTypes /\ Reported
  BY DEF AccountInv
<1>1. /\ acc_turn > 0 /\ s \notin DOMAIN acc_positions
      /\ acc_cached' = Account!Balance /\ acc_expired' = FALSE
      /\ acc_turn' = IF acc_turn = Len(Tested) THEN 0 ELSE acc_turn + 1
      /\ UNCHANGED <<acc_running, acc_done, acc_stats, acc_candle, acc_fed, acc_result>>
  BY AccountNames DEF Account!Buy, Account!MayBuy, Account!Fetch, Account!Heard
<1>2. acc_turn \in 1 .. Len(Tested) /\ Len(Tested) \in Nat /\ acc_candle \in Quotes
  BY <1>0, <1>1, AccountAssumption DEF ControlTypes
<1>3. s \in AccSymbols /\ price \in Nat \ {0} /\ Tested[acc_turn] \in ToSet(Tested)
  BY <1>2, AccountAssumption, TestedFinite DEF AccSymbols
<1>4. acc_balance \in Int /\ acc_fees \in Nat /\ Account!Balance \in Int
  BY <1>0, HeldTypes DEF Account!Balance, ControlTypes
<1>5. size \in Int /\ size <= MaxPositionSize /\ MaxPositionSize \in Nat
  BY <1>0, <1>3, <1>4, SizeTypes, AccountAssumption
<1>6. AccountRuns' /\ acc_dailyPnl' \in Int
  <2>1. CASE size <= 0
    <3>1. UNCHANGED <<acc_balance, acc_dailyPnl, acc_fees, acc_history, acc_positions>>
      BY <2>1 DEF Account!Buy, Account!account
    <3> QED BY <1>0, <1>1, <3>1, AccountRunsOn DEF ControlTypes
  <2>2. CASE size > 0
    <3>0. size \in 1 .. MaxPositionSize
      BY <1>5, <2>2
    <3>1. Account!Submit(order)
          /\ IF Account!Filled(order)
             THEN acc_positions' = [p \in DOMAIN acc_positions \cup {s} |->
                                      IF p = s THEN new ELSE acc_positions[p]]
             ELSE UNCHANGED acc_positions
      <4>1. ~(size <= 0)
        BY <3>0
      <4> QED BY <4>1, AccountNames DEF Account!Buy, Account!Mover
    <3>2. Account!Filled(order) <=> cost <= acc_balance
      BY DEF Account!Filled
    <3>3. cost \in Nat
      <4>1. price \in Nat /\ size \in Nat
        BY <1>3, <3>0
      <4> QED BY <4>1
    <3>4. fee \in Nat
      BY <3>3, FeeTypes
    <3>5. e(TRUE) \in OrderRecords /\ e(FALSE) \in OrderRecords
      <4>1. size \in Nat \ {0} /\ price \in Nat
        BY <1>3, <3>0
      <4> HIDE DEF s, price, size
      <4> QED BY <1>3, <4>1 DEF OrderRecords
    <3>6. new \in Positions
      <4>1. price \in Nat
        BY <1>3
      <4> HIDE DEF s, price, size
      <4> QED BY <1>3, <3>0, <4>1 DEF Positions
    <3>7. Balanced(acc_balance, acc_fees, acc_positions, acc_history)
      BY <1>0 DEF AccountRuns
    <3>8. CASE Account!Filled(order)
      <4>1. /\ acc_history' = Append(acc_history, e(TRUE))
            /\ acc_balance' = acc_balance - (cost + fee) /\ acc_fees' = acc_fees + fee
            /\ acc_dailyPnl' = acc_dailyPnl
        <5>1. Account!Filled(order) = TRUE
          BY <3>8 DEF Account!Filled
        <5>2. acc_history' = Append(acc_history, e(TRUE))
          <6>1. acc_history' = Append(acc_history, Account!Recorded(order, Account!Filled(order)))
            BY <3>1 DEF Account!Submit
          <6>2. acc_history' = Append(acc_history, Account!Recorded(order, TRUE))
            BY <5>1, <6>1
          <6> HIDE DEF s, price, size
          <6> QED BY <6>2 DEF Account!Recorded
        <5>3. Account!Pay(order, cost) /\ acc_dailyPnl' = acc_dailyPnl
          <6> HIDE DEF s, price, size
          <6> QED BY <3>1, <3>8 DEF Account!Submit
        <5> HIDE DEF s, price, size
        <5> QED BY <5>2, <5>3 DEF Account!Pay
      <4>2. acc_positions' = [p \in DOMAIN acc_positions \cup {s} |->
                                IF p = s THEN new ELSE acc_positions[p]]
        BY <3>1, <3>8
      <4>3. cost <= acc_balance
        BY <3>2, <3>8
      <4> DEFINE r == e(TRUE)
          q == [p \in DOMAIN acc_positions \cup {s} |-> IF p = s THEN new ELSE acc_positions[p]]
      <4>4. r.side = "buy" /\ r.filled /\ r.symbol = s /\ r.price * r.quantity = cost
            /\ new.avg = r.price /\ new.quantity = r.quantity
        OBVIOUS
      <4>5. r \in OrderRecords
        BY <3>5
      <4> HIDE DEF r, new, cost, fee, s, price, size
      <4>6. /\ Balanced(acc_balance - (r.price * r.quantity + fee), acc_fees + fee, q,
                        Append(acc_history, r))
            /\ FilledIn(Append(acc_history, r), "sell") = FilledIn(acc_history, "sell")
        <5>1. q = [x \in DOMAIN acc_positions \cup {r.symbol} |->
                     IF x = r.symbol THEN new ELSE acc_positions[x]]
          BY <4>4
        <5>2. r.symbol \notin DOMAIN acc_positions /\ r.price * r.quantity <= acc_balance
          BY <1>1, <4>3, <4>4
        <5> HIDE DEF q
        <5> QED BY <3>4, <3>6, <3>7, <4>4, <4>5, <5>1, <5>2, BalancedBought
      <4>7. Balanced(acc_balance', acc_fees', acc_positions', acc_history')
            /\ FilledIn(acc_history', "sell") = FilledIn(acc_history, "sell")
        BY <4>1, <4>2, <4>4, <4>6 DEF r
      <4> QED BY <1>0, <1>1, <4>1, <4>7 DEF AccountRuns, ControlTypes
    <3>9. CASE ~Account!Filled(order)
      <4>1. acc_history' = Append(acc_history, e(FALSE))
        <5>1. Account!Filled(order) = FALSE
          BY <3>9 DEF Account!Filled
        <5>2. acc_history' = Append(acc_history, Account!Recorded(order, Account!Filled(order)))
          BY <3>1 DEF Account!Submit
        <5>3. acc_history' = Append(acc_history, Account!Recorded(order, FALSE))
          BY <5>1, <5>2
        <5> HIDE DEF s, price, size
        <5> QED BY <5>3 DEF Account!Recorded
      <4>2. UNCHANGED <<acc_balance, acc_dailyPnl, acc_fees, acc_positions>>
        <5> HIDE DEF s, price, size
        <5> QED BY <3>1, <3>9 DEF Account!Submit
      <4> DEFINE r == e(FALSE)
      <4>3. r \in OrderRecords /\ ~r.filled
        BY <3>5
      <4> HIDE DEF r
      <4>4. /\ Balanced(acc_balance, acc_fees, acc_positions, Append(acc_history, r))
            /\ FilledIn(Append(acc_history, r), "sell") = FilledIn(acc_history, "sell")
        BY <3>7, <4>3, BalancedRejected
      <4>5. Balanced(acc_balance', acc_fees', acc_positions', acc_history')
            /\ FilledIn(acc_history', "sell") = FilledIn(acc_history, "sell")
        BY <4>1, <4>2, <4>4 DEF r
      <4> QED BY <1>0, <1>1, <4>2, <4>5 DEF AccountRuns, ControlTypes
    <3> QED BY <3>8, <3>9
  <2> QED BY <1>5, <2>1, <2>2
<1> HIDE DEF s, price, size
<1>7. ControlTypes'
  <2>1. acc_turn' \in -1 .. Len(Tested)
    BY <1>1, <1>2
  <2> QED BY <1>0, <1>1, <1>2, <1>4, <1>6, <2>1 DEF ControlTypes
<1>8. acc_result' = <<>>
  BY <1>0, <1>1 DEF Reported
<1> QED BY <1>6, <1>7, <1>8 DEF AccountInv, Reported

-----------------------------------------------------------------------------
\* a strategy's sale: the tracker is not told
LEMMA SellSteps ==
  ASSUME AccountInv, Account!Sell
  PROVE  AccountInv'
<1> DEFINE p == acc_positions
    s == acc_candle.symbol
    order == Account!SellAll(s)
    e == Account!Recorded(order, TRUE)
    cost == order.price * order.quantity
    fee == Account!SellFees(cost)
<1>0. AccountRuns /\ ControlTypes /\ Reported
  BY DEF AccountInv
<1>1. /\ acc_turn > 0
      /\ acc_cached' = Account!Balance /\ acc_expired' = FALSE
      /\ acc_turn' = IF acc_turn = Len(Tested) THEN 0 ELSE acc_turn + 1
      /\ UNCHANGED <<acc_running, acc_done, acc_stats, acc_candle, acc_fed, acc_result>>
  BY DEF Account!Sell, Account!Fetch, Account!Heard
<1>2. acc_turn \in 1 .. Len(Tested) /\ Len(Tested) \in Nat /\ acc_candle \in Quotes
  BY <1>0, <1>1, AccountAssumption DEF ControlTypes
<1>3. acc_balance \in Int /\ acc_fees \in Nat /\ Account!Balance \in Int /\ acc_dailyPnl \in Int
  BY <1>0, HeldTypes DEF Account!Balance, ControlTypes
<1>4. AccountRuns' /\ acc_dailyPnl' \in Int
  <2>1. CASE UNCHANGED <<acc_balance, acc_dailyPnl, acc_fees, acc_history, acc_positions>>
    BY <1>0, <1>1, <2>1, AccountRunsOn DEF ControlTypes
  <2>2. CASE ~UNCHANGED <<acc_balance, acc_dailyPnl, acc_fees, acc_history, acc_positions>>
    <3>1. s \in DOMAIN p /\ Account!Submit(order) /\ acc_positions' = Minus(p, s)
      BY <2>2, AccountNames DEF Account!Sell, Account!account
    <3>2. /\ s \in AccSymbols /\ p[s].quantity \in Nat \ {0} /\ p[s].current \in Nat
          /\ p[s].avg \in Nat
      BY <1>0, <3>1, HeldTypes
    <3>3. /\ order = [symbol |-> s, side |-> "sell", price |-> p[s].current,
                      quantity |-> p[s].quantity]
          /\ e = [symbol |-> s, side |-> "sell", price |-> p[s].current,
                  quantity |-> p[s].quantity, filled |-> TRUE]
      BY DEF Account!SellAll, Account!Recorded
    <3>4. e \in OrderRecords
      <4> HIDE DEF e, s, p
      <4> QED BY <3>2, <3>3 DEF OrderRecords
    <3>5. cost \in Nat
      <4> HIDE DEF order, s, p
      <4>1. order.price \in Nat /\ order.quantity \in Nat
        BY <3>2, <3>3
      <4> QED BY <4>1
    <3>6. fee \in Nat
      <4> HIDE DEF cost
      <4> QED BY <3>5, FeeTypes
    <3>7. Account!Filled(order) = TRUE
      BY <3>3 DEF Account!Filled
    <3>8. acc_history' = Append(acc_history, e)
      <4>1. acc_history' = Append(acc_history, Account!Recorded(order, Account!Filled(order)))
        BY <3>1 DEF Account!Submit
      <4> QED BY <3>7, <4>1
    <3>9. /\ Account!Pay(order, cost) /\ order.side = "sell"
          /\ acc_dailyPnl' = acc_dailyPnl - fee
                             + (order.price - p[order.symbol].avg) * order.quantity
      BY <3>1, <3>3, <3>7 DEF Account!Submit
    <3> HIDE DEF order, e, p, s
    <3>10. acc_balance' = acc_balance + cost - fee /\ acc_fees' = acc_fees + fee
      BY <3>9 DEF Account!Pay
    <3>11. acc_dailyPnl' \in Int
      <4>1. (order.price - p[order.symbol].avg) * order.quantity \in Int
        BY <3>2, <3>3
      <4> HIDE DEF fee
      <4> QED BY <1>3, <3>6, <3>9, <4>1
    <3> HIDE DEF fee, cost
    <3>12. /\ e.side = "sell" /\ e.filled /\ e.symbol = s /\ e.quantity = p[s].quantity
           /\ e.price * e.quantity = cost
      BY <3>3 DEF cost
    <3>13. /\ Balanced(acc_balance + e.price * e.quantity - fee, acc_fees + fee, Minus(p, s),
                       Append(acc_history, e))
           /\ Cardinality(FilledIn(Append(acc_history, e), "sell"))
                = Cardinality(FilledIn(acc_history, "sell")) + 1
      <4>1. Balanced(acc_balance, acc_fees, p, acc_history)
        BY <1>0 DEF AccountRuns, p
      <4>2. e.symbol \in DOMAIN p /\ e.quantity = p[e.symbol].quantity
        BY <3>1, <3>12
      <4> QED BY <3>4, <3>6, <3>12, <4>1, <4>2, BalancedSold
    <3>14. Balanced(acc_balance', acc_fees', acc_positions', acc_history')
      BY <3>1, <3>8, <3>10, <3>12, <3>13
    <3>15. Total(acc_stats', ToSet(Tested)) <= Cardinality(FilledIn(acc_history', "sell"))
      <4>1. Total(acc_stats, ToSet(Tested)) <= Cardinality(FilledIn(acc_history, "sell"))
            /\ acc_stats' = acc_stats
        BY <1>0, <1>1 DEF AccountRuns
      <4>2. Total(acc_stats, ToSet(Tested)) \in Int
            /\ Cardinality(FilledIn(acc_history, "sell")) \in Nat
        BY <1>0, StatsTotal, SellCount
      <4> QED BY <3>8, <3>13, <4>1, <4>2
    <3> QED BY <3>11, <3>14, <3>15 DEF AccountRuns
  <2> QED BY <2>1, <2>2
<1> HIDE DEF s, p
<1>5. ControlTypes'
  <2>1. acc_turn' \in -1 .. Len(Tested)
    BY <1>1, <1>2
  <2> QED BY <1>0, <1>1, <1>2, <1>3, <1>4, <2>1 DEF ControlTypes
<1>6. acc_result' = <<>>
  BY <1>0, <1>1 DEF Reported
<1> QED BY <1>4, <1>5, <1>6 DEF AccountInv, Reported

-----------------------------------------------------------------------------
\* the report pairs a sale with the purchase it sold
LEMMA MatchedIs ==
  ASSUME AccountRuns, NEW i \in FilledIn(acc_history, "sell")
  PROVE  /\ Account!MatchingBuys(i) # {}
         /\ Account!Max(Account!MatchingBuys(i)) = BoughtIn(acc_history, i)
<1> DEFINE h == acc_history
    M == Account!MatchingBuys(i)
<1>0. h \in Seq(OrderRecords) /\ Paired(h)
  BY DEF AccountRuns, Balanced, AccountTypes
<1>1. PICK j : SoldFrom(h, i, j)
  BY <1>0 DEF Paired
<1>2. BoughtIn(h, i) = j
  BY <1>0, <1>1, BoughtIs
<1>3. M = {k \in FilledIn(h, "buy") : k < i /\ h[k].symbol = h[i].symbol}
  BY AccountNames DEF Account!MatchingBuys
<1>4. FilledIn(h, "buy") \subseteq 1 .. Len(h) /\ Len(h) \in Nat
  BY <1>0, FilledFinite
<1>5. j \in M /\ \A k \in M : k <= j
  BY <1>1, <1>3 DEF SoldFrom
<1>6. \A k \in M : k \in Nat
  BY <1>3, <1>4
<1> HIDE DEF M, h
<1>7. \A k \in M : (\A x \in M : k >= x) => k = j
  BY <1>5, <1>6
<1>8. \A x \in M : j >= x
  BY <1>5, <1>6
<1>9. Account!Max(M) = CHOOSE k \in M : \A x \in M : k >= x
  BY DEF Account!Max
<1>10. Account!Max(M) = j
  BY <1>5, <1>7, <1>8, <1>9
<1> QED BY <1>2, <1>5, <1>10 DEF M, h

\* a sale that gained is one at a higher price
LEMMA WonIs ==
  ASSUME AccountRuns, NEW i \in FilledIn(acc_history, "sell")
  PROVE  GainIn(acc_history, i) > 0
           <=> acc_history[i].price > acc_history[BoughtIn(acc_history, i)].price
<1> DEFINE h == acc_history
    a == h[i].price
    b == h[BoughtIn(h, i)].price
    n == h[i].quantity
<1>0. h \in Seq(OrderRecords) /\ Paired(h)
  BY DEF AccountRuns, Balanced, AccountTypes
<1>1. PICK j : SoldFrom(h, i, j)
  BY <1>0 DEF Paired
<1>2. BoughtIn(h, i) = j
  BY <1>0, <1>1, BoughtIs
<1>3. i \in 1 .. Len(h) /\ j \in 1 .. Len(h)
  BY <1>0, <1>1, FilledFinite DEF SoldFrom
<1>4. h[i] \in OrderRecords /\ h[j] \in OrderRecords
  BY <1>0, <1>3
<1>5. a \in Nat /\ b \in Nat /\ n \in Nat \ {0}
  BY <1>2, <1>4 DEF OrderRecords
<1>6. GainIn(h, i) = (a - b) * n
  BY DEF GainIn
<1> HIDE DEF a, b, n
<1>7. \A d \in Int, k \in Nat \ {0} : d * k > 0 <=> d > 0
  OBVIOUS
<1>8. a - b \in Int
  BY <1>5
<1>9. (a - b) * n > 0 <=> a - b > 0
  BY <1>5, <1>7, <1>8
<1>10. a - b > 0 <=> a > b
  BY <1>5
<1> QED BY <1>6, <1>9, <1>10 DEF a, b

\* profits are measured from what is held and from what was sold
LEMMA WorthSplits ==
  ASSUME AccountRuns
  PROVE  /\ Account!Worth
              = Invested(acc_positions) + Total(Gaining(acc_positions), DOMAIN acc_positions)
         /\ Invested(acc_positions) \in Int
         /\ Total(Gaining(acc_positions), DOMAIN acc_positions) \in Int
<1> DEFINE p == acc_positions
    D == DOMAIN p
<1>1. IsFiniteSet(D) /\ p \in [D -> Positions]
  BY HeldTypes
<1>2. \A s \in D : p[s].quantity \in Nat /\ p[s].avg \in Nat /\ p[s].current \in Nat
  BY HeldTypes
<1>3. \A s \in D : /\ Worths(p)[s] = p[s].current * p[s].quantity
                   /\ Cost(p)[s] = p[s].avg * p[s].quantity
                   /\ Gaining(p)[s] = (p[s].current - p[s].avg) * p[s].quantity
  BY DEF Worths, Cost, Gaining
<1>4. \A c, a, q \in Nat : c * q = a * q + (c - a) * q /\ c * q \in Int /\ a * q \in Int
                           /\ (c - a) * q \in Int
  OBVIOUS
<1>5. \A s \in D : Worths(p)[s] \in Int /\ Cost(p)[s] \in Int /\ Gaining(p)[s] \in Int
                   /\ Worths(p)[s] = Cost(p)[s] + Gaining(p)[s]
  <2> SUFFICES ASSUME NEW s \in D
               PROVE  Worths(p)[s] \in Int /\ Cost(p)[s] \in Int /\ Gaining(p)[s] \in Int
                      /\ Worths(p)[s] = Cost(p)[s] + Gaining(p)[s]
    OBVIOUS
  <2> DEFINE c == p[s].current
      a == p[s].avg
      n == p[s].quantity
  <2>1. c \in Nat /\ a \in Nat /\ n \in Nat
    BY <1>2
  <2>2. Worths(p)[s] = c * n /\ Cost(p)[s] = a * n /\ Gaining(p)[s] = (c - a) * n
    BY <1>3
  <2> HIDE DEF c, a, n
  <2>3. c * n = a * n + (c - a) * n /\ c * n \in Int /\ a * n \in Int /\ (c - a) * n \in Int
    BY <1>4, <2>1
  <2> QED BY <2>2, <2>3
<1>6. Account!Worth = Total(Worths(p), D)
  BY <1>1, <1>5, WorthIs
<1> HIDE DEF p, D
<1>7. Total(Worths(p), D) = Total(Cost(p), D) + Total(Gaining(p), D)
  BY <1>1, <1>5, SumPlus
<1>8. Total(Cost(p), D) \in Int /\ Total(Gaining(p), D) \in Int
  BY <1>1, <1>5, SumType
<1> QED BY <1>6, <1>7, <1>8 DEF Invested, p, D

-----------------------------------------------------------------------------
\* what the report counts
LEMMA ReportCounts ==
  ASSUME AccountRuns
  PROVE  /\ Account!Wins = {i \in FilledIn(acc_history, "sell") : GainIn(acc_history, i) > 0}
         /\ {i \in Account!Of("sell") : Account!MatchingBuys(i) # {}}
              = FilledIn(acc_history, "sell")
         /\ Cardinality(Account!Wins) + Cardinality(FilledIn(acc_history, "sell") \ Account!Wins)
              = Cardinality(FilledIn(acc_history, "sell"))
<1> DEFINE S == FilledIn(acc_history, "sell")
    W == Account!Wins
<1>1. Account!Of("sell") = S
  BY AccountNames
<1>2. \A i \in S : /\ Account!MatchingBuys(i) # {}
                   /\ Account!Max(Account!MatchingBuys(i)) = BoughtIn(acc_history, i)
                   /\ GainIn(acc_history, i) > 0
                        <=> acc_history[i].price > acc_history[BoughtIn(acc_history, i)].price
  BY MatchedIs, WonIs
<1>3. W = {i \in S : GainIn(acc_history, i) > 0}
  <2> HIDE DEF S
  <2> QED BY <1>1, <1>2 DEF Account!Wins
<1>4. {i \in Account!Of("sell") : Account!MatchingBuys(i) # {}} = S
  <2> HIDE DEF S
  <2> QED BY <1>1, <1>2
<1>5. Cardinality(W) + Cardinality(S \ W) = Cardinality(S)
  <2>1. acc_history \in Seq(OrderRecords)
    BY HeldTypes
  <2>2. IsFiniteSet(S) /\ Cardinality(S) \in Nat
    BY <2>1, FilledFinite
  <2> HIDE DEF S, W
  <2>3. W \subseteq S
    BY <1>3
  <2>4. IsFiniteSet(W)
    BY <2>2, <2>3, FS_Subset
  <2>5. Cardinality(W) \in Nat /\ S \cap W = W
    BY <2>3, <2>4, FS_CardinalityType
  <2>6. Cardinality(S \ W) = Cardinality(S) - Cardinality(S \cap W)
    BY <2>2, FS_Difference
  <2>7. Cardinality(S \ W) = Cardinality(S) - Cardinality(W)
    BY <2>5, <2>6
  <2> QED BY <2>2, <2>5, <2>7
<1> QED BY <1>3, <1>4, <1>5

LEMMA ReportSteps ==
  ASSUME AccountInv, Account!Report
  PROVE  AccountInv'
<1> DEFINE r == acc_result'[1]
    S == FilledIn(acc_history, "sell")
    D == DOMAIN acc_positions
<1>0. AccountRuns /\ ControlTypes
  BY DEF AccountInv
<1>1. /\ acc_turn = 0
      /\ UNCHANGED <<acc_balance, acc_dailyPnl, acc_fees, acc_history, acc_positions, acc_running,
                     acc_cached, acc_expired, acc_done, acc_stats, acc_turn, acc_candle, acc_fed>>
  BY DEF Account!Report, Account!account
<1>2. AccountRuns' /\ ControlTypes'
  <2>1. AccountRuns'
    BY <1>0, <1>1, AccountRunsOn
  <2> QED BY <1>0, <1>1, <2>1 DEF ControlTypes
<1>3. /\ r.pnl = acc_balance + Account!Worth - InitialBalance
      /\ r.sellCount = Account!Cardinality(Account!Of("sell"))
      /\ r.wins = Account!Cardinality(Account!Wins)
      /\ r.losses = Account!Cardinality({i \in Account!Of("sell") : Account!MatchingBuys(i) # {}}
                                          \ Account!Wins)
      /\ r.totalFees = acc_fees
      /\ r.openPositions = Account!Cardinality(Account!Held)
  BY DEF Account!Report
<1> HIDE DEF r
<1>4. /\ r.sellCount = Cardinality(S) /\ r.openPositions = Cardinality(D)
      /\ r.wins = Cardinality(Account!Wins) /\ r.losses = Cardinality(S \ Account!Wins)
  <2>1. {i \in Account!Of("sell") : Account!MatchingBuys(i) # {}} = S
    BY <1>0, ReportCounts
  <2>2. Account!Of("sell") = S /\ Account!Held = D /\ \A x : Account!Cardinality(x) = Cardinality(x)
    BY AccountNames
  <2> HIDE DEF S, D
  <2>3. r.losses = Account!Cardinality(S \ Account!Wins)
    BY <1>3, <2>1
  <2> QED BY <1>3, <2>2, <2>3
<1>5. /\ acc_balance + Invested(acc_positions) + acc_fees = InitialBalance + GainTotal(acc_history)
      /\ acc_balance + acc_fees >= 0
      /\ Cardinality(S) + Cardinality(D) = Cardinality(FilledIn(acc_history, "buy"))
      /\ Total(acc_stats, ToSet(Tested)) <= Cardinality(S)
      /\ acc_balance \in Int /\ acc_fees \in Nat
      /\ acc_history \in Seq(OrderRecords) /\ Paired(acc_history)
  BY <1>0 DEF AccountRuns, Balanced, AccountTypes
<1>6. GainTotal(acc_history) \in Int /\ InitialBalance \in Nat
  BY <1>5, GainTotalType, AccountAssumption
<1>7. /\ Account!Worth = Invested(acc_positions) + Total(Gaining(acc_positions), D)
      /\ Invested(acc_positions) \in Int /\ Total(Gaining(acc_positions), D) \in Int
  BY <1>0, WorthSplits
<1>8. r.pnl = GainTotal(acc_history) + Total(Gaining(acc_positions), D) - r.totalFees
  <2> DEFINE gained == GainTotal(acc_history)
      invested == Invested(acc_positions)
      open == Total(Gaining(acc_positions), D)
      worth == Account!Worth
  <2>1. /\ gained \in Int /\ invested \in Int /\ open \in Int /\ InitialBalance \in Nat
        /\ acc_balance \in Int /\ acc_fees \in Nat
        /\ worth = invested + open
        /\ acc_balance + invested + acc_fees = InitialBalance + gained
        /\ r.pnl = acc_balance + worth - InitialBalance /\ r.totalFees = acc_fees
    BY <1>3, <1>5, <1>6, <1>7
  <2> HIDE DEF gained, invested, open, worth
  <2>2. acc_balance + (invested + open) - InitialBalance = gained + open - acc_fees
    BY <2>1
  <2>3. r.pnl = gained + open - r.totalFees
    BY <2>1, <2>2
  <2> QED BY <2>3 DEF gained, open
<1>9. r.wins = Cardinality({i \in S : GainIn(acc_history, i) > 0})
      /\ r.wins + r.losses = r.sellCount
  <2>1. /\ Account!Wins = {i \in S : GainIn(acc_history, i) > 0}
        /\ Cardinality(Account!Wins) + Cardinality(S \ Account!Wins) = Cardinality(S)
    BY <1>0, ReportCounts
  <2> HIDE DEF S
  <2> QED BY <1>4, <2>1
<1>10. acc_balance >= -acc_fees
  BY <1>5
<1>11. DOMAIN acc_stats = ToSet(Tested)
  BY <1>0, StatsTotal
<1>12. ReportTrue(acc_balance, acc_fees, acc_positions, acc_history, acc_stats, r)
  BY <1>4, <1>5, <1>8, <1>9, <1>10, <1>11 DEF ReportTrue
<1>13. Reported'
  BY <1>1, <1>12 DEF Reported, r
<1> QED BY <1>2, <1>13 DEF AccountInv

LEMMA AccountSteps ==
  ASSUME AccountInv, Account!Next
  PROVE  AccountInv'
<1>1. CASE \E q \in Quotes : Account!Candle(q)
  BY <1>1, CandleSteps
<1>2. CASE \E s \in Account!Held : Account!LiquidateOne(s)
  BY <1>2, LiquidateSteps
<1>3. CASE Account!CheckMarketClose \/ Account!Nothing \/ Account!WallClock
  BY <1>3, QuietSteps
<1>4. CASE Account!Buy
  BY <1>4, BuySteps
<1>5. CASE Account!Sell
  BY <1>5, SellSteps
<1>6. CASE Account!Report
  BY <1>6, ReportSteps
<1> QED BY <1>1, <1>2, <1>3, <1>4, <1>5, <1>6 DEF Account!Next

LEMMA AccountRests == AccountInv /\ UNCHANGED accountVars => AccountInv'
BY DEF AccountInv, ControlTypes, AccountRuns, Reported, accountVars

LEMMA AccountMeans == AccountInv => Account!ResultAddsUp
<1> SUFFICES ASSUME AccountInv, acc_result # <<>> PROVE Account!ResultAddsUp
  BY DEF Account!ResultAddsUp
<1> DEFINE r == acc_result[1]
    S == FilledIn(acc_history, "sell")
    D == DOMAIN acc_positions
<1>0. AccountRuns /\ ControlTypes
      /\ ReportTrue(acc_balance, acc_fees, acc_positions, acc_history, acc_stats, r)
  BY DEF AccountInv, Reported
<1>1. acc_history \in Seq(OrderRecords) /\ Paired(acc_history)
  BY <1>0 DEF AccountRuns, Balanced, AccountTypes
<1>2. Account!MapThenSumSet(Account!Gain, S) = GainTotal(acc_history)
  BY <1>1, GainsAre
<1>3. Account!MapThenSumSet(Account!Unrealised, D) = Total(Gaining(acc_positions), D)
  <2>1. IsFiniteSet(D)
    BY <1>0, HeldTypes
  <2>2. \A s \in D : Gaining(acc_positions)[s] \in Int
    BY <1>0, HeldTypes DEF Gaining
  <2> QED BY <2>1, <2>2, UnrealisedIs
<1>4. Account!MapThenSumSet(LAMBDA s : acc_stats[s], DOMAIN acc_stats)
        = Total(acc_stats, DOMAIN acc_stats)
  <2>1. acc_stats \in [ToSet(Tested) -> Nat] /\ IsFiniteSet(ToSet(Tested))
    BY <1>0, TestedFinite DEF ControlTypes
  <2>2. IsFiniteSet(DOMAIN acc_stats) /\ \A s \in DOMAIN acc_stats : acc_stats[s] \in Int
    BY <2>1
  <2> QED BY <2>2, StatsAre
<1>5. Account!Of("sell") = S /\ Account!Of("buy") = FilledIn(acc_history, "buy")
      /\ Account!Held = D /\ \A x : Account!Cardinality(x) = Cardinality(x)
  BY AccountNames
<1>6. {i \in Account!Of("sell") : Account!Gain(i) > 0} = {i \in S : GainIn(acc_history, i) > 0}
  BY <1>5, GainNames
<1> HIDE DEF r, S, D
<1>7. /\ r.pnl = Account!MapThenSumSet(Account!Gain, Account!Of("sell"))
                 + Account!MapThenSumSet(Account!Unrealised, Account!Held) - r.totalFees
      /\ r.wins = Account!Cardinality({i \in Account!Of("sell") : Account!Gain(i) > 0})
      /\ r.wins + r.losses = r.sellCount
      /\ r.sellCount + r.openPositions = Account!Cardinality(Account!Of("buy"))
      /\ acc_balance >= -acc_fees
      /\ Account!MapThenSumSet(LAMBDA s : acc_stats[s], DOMAIN acc_stats) <= r.sellCount
  BY <1>0, <1>2, <1>3, <1>4, <1>5, <1>6 DEF ReportTrue, S, D
<1> QED BY <1>7 DEF Account!ResultAddsUp, r

-----------------------------------------------------------------------------
(***************************************************************************)
(* The parts together.                                                     *)
(***************************************************************************)
DecisionsInv ==
  /\ IInv /\ LogInv /\ AccountInv
  /\ part = "switches" => SwitchesInv
  /\ part = "candles" => CandlesInv
  /\ part = "signals" => SignalsInv
  /\ part = "fifo" => trades \in Days
  /\ part = "scan" => ScanInv

LEMMA ScanRests == ScanInv /\ UNCHANGED scanVars => ScanInv'
BY DEF ScanInv, scanVars

LEMMA LifecycleRests == IInv /\ UNCHANGED lifecycleVars => IInv'
BY DEF lifecycleVars, vars, IInv, TypeOK, StopHolds, StopIsFinal, OneStart, Prepares,
       StartPending, AutoStarting

LEMMA CandlesRest == CandlesInv /\ UNCHANGED candlesVars => CandlesInv'
BY DEF CandlesInv, EarliestAnswer, candlesVars, Candles!TypeOK, Candles!Times

LEMMA SwitchesRest == SwitchesInv /\ UNCHANGED switchesVars => SwitchesInv'
BY SwitchesSteps

LEMMA DecisionsStart == DecisionsInit => DecisionsInv
<1> SUFFICES ASSUME DecisionsInit PROVE DecisionsInv
  OBVIOUS
<1>1. LogInv
  BY LogStarts DEF DecisionsInit
<1>2. part = "switches" => SwitchesInv
  BY SwitchesStart DEF DecisionsInit
<1>3. part = "candles" => CandlesInv
  BY CandlesStart DEF DecisionsInit
<1>4. part = "signals" => SignalsInv
  BY SignalsStart DEF DecisionsInit
<1>5. IInv /\ AccountInv
  BY InitIInv, AccountStarts DEF DecisionsInit
<1>6. part = "fifo" => trades \in Days
  BY DEF DecisionsInit
<1>7. part = "scan" => ScanInv
  BY ScanStarts DEF DecisionsInit
<1> QED BY <1>1, <1>2, <1>3, <1>4, <1>5, <1>6, <1>7 DEF DecisionsInv

\* a step of one part leaves the invariants of the others alone
LEMMA PartSteps ==
  ASSUME DecisionsInv, NEW p, part = p, Rest(p),
         \/ p = "lifecycle" /\ Next
         \/ p = "log" /\ Log!Next
         \/ p = "switches" /\ Switches!Next
         \/ p = "candles" /\ Candles!Next
         \/ p = "signals" /\ Signals!Next
         \/ p = "account" /\ Account!Next
  PROVE  DecisionsInv'
<1>1. /\ UNCHANGED <<part, trades, scanVars>>
      /\ p # "lifecycle" => UNCHANGED lifecycleVars
      /\ p # "log" => UNCHANGED logVars
      /\ p # "switches" => UNCHANGED switchesVars
      /\ p # "candles" => UNCHANGED candlesVars
      /\ p # "signals" => UNCHANGED signalsVars
      /\ p # "account" => UNCHANGED accountVars
  BY DEF Rest
<1>2. LogInv'
  BY <1>1, LogSteps, LogRests DEF DecisionsInv
<1>3. part' = "switches" => SwitchesInv'
  BY <1>1, SwitchesSteps DEF DecisionsInv
<1>4. part' = "candles" => CandlesInv'
  BY <1>1, CandlesSteps DEF DecisionsInv
<1>5. part' = "signals" => SignalsInv'
  BY <1>1, SignalsSteps DEF DecisionsInv
<1>6. IInv'
  BY <1>1, Step, LifecycleRests DEF DecisionsInv
<1>7. AccountInv'
  BY <1>1, AccountSteps, AccountRests DEF DecisionsInv
<1>8. part' = "fifo" => trades' \in Days
  BY <1>1 DEF DecisionsInv
<1>9. part' = "scan" => ScanInv'
  BY <1>1, ScanRests DEF DecisionsInv
<1> QED BY <1>1, <1>2, <1>3, <1>4, <1>5, <1>6, <1>7, <1>8, <1>9 DEF DecisionsInv

LEMMA DecisionsStep == DecisionsInv /\ [DecisionsNext]_DecisionsVars => DecisionsInv'
<1> SUFFICES ASSUME DecisionsInv, [DecisionsNext]_DecisionsVars PROVE DecisionsInv'
  OBVIOUS
<1>1. CASE UNCHANGED DecisionsVars
  <2>1. UNCHANGED <<part, trades, lifecycleVars, logVars, switchesVars, candlesVars, scanVars,
                    signalsVars, accountVars>>
    BY <1>1 DEF DecisionsVars
  <2> QED BY <2>1, LifecycleRests, LogRests, SwitchesRest, CandlesRest, ScanRests, SignalsRest,
             AccountRests DEF DecisionsInv
<1>2. CASE part = "lifecycle" /\ Next /\ Rest("lifecycle")
  BY <1>2, PartSteps
<1>3. CASE part = "log" /\ Log!Next /\ Rest("log")
  BY <1>3, PartSteps
<1>4. CASE part = "switches" /\ Switches!Next /\ Rest("switches")
  BY <1>4, PartSteps
<1>5. CASE part = "candles" /\ Candles!Next /\ Rest("candles")
  BY <1>5, PartSteps
<1>6. CASE part = "signals" /\ Signals!Next /\ Rest("signals")
  BY <1>6, PartSteps
<1>7. CASE part = "account" /\ Account!Next /\ Rest("account")
  BY <1>7, PartSteps
<1> QED BY <1>1, <1>2, <1>3, <1>4, <1>5, <1>6, <1>7 DEF DecisionsNext

LEMMA DecisionsInvAlways == DecisionsSpec => []DecisionsInv
BY DecisionsStart, DecisionsStep, PTL DEF DecisionsSpec

(***************************************************************************)
(* The flags of the lifecycle, the log, the lists, the stored candles, the *)
(* buffers of a strategy and the account of a backtest are always of their *)
(* types (Decisions.DecisionsTypeOK): a buffer never outgrows what its     *)
(* strategy made it for (base.py:39-55), and a position is never larger    *)
(* than the limit (risk.py:109-121).                                       *)
(***************************************************************************)
THEOREM DecisionsAlwaysTyped == DecisionsSpec => []DecisionsTypeOK
<1>1. AccountInv => Account!TypeOK
  <2> SUFFICES ASSUME AccountInv PROVE Account!TypeOK
    OBVIOUS
  <2>1. ControlTypes /\ AccountRuns
    BY DEF AccountInv
  <2>2. {acc_balance, acc_dailyPnl, acc_fees, acc_cached} \subseteq Int
    BY <2>1, HeldTypes DEF ControlTypes
  <2>3. /\ Account!Held \subseteq {q.symbol : q \in Quotes}
        /\ \A s \in Account!Held : acc_positions[s].quantity \in 1 .. MaxPositionSize
    BY <2>1, HeldTypes, AccountNames DEF AccSymbols, Positions
  <2> QED BY <2>1, <2>2, <2>3 DEF Account!TypeOK, ControlTypes
<1>2. DecisionsInv => DecisionsTypeOK
  BY <1>1 DEF DecisionsInv, DecisionsTypeOK, IInv, LogInv, LogOK, SwitchesInv, CandlesInv,
              SignalsInv, SignalsTyped
<1> QED BY <1>2, DecisionsInvAlways, PTL

(***************************************************************************)
(* A position is thought older than its shares only if a SELL was refused, *)
(* the shares left or changed unseen, or a write failed after an earlier   *)
(* position of the symbol (Decisions.AgeHasCause; engine.py:103-108,       *)
(* 401-410, repository.py:250-257).                                        *)
(***************************************************************************)
THEOREM AgeAlwaysHasCause == DecisionsSpec => []AgeHasCause
<1>1. DecisionsInv => AgeHasCause
  BY LogMeans DEF DecisionsInv, AgeHasCause
<1> QED BY <1>1, DecisionsInvAlways, PTL

(***************************************************************************)
(* Counted trade by trade or loaded after a restart, a strategy's          *)
(* statistics are those of its log, and its drawdown is the largest fall   *)
(* of the running total from an earlier value (Decisions.StatsMatchLog;    *)
(* performance.py:41-96).                                                  *)
(***************************************************************************)
THEOREM StatsAlwaysMatchLog == DecisionsSpec => []StatsMatchLog
<1>1. DecisionsInv => StatsMatchLog
  BY LogMeans DEF DecisionsInv, StatsMatchLog
<1> QED BY <1>1, DecisionsInvAlways, PTL

(***************************************************************************)
(* The lists are what was chosen by hand, but for the kinds a mode hid     *)
(* when they were rewritten (Decisions.ChoiceKept; routes.py:393-414,      *)
(* 683-686, 892-895, 950-957).                                             *)
(***************************************************************************)
THEOREM ChoiceAlwaysKept == DecisionsSpec => []ChoiceKept
<1>1. DecisionsInv => ChoiceKept
  BY DEF DecisionsInv, SwitchesInv, ChosenOK, ChoiceKept
<1> QED BY <1>1, DecisionsInvAlways, PTL

(***************************************************************************)
(* The limits in force were given to the risk manager, or are those the    *)
(* file had at first (Decisions.LimitsWereApplied; routes.py:849-853,      *)
(* 941-947).                                                               *)
(***************************************************************************)
THEOREM LimitsAlwaysApplied == DecisionsSpec => []LimitsWereApplied
<1>1. DecisionsInv => LimitsWereApplied
  BY DEF DecisionsInv, SwitchesInv, LimitsWereApplied
<1> QED BY <1>1, DecisionsInvAlways, PTL

(***************************************************************************)
(* A stored bar says what the first answer with it said, whatever is       *)
(* fetched later, and the strategies are given the newest of them, oldest  *)
(* first (Decisions.FirstAnswerStays; ohlcv.py:68-129, fetcher.py:202-     *)
(* 207).                                                                   *)
(***************************************************************************)
THEOREM FirstAnswerAlwaysStays == DecisionsSpec => []FirstAnswerStays
<1>1. DecisionsInv => FirstAnswerStays
  BY CandlesMean DEF DecisionsInv, FirstAnswerStays
<1> QED BY <1>1, DecisionsInvAlways, PTL

(***************************************************************************)
(* The result of a backtest adds up, whatever the candles, the strategies  *)
(* and the wall clock were: its profit is what the sales gained and the    *)
(* open positions would, less all fees, every sale is a win or a loss, and *)
(* the tracker counts no more trades than there were sales                 *)
(* (Decisions.ResultAddsUp; runner.py:103-149, mock.py:38-68).             *)
(***************************************************************************)
THEOREM ResultAlwaysAddsUp == DecisionsSpec => []ResultAddsUp
<1>1. DecisionsInv => ResultAddsUp
  BY AccountMeans DEF DecisionsInv, ResultAddsUp
<1> QED BY <1>1, DecisionsInvAlways, PTL

(***************************************************************************)
(* The loop of _recalc_pnl gives every sell of a day the profit of the     *)
(* very shares it sold, counted one by one, first in, first out, however   *)
(* the day's buys and sells are cut across each other, and none to a sell  *)
(* that the buys do not cover.  The profit is exact if the mean cost of    *)
(* those shares is a binary fraction, and otherwise at most one won nearer *)
(* to zero, however many sells came before (Decisions.FifoAgrees;          *)
(* repository.py:160-188).                                                 *)
(***************************************************************************)
THEOREM FifoAlwaysAgrees == DecisionsSpec => []FifoAgrees
<1>1. DecisionsInv => FifoAgrees
  BY FifoMeans DEF DecisionsInv, FifoAgrees
<1> QED BY <1>1, DecisionsInvAlways, PTL

(***************************************************************************)
(* Whatever the market, the candidates and the holdings, a scan keeps what *)
(* is held, and for the slots left exactly the stocks that fewer others    *)
(* beat than there are slots (Decisions.SelectionIsBest; screener.py:76-   *)
(* 96, quant_screener.py:171-196).                                         *)
(***************************************************************************)
THEOREM SelectionAlwaysBest == DecisionsSpec => []SelectionIsBest
<1>1. DecisionsInv => SelectionIsBest
  BY ScanMeans DEF DecisionsInv, SelectionIsBest
<1> QED BY <1>1, DecisionsInvAlways, PTL

(***************************************************************************)
(* Whatever ticks, orderbooks, prefills, switches and resets come in what  *)
(* order, a strategy says what its condition says of the prices since its  *)
(* reset, never the same side twice within the cooldown, and nothing while *)
(* its buffers are shorter than its window (Decisions.SaysWhatItSaw;       *)
(* base.py:39-55, bollinger.py:27-34, mean_reversion.py:31-58).            *)
(***************************************************************************)
THEOREM AlwaysSaysWhatItSaw == DecisionsSpec => []SaysWhatItSaw
<1>1. DecisionsInv => SaysWhatItSaw
  BY SignalsMean DEF DecisionsInv, SaysWhatItSaw
<1> QED BY <1>1, DecisionsInvAlways, PTL
=============================================================================
