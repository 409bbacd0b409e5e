---------------------------- MODULE DecisionLemmas ----------------------------
(***************************************************************************)
(* What the proofs about Decisions rest on: folds, sums and recursive      *)
(* functions, and three of its parts, the profits of a day                 *)
(* (ProfitMatching), the scans (Screening) and the signals                 *)
(* (StrategySignals).                                                      *)
(*                                                                         *)
(* Folds and recursive functions are recursions on sets and on indices.    *)
(* That they exist, and what they compute, is shown by induction on the    *)
(* natural numbers, which the library's well-foundedness of < gives        *)
(* without an operator as parameter.                                       *)
(***************************************************************************)
EXTENDS Decisions, FiniteSetTheorems, WellFoundedInduction, TLAPS

-----------------------------------------------------------------------------
(***************************************************************************)
(* Induction over data.  The induction principles of the library take an   *)
(* operator; this one, and the recursive definitions it is used for, take  *)
(* sets and functions.                                                     *)
(***************************************************************************)
LEMMA NatByInduction ==
  ASSUME NEW S, 0 \in S, \A n \in Nat : n \in S => n + 1 \in S
  PROVE  \A n \in Nat : n \in S
<1> DEFINE T == Nat \ S
<1> SUFFICES ASSUME T # {} PROVE FALSE
  OBVIOUS
<1>1. IsWellFoundedOn(OpToRel(<, Nat), Nat)
  BY NatLessThanWellFounded
<1>2. PICK x \in T : \A y \in T : ~(<<y, x>> \in OpToRel(<, Nat))
  BY <1>1, WFMin
<1>3. \A y \in T : ~(y < x)
  BY <1>2 DEF OpToRel
<1>4. x # 0 /\ x - 1 \in Nat /\ x = (x - 1) + 1
  OBVIOUS
<1>5. x - 1 \notin T
  BY <1>3, <1>4
<1> QED BY <1>4, <1>5

LEMMA LargestExists ==
  ASSUME NEW n \in Nat, NEW s \in SUBSET (1 .. n), s # {}
  PROVE  /\ Max(s) \in s /\ \A y \in s : Max(s) >= y
         /\ \A k \in Nat : s \subseteq 1 .. k + 1 => s \ {Max(s)} \subseteq 1 .. k
<1> DEFINE P(k) == \A u \in SUBSET (1 .. k) : u # {} => \E x \in u : \A y \in u : x >= y
<1>1. P(0)
  BY 1 .. 0 = {}
<1>2. ASSUME NEW k \in Nat, P(k) PROVE P(k + 1)
  <2> SUFFICES ASSUME NEW u \in SUBSET (1 .. k + 1), u # {}
               PROVE  \E x \in u : \A y \in u : x >= y
    OBVIOUS
  <2>1. CASE k + 1 \in u
    BY <2>1
  <2>2. CASE k + 1 \notin u
    BY <1>2, <2>2, u \in SUBSET (1 .. k)
  <2> QED BY <2>1, <2>2
<1>3. P(n)
  <2> HIDE DEF P
  <2> DEFINE S == {k \in Nat : P(k)}
  <2>1. 0 \in S /\ \A k \in Nat : k \in S => k + 1 \in S
    BY <1>1, <1>2
  <2>2. \A k \in Nat : k \in S
    <3> HIDE DEF S
    <3> QED BY <2>1, NatByInduction
  <2> QED BY <2>2
<1>4. \E x \in s : \A y \in s : x >= y
  BY <1>3
<1>5. Max(s) \in s /\ \A y \in s : Max(s) >= y
  BY <1>4 DEF Max
<1>6. ASSUME NEW k \in Nat, s \subseteq 1 .. k + 1 PROVE s \ {Max(s)} \subseteq 1 .. k
  <2>1. PICK m \in 1 .. k + 1 : m = Max(s)
    BY <1>5, <1>6
  <2>2. \A y \in s : y \in 1 .. k + 1 /\ m >= y
    BY <1>5, <1>6, <2>1
  <2>3. \A y \in s : y # m => y \in 1 .. k
    BY <2>2
  <2> QED BY <2>1, <2>3
<1> QED BY <1>5, <1>6

LEMMA LargestOfFirst ==
  ASSUME NEW n \in Nat, NEW k \in 0 .. n - 1
  PROVE  /\ 1 .. k + 1 # {} /\ 1 .. k + 1 \in SUBSET (1 .. n)
         /\ Max(1 .. k + 1) = k + 1 /\ (1 .. k + 1) \ {Max(1 .. k + 1)} = 1 .. k
<1>1. 1 .. k + 1 # {} /\ 1 .. k + 1 \in SUBSET (1 .. n)
  OBVIOUS
<1>2. Max(1 .. k + 1) \in 1 .. k + 1 /\ \A y \in 1 .. k + 1 : Max(1 .. k + 1) >= y
  BY <1>1, LargestExists
<1>3. Max(1 .. k + 1) = k + 1
  BY <1>2
<1> QED BY <1>1, <1>3

(***************************************************************************)
(* A fold from left to right is defined by recursion over the sets of the  *)
(* indices, the largest index last.  Here the i-th step is the function    *)
(* h[i]: there is such a recursive function.                               *)
(***************************************************************************)
FoldsWith(g, n, base, h) ==
  \A s \in SUBSET (1 .. n) : g[s] = IF s = {} THEN base ELSE h[Max(s)][g[s \ {Max(s)}]]

LEMMA FoldExists ==
  ASSUME NEW n \in Nat, NEW V, NEW base \in V, NEW h \in [1 .. n -> [V -> V]]
  PROVE  \E g \in [SUBSET (1 .. n) -> V] : FoldsWith(g, n, base, h)
<1> DEFINE Works(g, k) ==
      \A s \in SUBSET (1 .. k) : g[s] = IF s = {} THEN base ELSE h[Max(s)][g[s \ {Max(s)}]]
    P(k) == k <= n => \E g \in [SUBSET (1 .. k) -> V] : Works(g, k)
<1>1. P(0)
  <2>1. \A s \in SUBSET (1 .. 0) : s = {}
    BY 1 .. 0 = {}
  <2>2. [s \in SUBSET (1 .. 0) |-> base] \in [SUBSET (1 .. 0) -> V]
    OBVIOUS
  <2>3. Works([s \in SUBSET (1 .. 0) |-> base], 0)
    BY <2>1
  <2> HIDE DEF Works
  <2>4. \E g \in [SUBSET (1 .. 0) -> V] : Works(g, 0)
    BY <2>2, <2>3
  <2> QED BY <2>4
<1>2. ASSUME NEW k \in Nat, P(k) PROVE P(k + 1)
  <2> SUFFICES ASSUME k + 1 <= n
               PROVE  \E g \in [SUBSET (1 .. k + 1) -> V] : Works(g, k + 1)
    OBVIOUS
  <2>1. PICK g \in [SUBSET (1 .. k) -> V] : Works(g, k)
    <3> HIDE DEF Works
    <3>1. k <= n
      OBVIOUS
    <3>2. \E g \in [SUBSET (1 .. k) -> V] : Works(g, k)
      BY <1>2, <3>1, Zenon
    <3> QED BY <3>2
  <2>2. \A s \in SUBSET (1 .. k + 1) : s # {} =>
          /\ Max(s) \in 1 .. n /\ s \ {Max(s)} \in SUBSET (1 .. k)
          /\ s \in SUBSET (1 .. k) => g[s] = h[Max(s)][g[s \ {Max(s)}]]
    <3> SUFFICES ASSUME NEW s \in SUBSET (1 .. k + 1), s # {}
                 PROVE  /\ Max(s) \in 1 .. n /\ s \ {Max(s)} \in SUBSET (1 .. k)
                        /\ s \in SUBSET (1 .. k) => g[s] = h[Max(s)][g[s \ {Max(s)}]]
      OBVIOUS
    <3>1. s \in SUBSET (1 .. n)
      OBVIOUS
    <3>2. Max(s) \in s /\ s \ {Max(s)} \subseteq 1 .. k
      BY <3>1, LargestExists
    <3> QED BY <2>1, <3>1, <3>2
  <2> DEFINE d == [s \in SUBSET (1 .. k + 1) |->
                     IF s = {} THEN base ELSE h[Max(s)][g[s \ {Max(s)}]]]
  <2>3. d \in [SUBSET (1 .. k + 1) -> V]
    BY <2>2
  <2>4. \A s \in SUBSET (1 .. k) : d[s] = g[s]
    <3>1. g[{}] = base
      BY <2>1
    <3>2. \A s \in SUBSET (1 .. k) : s \in SUBSET (1 .. k + 1)
      OBVIOUS
    <3> QED BY <2>2, <3>1, <3>2
  <2>5. Works(d, k + 1)
    BY <2>2, <2>4
  <2> HIDE DEF Works, d
  <2> QED BY <2>3, <2>5
<1>3. P(n)
  <2> HIDE DEF P
  <2> DEFINE S == {k \in Nat : P(k)}
  <2>1. 0 \in S /\ \A k \in Nat : k \in S => k + 1 \in S
    BY <1>1, <1>2
  <2>2. \A k \in Nat : k \in S
    <3> HIDE DEF S
    <3> QED BY <2>1, NatByInduction
  <2> QED BY <2>2
<1> HIDE DEF Works
<1>4. \E g \in [SUBSET (1 .. n) -> V] : Works(g, n)
  <2>1. n <= n
    OBVIOUS
  <2> QED BY <1>3, <2>1, Zenon
<1>5. PICK g \in [SUBSET (1 .. n) -> V] : Works(g, n)
  BY <1>4
<1> QED BY <1>5 DEF Works, FoldsWith

LEMMA PrefixGrows ==
  ASSUME NEW S, NEW l \in Seq(S), NEW k \in Nat, k + 1 <= Len(l)
  PROVE  /\ SubSeq(l, 1, k) \in Seq(S) /\ Len(SubSeq(l, 1, k)) = k
         /\ l[k + 1] \in S /\ SubSeq(l, 1, k + 1) = Append(SubSeq(l, 1, k), l[k + 1])
<1>1. SubSeq(l, 1, k) \in Seq(S) /\ Len(SubSeq(l, 1, k)) = k /\ l[k + 1] \in S
  OBVIOUS
<1>2. Len(SubSeq(l, 1, k + 1)) = k + 1 /\ SubSeq(l, 1, k + 1) \in Seq(S)
  OBVIOUS
<1>3. Append(SubSeq(l, 1, k), l[k + 1]) \in Seq(S)
      /\ Len(Append(SubSeq(l, 1, k), l[k + 1])) = k + 1
  BY <1>1
<1>4. \A i \in 1 .. k + 1 : SubSeq(l, 1, k + 1)[i] = Append(SubSeq(l, 1, k), l[k + 1])[i]
  BY <1>1
<1> QED BY <1>1, <1>2, <1>3, <1>4

-----------------------------------------------------------------------------
(***************************************************************************)
(* Sums over finite sets.  MapThenSumSet takes the elements of its set in  *)
(* any order; the sum does not depend on it.                               *)
(***************************************************************************)
AnyOf(s) == CHOOSE x \in s : TRUE

\* g has the sum of f over every subset of S
SumsUp(g, S, f) ==
  \A s \in SUBSET S : g[s] = IF s = {} THEN 0 ELSE f[AnyOf(s)] + g[s \ {AnyOf(s)}]

Total(f, S) == (CHOOSE g : g \in [SUBSET S -> Int] /\ SumsUp(g, S, f))[S]

LEMMA Smaller ==
  ASSUME NEW S, IsFiniteSet(S), NEW s \in SUBSET S, NEW x \in s
  PROVE  /\ s \ {x} \in SUBSET S /\ IsFiniteSet(s)
         /\ Cardinality(s) \in Nat /\ Cardinality(s \ {x}) \in Nat
         /\ Cardinality(s) = Cardinality(s \ {x}) + 1
<1>1. IsFiniteSet(s)
  BY FS_Subset
<1>2. IsFiniteSet(s \ {x}) /\ Cardinality(s \ {x}) = Cardinality(s) - 1
  BY <1>1, FS_RemoveElement
<1>3. Cardinality(s) \in Nat /\ Cardinality(s \ {x}) \in Nat
  BY <1>1, <1>2, FS_CardinalityType
<1> QED BY <1>1, <1>2, <1>3

LEMMA AnyIn == ASSUME NEW s, s # {} PROVE AnyOf(s) \in s
BY DEF AnyOf

\* what holds of the sets with few elements, and then of those with one more,
\* holds of all subsets of a finite set
LEMMA SubsetInduction ==
  ASSUME NEW S, IsFiniteSet(S), NEW Q,
         \A s \in SUBSET S : (\A x \in s : s \ {x} \in Q) => s \in Q
  PROVE  \A s \in SUBSET S : s \in Q
<1> DEFINE P(k) == \A s \in SUBSET S : Cardinality(s) = k => s \in Q
<1>1. P(0)
  <2> SUFFICES ASSUME NEW s \in SUBSET S, Cardinality(s) = 0 PROVE s \in Q
    OBVIOUS
  <2>1. IsFiniteSet(s)
    BY FS_Subset
  <2>2. s = {}
    BY <2>1, FS_EmptySet
  <2> QED BY <2>2
<1>2. ASSUME NEW k \in Nat, P(k) PROVE P(k + 1)
  <2> SUFFICES ASSUME NEW s \in SUBSET S, Cardinality(s) = k + 1 PROVE s \in Q
    OBVIOUS
  <2>1. ASSUME NEW x \in s PROVE s \ {x} \in Q
    <3>1. s \ {x} \in SUBSET S /\ Cardinality(s \ {x}) = k
      BY Smaller
    <3> QED BY <1>2, <3>1
  <2> QED BY <2>1
<1>3. \A k \in Nat : P(k)
  <2> HIDE DEF P
  <2> DEFINE N == {k \in Nat : P(k)}
  <2>1. 0 \in N /\ \A k \in Nat : k \in N => k + 1 \in N
    BY <1>1, <1>2
  <2>2. \A k \in Nat : k \in N
    <3> HIDE DEF N
    <3> QED BY <2>1, NatByInduction
  <2> QED BY <2>2
<1> SUFFICES ASSUME NEW s \in SUBSET S PROVE s \in Q
  OBVIOUS
<1>4. Cardinality(s) \in Nat
  BY FS_Subset, FS_CardinalityType
<1> QED BY <1>3, <1>4

LEMMA SumsAgree ==
  ASSUME NEW S, IsFiniteSet(S), NEW f, NEW h, \A x \in S : f[x] = h[x],
         NEW a, NEW b, SumsUp(a, S, f), SumsUp(b, S, h)
  PROVE  \A s \in SUBSET S : a[s] = b[s]
<1> DEFINE Q == {s \in SUBSET S : a[s] = b[s]}
<1>1. ASSUME NEW s \in SUBSET S, \A x \in s : s \ {x} \in Q PROVE s \in Q
  <2>1. CASE s = {}
    BY <2>1 DEF SumsUp
  <2>2. CASE s # {}
    <3>1. AnyOf(s) \in s
      BY <2>2, AnyIn
    <3>2. a[s \ {AnyOf(s)}] = b[s \ {AnyOf(s)}] /\ f[AnyOf(s)] = h[AnyOf(s)]
      BY <1>1, <3>1
    <3> QED BY <2>2, <3>2 DEF SumsUp
  <2> QED BY <2>1, <2>2
<1>2. \A s \in SUBSET S : s \in Q
  <2> HIDE DEF Q
  <2> QED BY <1>1, SubsetInduction
<1> QED BY <1>2

LEMMA SumsExist ==
  ASSUME NEW S, IsFiniteSet(S), NEW f, \A x \in S : f[x] \in Int
  PROVE  \E g : g \in [SUBSET S -> Int] /\ SumsUp(g, S, f)
<1> DEFINE Sum1(g, s) == IF s = {} THEN 0 ELSE f[AnyOf(s)] + g[s \ {AnyOf(s)}]
    Works(g, k) == \A s \in SUBSET S : Cardinality(s) <= k => g[s] = Sum1(g, s)
    P(k) == \E g \in [SUBSET S -> Int] : Works(g, k)
<1>0. \A s \in SUBSET S : Cardinality(s) \in Nat
  BY FS_Subset, FS_CardinalityType
<1>1. P(0)
  <2> DEFINE g == [s \in SUBSET S |-> 0]
  <2>1. \A s \in SUBSET S : Cardinality(s) <= 0 => s = {}
    <3> SUFFICES ASSUME NEW s \in SUBSET S, Cardinality(s) <= 0 PROVE s = {}
      OBVIOUS
    <3>1. Cardinality(s) = 0 /\ IsFiniteSet(s)
      BY <1>0, FS_Subset
    <3> QED BY <3>1, FS_EmptySet
  <2>2. Works(g, 0) /\ g \in [SUBSET S -> Int]
    BY <2>1
  <2> HIDE DEF g, Works
  <2> QED BY <2>2
<1>2. ASSUME NEW k \in Nat, P(k) PROVE P(k + 1)
  <2>1. PICK g \in [SUBSET S -> Int] : Works(g, k)
    BY <1>2
  <2> DEFINE d == [s \in SUBSET S |-> Sum1(g, s)]
  <2>2. ASSUME NEW s \in SUBSET S, s # {}
        PROVE  /\ AnyOf(s) \in s /\ f[AnyOf(s)] \in Int /\ s \ {AnyOf(s)} \in SUBSET S
               /\ g[s \ {AnyOf(s)}] \in Int
               /\ Cardinality(s) <= k + 1 => Cardinality(s \ {AnyOf(s)}) <= k
    <3>1. AnyOf(s) \in s
      BY <2>2, AnyIn
    <3>2. s \ {AnyOf(s)} \in SUBSET S /\ Cardinality(s) = Cardinality(s \ {AnyOf(s)}) + 1
          /\ Cardinality(s \ {AnyOf(s)}) \in Nat
      BY <3>1, Smaller
    <3> QED BY <3>1, <3>2
  <2>3. d \in [SUBSET S -> Int]
    <3>1. ASSUME NEW s \in SUBSET S PROVE Sum1(g, s) \in Int
      <4>1. CASE s = {}
        BY <4>1
      <4>2. CASE s # {}
        <5>1. f[AnyOf(s)] \in Int /\ g[s \ {AnyOf(s)}] \in Int
          BY <2>2, <4>2
        <5> QED BY <4>2, <5>1
      <4> QED BY <4>1, <4>2
    <3> HIDE DEF Sum1
    <3> QED BY <3>1
  <2>4. \A s \in SUBSET S : Cardinality(s) <= k => d[s] = g[s]
    <3> HIDE DEF Sum1
    <3> QED BY <2>1
  <2>5. Works(d, k + 1)
    <3> SUFFICES ASSUME NEW s \in SUBSET S, Cardinality(s) <= k + 1 PROVE d[s] = Sum1(d, s)
      OBVIOUS
    <3>1. CASE s = {}
      BY <3>1
    <3>2. CASE s # {}
      <4>1. d[s \ {AnyOf(s)}] = g[s \ {AnyOf(s)}]
        BY <2>2, <2>4, <3>2
      <4> QED BY <3>2, <4>1
    <3> QED BY <3>1, <3>2
  <2> HIDE DEF d, Works
  <2> QED BY <2>3, <2>5
<1>3. P(Cardinality(S))
  <2> HIDE DEF P
  <2> DEFINE N == {k \in Nat : P(k)}
  <2>1. 0 \in N /\ \A k \in Nat : k \in N => k + 1 \in N
    BY <1>1, <1>2
  <2>2. \A k \in Nat : k \in N
    <3> HIDE DEF N
    <3> QED BY <2>1, NatByInduction
  <2> QED BY <1>0, <2>2
<1>4. PICK g \in [SUBSET S -> Int] : Works(g, Cardinality(S))
  BY <1>3
<1>5. \A s \in SUBSET S : Cardinality(s) <= Cardinality(S)
  BY FS_Subset
<1>6. SumsUp(g, S, f)
  BY <1>4, <1>5 DEF SumsUp
<1> QED BY <1>6

\* g gives the sums over all subsets of S
SumsOver(g, S, f) ==
  g \in [SUBSET S -> Int] /\ SumsUp(g, S, f) /\ \A s \in SUBSET S : Total(f, s) = g[s]

LEMMA SumIs ==
  ASSUME NEW S, IsFiniteSet(S), NEW f, \A x \in S : f[x] \in Int
  PROVE  \E g : SumsOver(g, S, f)
<1>1. PICK g : g \in [SUBSET S -> Int] /\ SumsUp(g, S, f)
  BY SumsExist
<1>2. ASSUME NEW s \in SUBSET S PROVE Total(f, s) = g[s]
  <2>1. IsFiniteSet(s)
    BY FS_Subset
  <2> DEFINE h == CHOOSE h : h \in [SUBSET s -> Int] /\ SumsUp(h, s, f)
  <2>2. \E h1 : h1 \in [SUBSET s -> Int] /\ SumsUp(h1, s, f)
    BY <2>1, SumsExist
  <2>3. SumsUp(h, s, f)
    BY <2>2
  <2>4. SumsUp(g, s, f)
    BY <1>1 DEF SumsUp
  <2>5. h[s] = g[s]
    <3> HIDE DEF h
    <3> QED BY <2>1, <2>3, <2>4, SumsAgree
  <2> QED BY <2>5 DEF Total
<1>3. SumsOver(g, S, f)
  BY <1>1, <1>2 DEF SumsOver
<1> QED BY <1>3

LEMMA SumEmpty == ASSUME NEW f PROVE Total(f, {}) = 0
<1>1. IsFiniteSet({}) /\ \A x \in {} : f[x] \in Int
  BY FS_EmptySet
<1>2. PICK g : SumsOver(g, {}, f)
  BY <1>1, SumIs
<1> QED BY <1>2 DEF SumsOver, SumsUp

LEMMA SumType ==
  ASSUME NEW S, IsFiniteSet(S), NEW f, \A x \in S : f[x] \in Int
  PROVE  Total(f, S) \in Int
<1>1. PICK g : SumsOver(g, S, f)
  BY SumIs
<1> QED BY <1>1 DEF SumsOver

LEMMA SumSame ==
  ASSUME NEW S, IsFiniteSet(S), NEW f, \A x \in S : f[x] \in Int,
         NEW h, \A x \in S : f[x] = h[x]
  PROVE  Total(f, S) = Total(h, S)
<1>1. PICK a : SumsOver(a, S, f)
  BY SumIs
<1>2. \A x \in S : h[x] \in Int
  OBVIOUS
<1>3. PICK b : SumsOver(b, S, h)
  BY <1>2, SumIs
<1>4. SumsUp(a, S, f) /\ SumsUp(b, S, h) /\ S \in SUBSET S
  BY <1>1, <1>3 DEF SumsOver
<1>5. a[S] = b[S]
  BY <1>4, SumsAgree
<1> QED BY <1>1, <1>3, <1>4, <1>5 DEF SumsOver

\* one element more, or less
LEMMA SumRemove ==
  ASSUME NEW S, IsFiniteSet(S), NEW f, \A x \in S : f[x] \in Int, NEW e \in S
  PROVE  Total(f, S) = f[e] + Total(f, S \ {e})
<1>0. PICK g : SumsOver(g, S, f)
  BY SumIs
<1>1. g \in [SUBSET S -> Int] /\ SumsUp(g, S, f) /\ \A s \in SUBSET S : Total(f, s) = g[s]
  BY <1>0 DEF SumsOver
<1> DEFINE Q == {s \in SUBSET S : \A x \in s : g[s] = f[x] + g[s \ {x}]}
<1>2. ASSUME NEW s \in SUBSET S, \A x \in s : s \ {x} \in Q PROVE s \in Q
  <2> SUFFICES ASSUME NEW x \in s PROVE g[s] = f[x] + g[s \ {x}]
    OBVIOUS
  <2> DEFINE c == AnyOf(s)
  <2>1. c \in s /\ g[s] = f[c] + g[s \ {c}]
    BY <1>1, AnyIn DEF SumsUp
  <2>2. CASE x = c
    BY <2>1, <2>2
  <2>3. CASE x # c
    <3> HIDE DEF c
    <3>1. x \in s \ {c} /\ c \in s \ {x} /\ (s \ {c}) \ {x} = (s \ {x}) \ {c}
      BY <2>1, <2>3
    <3>2. g[s \ {c}] = f[x] + g[(s \ {c}) \ {x}]
      BY <1>2, <2>1, <3>1
    <3>3. g[s \ {x}] = f[c] + g[(s \ {c}) \ {x}]
      BY <1>2, <3>1
    <3>4. f[x] \in Int /\ f[c] \in Int /\ g[(s \ {c}) \ {x}] \in Int
      BY <1>1, <2>1
    <3> HIDE DEF Q
    <3> QED BY <2>1, <3>2, <3>3, <3>4
  <2> QED BY <2>2, <2>3
<1>3. \A s \in SUBSET S : s \in Q
  <2> HIDE DEF Q
  <2> QED BY <1>2, SubsetInduction
<1>4. S \in SUBSET S /\ S \ {e} \in SUBSET S
  OBVIOUS
<1>5. g[S] = f[e] + g[S \ {e}]
  BY <1>3, <1>4
<1> QED BY <1>1, <1>4, <1>5

LEMMA SumAdd ==
  ASSUME NEW S, IsFiniteSet(S), NEW e, e \notin S, NEW f, \A x \in S \cup {e} : f[x] \in Int
  PROVE  Total(f, S \cup {e}) = Total(f, S) + f[e]
<1>1. IsFiniteSet(S \cup {e}) /\ (S \cup {e}) \ {e} = S
  BY FS_AddElement
<1>2. Total(f, S \cup {e}) = f[e] + Total(f, (S \cup {e}) \ {e})
  <2>1. e \in S \cup {e}
    OBVIOUS
  <2> QED BY <1>1, <2>1, SumRemove
<1>3. Total(f, S) \in Int /\ f[e] \in Int
  BY SumType
<1>4. Total(f, S \cup {e}) = f[e] + Total(f, S)
  BY <1>1, <1>2
<1> QED BY <1>3, <1>4

-----------------------------------------------------------------------------
(***************************************************************************)
(* MapThenSumSet is a recursion over the subsets of its set, which exists, *)
(* and gives these sums.                                                   *)
(***************************************************************************)
SumStep(g, S, f) == [s \in SUBSET S |-> IF s = {} THEN 0 ELSE f[AnyOf(s)] + g[s \ {AnyOf(s)}]]

LEMMA SumStepExists ==
  ASSUME NEW S, IsFiniteSet(S), NEW f, \A x \in S : f[x] \in Int
  PROVE  \E g : g = SumStep(g, S, f)
<1>1. PICK g : SumsOver(g, S, f)
  BY SumIs
<1>2. g = SumStep(g, S, f)
  BY <1>1 DEF SumsOver, SumsUp, SumStep
<1> QED BY <1>2

LEMMA SumStepTotals ==
  ASSUME NEW S, IsFiniteSet(S), NEW f, \A x \in S : f[x] \in Int, NEW g, g = SumStep(g, S, f)
  PROVE  g[S] = Total(f, S)
<1>1. PICK a : SumsOver(a, S, f)
  BY SumIs
<1>2. SumsUp(g, S, f)
  BY DEF SumsUp, SumStep
<1>3. SumsUp(a, S, f) /\ S \in SUBSET S /\ Total(f, S) = a[S]
  BY <1>1 DEF SumsOver
<1>4. a[S] = g[S]
  BY <1>2, <1>3, SumsAgree
<1> QED BY <1>3, <1>4

-----------------------------------------------------------------------------
(***************************************************************************)
(* ProfitMatching: recursive functions on the naturals, and sums over the  *)
(* domain of a function.                                                   *)
(***************************************************************************)
RecursWith(g, n, base, h) == g[0] = base /\ \A k \in 1 .. n : g[k] = h[k][g[k - 1]]

LEMMA RecursionExists ==
  ASSUME NEW n \in Nat, NEW V, NEW base \in V, NEW h \in [1 .. n -> [V -> V]]
  PROVE  \E g \in [0 .. n -> V] : RecursWith(g, n, base, h)
<1>1. PICK f \in [SUBSET (1 .. n) -> V] : FoldsWith(f, n, base, h)
  BY FoldExists
<1> DEFINE g == [k \in 0 .. n |-> f[1 .. k]]
<1>2. g \in [0 .. n -> V]
  <2>1. \A k \in 0 .. n : 1 .. k \in SUBSET (1 .. n)
    OBVIOUS
  <2> QED BY <2>1
<1>3. g[0] = base
  <2>1. 1 .. 0 = {} /\ {} \in SUBSET (1 .. n)
    OBVIOUS
  <2>2. f[{}] = base
    BY <1>1, <2>1 DEF FoldsWith
  <2> QED BY <2>1, <2>2
<1>4. ASSUME NEW k \in 1 .. n PROVE g[k] = h[k][g[k - 1]]
  <2>1. k - 1 \in 0 .. n - 1 /\ (k - 1) + 1 = k
    OBVIOUS
  <2>2. /\ 1 .. k # {} /\ 1 .. k \in SUBSET (1 .. n)
        /\ Max(1 .. k) = k /\ (1 .. k) \ {Max(1 .. k)} = 1 .. k - 1
    BY <2>1, LargestOfFirst
  <2>3. f[1 .. k] = h[k][f[1 .. k - 1]]
    BY <1>1, <2>2 DEF FoldsWith
  <2> QED BY <2>1, <2>3
<1> HIDE DEF g
<1>5. RecursWith(g, n, base, h)
  BY <1>3, <1>4 DEF RecursWith
<1> QED BY <1>2, <1>5

LEMMA SumFunctionIs ==
  ASSUME NEW S, IsFiniteSet(S), NEW f \in [S -> Int]
  PROVE  SumFunction(f) = Total(f, S)
<1> DEFINE it == CHOOSE g : g = [s \in SUBSET S |-> IF s = {} THEN 0
                                   ELSE f[AnyOf(s)] + g[s \ {AnyOf(s)}]]
    to == CHOOSE g : g = SumStep(g, S, f)
<1>1. SumFunction(f) = it[S]
  BY DEF SumFunction, SumFunctionOnSet, FoldFunctionOnSet, MapThenFoldSet, AnyOf
<1>2. it = to
  BY DEF SumStep
<1>3. to = SumStep(to, S, f)
  <2>1. \E g : g = SumStep(g, S, f)
    BY SumStepExists
  <2> HIDE DEF to
  <2> QED BY <2>1 DEF to
<1>4. to[S] = Total(f, S)
  <2> HIDE DEF to
  <2> QED BY <1>3, SumStepTotals
<1> HIDE DEF it, to
<1> QED BY <1>1, <1>2, <1>4

-----------------------------------------------------------------------------
(***************************************************************************)
(* Trades of shares, Ts the set they are from.                             *)
(***************************************************************************)
Tradable(Ts) == \A t \in Ts : t.qty \in Nat \ {0} /\ t.price \in Nat

LEMMA UntilGrows ==
  ASSUME NEW Ts, Tradable(Ts), NEW ts \in Seq(Ts)
  PROVE  /\ \A n \in 0 .. Len(ts) : SharesUntil(ts, n) \in Nat
         /\ SharesUntil(ts, 0) = 0
         /\ \A n \in 1 .. Len(ts) : SharesUntil(ts, n) = SharesUntil(ts, n - 1) + ts[n].qty
<1> DEFINE f(n) == [i \in 1 .. n |-> ts[i].qty]
<1>0. \A i \in 1 .. Len(ts) : ts[i].qty \in Nat
  BY DEF Tradable
<1>1. ASSUME NEW n \in 0 .. Len(ts)
      PROVE  /\ IsFiniteSet(1 .. n) /\ f(n) \in [1 .. n -> Int]
             /\ SharesUntil(ts, n) = Total(f(n), 1 .. n)
  <2>1. IsFiniteSet(1 .. n)
    BY FS_Interval
  <2>2. f(n) \in [1 .. n -> Int]
    BY <1>0
  <2> QED BY <2>1, <2>2, SumFunctionIs DEF SharesUntil
<1>2. SharesUntil(ts, 0) = 0
  <2>1. 1 .. 0 = {} /\ 0 \in 0 .. Len(ts)
    OBVIOUS
  <2> QED BY <1>1, <2>1, SumEmpty
<1>3. ASSUME NEW n \in 1 .. Len(ts) PROVE SharesUntil(ts, n) = SharesUntil(ts, n - 1) + ts[n].qty
  <2>1. n - 1 \in 0 .. Len(ts) /\ n \in 0 .. Len(ts)
    OBVIOUS
  <2> DEFINE S == 1 .. n - 1
  <2>2. 1 .. n = S \cup {n} /\ n \notin S
    OBVIOUS
  <2>9. IsFiniteSet(S)
    <3> HIDE DEF f
    <3> QED BY <1>1, <2>1
  <2>3. \A x \in S \cup {n} : f(n)[x] \in Int
    BY <1>0
  <2>4. Total(f(n), S \cup {n}) = Total(f(n), S) + f(n)[n]
    <3> HIDE DEF S, f
    <3> QED BY <2>2, <2>3, <2>9, SumAdd
  <2>5. \A x \in S : f(n)[x] = f(n - 1)[x]
    OBVIOUS
  <2>6. Total(f(n), S) = Total(f(n - 1), S)
    <3> HIDE DEF S, f
    <3> QED BY <2>2, <2>3, <2>5, <2>9, SumSame
  <2>7. f(n)[n] = ts[n].qty
    OBVIOUS
  <2>8. SharesUntil(ts, n) = Total(f(n), 1 .. n) /\ SharesUntil(ts, n - 1) = Total(f(n - 1), S)
    <3> HIDE DEF f
    <3> QED BY <1>1, <2>1
  <2> HIDE DEF S, f
  <2> QED BY <2>2, <2>4, <2>6, <2>7, <2>8
<1>4. \A n \in 0 .. Len(ts) : SharesUntil(ts, n) \in Nat
  <2> DEFINE N == {n \in Nat : n <= Len(ts) => SharesUntil(ts, n) \in Nat}
  <2>1. 0 \in N
    BY <1>2
  <2>2. ASSUME NEW n \in Nat, n \in N PROVE n + 1 \in N
    <3> SUFFICES ASSUME n + 1 <= Len(ts) PROVE SharesUntil(ts, n + 1) \in Nat
      OBVIOUS
    <3>1. n + 1 \in 1 .. Len(ts) /\ (n + 1) - 1 = n
      OBVIOUS
    <3>2. SharesUntil(ts, n + 1) = SharesUntil(ts, n) + ts[n + 1].qty
      BY <1>3, <3>1
    <3> QED BY <1>0, <2>2, <3>1, <3>2
  <2>3. \A n \in Nat : n \in N
    <3> HIDE DEF N
    <3> QED BY <2>1, <2>2, NatByInduction
  <2> QED BY <2>3
<1> QED BY <1>2, <1>3, <1>4

LEMMA UntilRises ==
  ASSUME NEW Ts, Tradable(Ts), NEW ts \in Seq(Ts)
  PROVE  \A m, n \in 0 .. Len(ts) : m <= n => SharesUntil(ts, m) <= SharesUntil(ts, n)
<1> SUFFICES ASSUME NEW m \in 0 .. Len(ts)
             PROVE  \A n \in 0 .. Len(ts) : m <= n => SharesUntil(ts, m) <= SharesUntil(ts, n)
  OBVIOUS
<1> DEFINE N == {n \in Nat : n <= Len(ts) /\ m <= n => SharesUntil(ts, m) <= SharesUntil(ts, n)}
<1>1. 0 \in N
  <2>1. m <= 0 => m = 0
    OBVIOUS
  <2>2. SharesUntil(ts, 0) <= SharesUntil(ts, 0)
    BY UntilGrows
  <2> QED BY <2>1, <2>2
<1>2. ASSUME NEW n \in Nat, n \in N PROVE n + 1 \in N
  <2> SUFFICES ASSUME n + 1 <= Len(ts), m <= n + 1
               PROVE  SharesUntil(ts, m) <= SharesUntil(ts, n + 1)
    OBVIOUS
  <2>1. n + 1 \in 1 .. Len(ts) /\ (n + 1) - 1 = n /\ n \in 0 .. Len(ts)
    OBVIOUS
  <2>2. SharesUntil(ts, n + 1) = SharesUntil(ts, n) + ts[n + 1].qty
        /\ SharesUntil(ts, n) \in Nat /\ SharesUntil(ts, m) \in Nat /\ ts[n + 1].qty \in Nat
    BY <2>1, UntilGrows DEF Tradable
  <2>3. CASE m = n + 1
    BY <2>2, <2>3
  <2>4. CASE m <= n
    <3>1. SharesUntil(ts, m) <= SharesUntil(ts, n)
      BY <1>2, <2>1, <2>4
    <3> QED BY <2>2, <3>1
  <2> QED BY <2>3, <2>4
<1>3. \A n \in Nat : n \in N
  <2> HIDE DEF N
  <2> QED BY <1>1, <1>2, NatByInduction
<1> QED BY <1>3

\* the share is in the trade whose shares go past it
LEMMA TradeIs ==
  ASSUME NEW Ts, Tradable(Ts), NEW ts \in Seq(Ts), NEW i \in 1 .. Len(ts),
         NEW k \in SharesUntil(ts, i - 1) + 1 .. SharesUntil(ts, i)
  PROVE  TradeOf(ts, k) = i
<1> DEFINE Has(j) == SharesUntil(ts, j - 1) < k /\ k <= SharesUntil(ts, j)
<1>0. \A j \in 1 .. Len(ts) : j \in 0 .. Len(ts) /\ j - 1 \in 0 .. Len(ts)
  OBVIOUS
<1>1. \A j \in 0 .. Len(ts) : SharesUntil(ts, j) \in Nat
  BY UntilGrows
<1>2. k \in Nat /\ Has(i)
  BY <1>0, <1>1
<1>3. ASSUME NEW j \in 1 .. Len(ts), Has(j) PROVE j = i
  <2>1. SharesUntil(ts, j - 1) \in Nat /\ SharesUntil(ts, j) \in Nat
        /\ SharesUntil(ts, i - 1) \in Nat /\ SharesUntil(ts, i) \in Nat
    BY <1>0, <1>1
  <2>2. CASE j < i
    <3>1. SharesUntil(ts, j) <= SharesUntil(ts, i - 1)
      <4>1. j <= i - 1
        BY <2>2
      <4> QED BY <1>0, <4>1, UntilRises
    <3> QED BY <1>2, <1>3, <2>1, <3>1
  <2>3. CASE i < j
    <3>1. SharesUntil(ts, i) <= SharesUntil(ts, j - 1)
      <4>1. i <= j - 1
        BY <2>3
      <4> QED BY <1>0, <4>1, UntilRises
    <3> QED BY <1>2, <1>3, <2>1, <3>1
  <2> QED BY <2>2, <2>3
<1>4. TradeOf(ts, k) = CHOOSE j \in 1 .. Len(ts) : Has(j)
  BY DEF TradeOf
<1> HIDE DEF Has
<1> QED BY <1>2, <1>3, <1>4

\* the trades of one side that count
LEMMA OfTypes ==
  ASSUME NEW Ts, NEW d \in Seq(Ts), NEW side
  PROVE  Of(d, side) \in Seq({t \in Ts : t.qty > 0 /\ t.price > 0})
<1> DEFINE n == Len(d)
    V == Seq({t \in Ts : t.qty > 0 /\ t.price > 0})
    With(q, t) == IF t.side = side /\ t.qty > 0 /\ t.price > 0 THEN Append(q, t) ELSE q
    Body(it) == [s \in SUBSET (1 .. n) |-> IF s = {} THEN <<>>
                                            ELSE With(it[s \ {Max(s)}], d[Max(s)])]
    it == CHOOSE f : f = Body(f)
<1>0. n \in Nat /\ DOMAIN d = 1 .. n
  OBVIOUS
<1>1. Of(d, side) = it[1 .. n]
  BY <1>0 DEF Of, FoldLeft, MapThenFoldSet
<1>2. ASSUME NEW q \in V, NEW i \in 1 .. n PROVE With(q, d[i]) \in V
  <2>1. d[i] \in Ts
    OBVIOUS
  <2> QED BY <2>1
<1>3. \E f : f = Body(f)
  <2> DEFINE h == [i \in 1 .. n |-> [q \in V |-> With(q, d[i])]]
  <2>1. h \in [1 .. n -> [V -> V]]
    <3> HIDE DEF V, With
    <3> QED BY <1>2
  <2>2. PICK g \in [SUBSET (1 .. n) -> V] : FoldsWith(g, n, <<>>, h)
    <3>1. <<>> \in V
      OBVIOUS
    <3> HIDE DEF h, n, V
    <3> QED BY <1>0, <2>1, <3>1, FoldExists
  <2>3. ASSUME NEW s \in SUBSET (1 .. n), s # {}
        PROVE  h[Max(s)][g[s \ {Max(s)}]] = With(g[s \ {Max(s)}], d[Max(s)])
    <3>1. Max(s) \in 1 .. n
      BY <1>0, <2>3, LargestExists
    <3>2. g[s \ {Max(s)}] \in V
      BY <2>2
    <3> HIDE DEF V, With
    <3> QED BY <3>1, <3>2
  <2> HIDE DEF h, With, V
  <2>4. \A s \in SUBSET (1 .. n) : g[s] = Body(g)[s]
    BY <2>2, <2>3 DEF FoldsWith
  <2> QED BY <2>2, <2>4
<1> HIDE DEF With, V
<1>4. it = Body(it)
  BY <1>3
<1> HIDE DEF it
<1> DEFINE K == {k \in Nat : k <= n => it[1 .. k] \in V}
<1>5. 0 \in K
  <2>1. 1 .. 0 = {} /\ {} \in SUBSET (1 .. n)
    OBVIOUS
  <2>2. it[{}] = <<>>
    BY <1>4, <2>1
  <2>3. <<>> \in V
    BY DEF V
  <2> QED BY <2>1, <2>2, <2>3
<1>6. ASSUME NEW k \in Nat, k \in K PROVE k + 1 \in K
  <2> SUFFICES ASSUME k + 1 <= n PROVE it[1 .. k + 1] \in V
    OBVIOUS
  <2>1. /\ 1 .. k + 1 # {} /\ 1 .. k + 1 \in SUBSET (1 .. n)
        /\ Max(1 .. k + 1) = k + 1 /\ (1 .. k + 1) \ {Max(1 .. k + 1)} = 1 .. k
    <3>1. k \in 0 .. n - 1
      BY <1>0
    <3> HIDE DEF n
    <3> QED BY <1>0, <3>1, LargestOfFirst
  <2>2. Body(it)[1 .. k + 1] = With(it[1 .. k], d[k + 1])
    BY <2>1
  <2>3. it[1 .. k] \in V /\ k + 1 \in 1 .. n
    BY <1>0, <1>6
  <2>4. it[1 .. k + 1] = With(it[1 .. k], d[k + 1])
    BY <1>4, <2>2
  <2> QED BY <1>2, <2>3, <2>4
<1>7. \A k \in Nat : k \in K
  <2> HIDE DEF K
  <2> QED BY <1>5, <1>6, NatByInduction
<1>8. it[1 .. n] \in V
  <2> HIDE DEF n
  <2> QED BY <1>0, <1>7
<1> QED BY <1>1, <1>8 DEF V

-----------------------------------------------------------------------------
(***************************************************************************)
(* What the shares after a, up to b, cost.                                 *)
(***************************************************************************)
PriceAt(ts, k) == ts[TradeOf(ts, k)].price
CostOf(ts, a, b) == SumFunction([k \in a + 1 .. b |-> PriceAt(ts, k)])

\* one share more, of the i-th trade
LEMMA CostOfOneMore ==
  ASSUME NEW Ts, Tradable(Ts), NEW ts \in Seq(Ts), NEW i \in 1 .. Len(ts),
         NEW a \in Nat, NEW b \in Nat, a <= b,
         SharesUntil(ts, i - 1) <= b, b + 1 <= SharesUntil(ts, i)
  PROVE  /\ CostOf(ts, a, b) \in Int
         /\ CostOf(ts, a, b + 1) = CostOf(ts, a, b) + ts[i].price
<1> DEFINE n == Len(ts)
    S == a + 1 .. b
    f(c) == [k \in a + 1 .. c |-> PriceAt(ts, k)]
<1>0. /\ n \in Nat /\ \A j \in 0 .. n : SharesUntil(ts, j) \in Nat
      /\ SharesUntil(ts, 0) = 0 /\ i - 1 \in 0 .. n /\ i \in 0 .. n
  BY UntilGrows
<1>1. ASSUME NEW k \in Nat, 1 <= k, k <= b + 1 PROVE PriceAt(ts, k) \in Int
  <2> DEFINE J == {j \in Nat : j <= n /\ k <= SharesUntil(ts, j) =>
                       \E m \in 1 .. n : k \in SharesUntil(ts, m - 1) + 1 .. SharesUntil(ts, m)}
  <2>1. 0 \in J
    BY <1>0, <1>1
  <2>2. ASSUME NEW j \in Nat, j \in J PROVE j + 1 \in J
    <3> SUFFICES ASSUME j + 1 <= n, k <= SharesUntil(ts, j + 1)
                 PROVE  \E m \in 1 .. n : k \in SharesUntil(ts, m - 1) + 1 .. SharesUntil(ts, m)
      OBVIOUS
    <3>1. CASE k <= SharesUntil(ts, j)
      BY <2>2, <3>1
    <3>2. CASE ~(k <= SharesUntil(ts, j))
      <4>1. j + 1 \in 1 .. n /\ (j + 1) - 1 = j /\ SharesUntil(ts, j) \in Nat
            /\ SharesUntil(ts, j + 1) \in Nat
        BY <1>0
      <4>2. k \in SharesUntil(ts, (j + 1) - 1) + 1 .. SharesUntil(ts, j + 1)
        BY <3>2, <4>1
      <4> QED BY <4>1, <4>2
    <3> QED BY <3>1, <3>2
  <2>3. \A j \in Nat : j \in J
    <3> HIDE DEF J
    <3> QED BY <2>1, <2>2, NatByInduction
  <2>4. k <= SharesUntil(ts, i)
    BY <1>0, <1>1
  <2>5. PICK m \in 1 .. n : k \in SharesUntil(ts, m - 1) + 1 .. SharesUntil(ts, m)
    <3>1. i \in J /\ i <= n /\ i \in Nat
      BY <2>3
    <3> QED BY <2>4, <3>1
  <2>6. TradeOf(ts, k) = m
    BY <2>5, TradeIs
  <2>7. ts[m].price \in Int
    BY DEF Tradable
  <2> QED BY <2>6, <2>7 DEF PriceAt
<1>2. PriceAt(ts, b + 1) = ts[i].price
  <2>1. b + 1 \in SharesUntil(ts, i - 1) + 1 .. SharesUntil(ts, i)
    BY <1>0
  <2> QED BY <2>1, TradeIs DEF PriceAt
<1>3. /\ IsFiniteSet(S) /\ b + 1 \notin S /\ a + 1 .. b + 1 = S \cup {b + 1}
  <2>1. IsFiniteSet(S)
    BY FS_Interval
  <2> QED BY <2>1
<1>4. f(b) \in [S -> Int] /\ f(b + 1) \in [S \cup {b + 1} -> Int]
  <2>1. \A k \in S : k \in Nat /\ 1 <= k /\ k <= b + 1
    OBVIOUS
  <2>2. \A k \in S \cup {b + 1} : PriceAt(ts, k) \in Int
    BY <1>1, <2>1
  <2> HIDE DEF S
  <2>3. f(b + 1) = [k \in S \cup {b + 1} |-> PriceAt(ts, k)]
    BY <1>3
  <2>4. f(b) = [k \in S |-> PriceAt(ts, k)]
    BY DEF S
  <2> HIDE DEF f
  <2> QED BY <2>2, <2>3, <2>4
<1>5. f(b + 1)[b + 1] = ts[i].price /\ \A x \in S : f(b + 1)[x] = f(b)[x]
  <2>1. b + 1 \in a + 1 .. b + 1 /\ \A x \in S : x \in a + 1 .. b + 1
    OBVIOUS
  <2> QED BY <1>2, <2>1
<1>6. CostOf(ts, a, b) = SumFunction(f(b)) /\ CostOf(ts, a, b + 1) = SumFunction(f(b + 1))
  BY DEF CostOf
<1> HIDE DEF f, S, n
<1>7. CostOf(ts, a, b) = Total(f(b), S) /\ IsFiniteSet(S \cup {b + 1})
      /\ CostOf(ts, a, b + 1) = Total(f(b + 1), S \cup {b + 1})
  <2>1. IsFiniteSet(S \cup {b + 1})
    BY <1>3, FS_AddElement
  <2> QED BY <1>3, <1>4, <1>6, <2>1, SumFunctionIs
<1>8. \A x \in S \cup {b + 1} : f(b + 1)[x] \in Int
  BY <1>4
<1>9. Total(f(b + 1), S \cup {b + 1}) = Total(f(b + 1), S) + f(b + 1)[b + 1]
  BY <1>3, <1>8, SumAdd
<1>10. Total(f(b + 1), S) = Total(f(b), S) /\ Total(f(b), S) \in Int
  <2>1. \A x \in S : f(b + 1)[x] \in Int /\ f(b)[x] \in Int
    BY <1>4, <1>8
  <2> QED BY <1>3, <1>5, <2>1, SumSame, SumType
<1> QED BY <1>5, <1>7, <1>9, <1>10

\* c shares more of the i-th trade
LEMMA CostOfMore ==
  ASSUME NEW Ts, Tradable(Ts), NEW ts \in Seq(Ts), NEW i \in 1 .. Len(ts),
         NEW a \in Nat, NEW b \in Nat, a <= b, NEW c \in Nat \ {0},
         SharesUntil(ts, i - 1) <= b, b + c <= SharesUntil(ts, i)
  PROVE  /\ CostOf(ts, a, b) \in Int
         /\ CostOf(ts, a, b + c) = CostOf(ts, a, b) + c * ts[i].price
<1>0. SharesUntil(ts, i) \in Nat /\ SharesUntil(ts, i - 1) \in Nat /\ ts[i].price \in Nat
  <2>1. i \in 0 .. Len(ts) /\ i - 1 \in 0 .. Len(ts)
    OBVIOUS
  <2> QED BY <2>1, UntilGrows DEF Tradable
<1> DEFINE K == {k \in Nat : b + k <= SharesUntil(ts, i) =>
                               CostOf(ts, a, b + k) = CostOf(ts, a, b) + k * ts[i].price}
<1>1. CostOf(ts, a, b) \in Int
  <2>1. b + 1 <= SharesUntil(ts, i)
    BY <1>0
  <2> QED BY <2>1, CostOfOneMore
<1>2. 0 \in K
  <2>1. b + 0 = b /\ 0 * ts[i].price = 0
    BY <1>0
  <2> QED BY <1>1, <2>1
<1>3. ASSUME NEW k \in Nat, k \in K PROVE k + 1 \in K
  <2> SUFFICES ASSUME b + (k + 1) <= SharesUntil(ts, i)
               PROVE  CostOf(ts, a, b + (k + 1)) = CostOf(ts, a, b) + (k + 1) * ts[i].price
    OBVIOUS
  <2>1. b + k \in Nat /\ b + (k + 1) = (b + k) + 1 /\ a <= b + k /\ b + k <= SharesUntil(ts, i)
        /\ SharesUntil(ts, i - 1) <= b + k /\ (b + k) + 1 <= SharesUntil(ts, i)
    BY <1>0
  <2>2. CostOf(ts, a, (b + k) + 1) = CostOf(ts, a, b + k) + ts[i].price
    BY <2>1, CostOfOneMore
  <2>3. CostOf(ts, a, b + k) = CostOf(ts, a, b) + k * ts[i].price
    BY <1>3, <2>1
  <2>4. (k + 1) * ts[i].price = k * ts[i].price + ts[i].price /\ k * ts[i].price \in Int
    BY <1>0
  <2> QED BY <1>0, <1>1, <2>1, <2>2, <2>3, <2>4
<1>4. \A k \in Nat : k \in K
  <2> HIDE DEF K
  <2> QED BY <1>2, <1>3, NatByInduction
<1> QED BY <1>1, <1>4

LEMMA CostOfNone == ASSUME NEW ts, NEW a \in Nat PROVE CostOf(ts, a, a) = 0
<1> DEFINE f == [k \in a + 1 .. a |-> PriceAt(ts, k)]
<1>1. a + 1 .. a = {}
  OBVIOUS
<1>2. f \in [{} -> Int]
  BY <1>1
<1>3. IsFiniteSet({})
  BY FS_EmptySet
<1>4. SumFunction(f) = Total(f, {})
  <2> HIDE DEF f
  <2> QED BY <1>2, <1>3, SumFunctionIs
<1>5. Total(f, {}) = 0
  BY SumEmpty
<1> QED BY <1>4, <1>5 DEF CostOf

-----------------------------------------------------------------------------
(***************************************************************************)
(* The loop of one sell.                                                   *)
(***************************************************************************)
Cursors == [at : Nat \ {0}, left : Int]
LoopStates == [cost : Int, want : Int, cursor : Cursors]

\* one turn, or none
Turn(buys, l) ==
  IF l.want > 0 /\ l.cursor.at <= Len(buys)
  THEN LET s == Take(buys, l.cursor, l.want)
       IN [cost |-> l.cost + s.cost, want |-> l.want - s.taken, cursor |-> s.cursor]
  ELSE l

LEMMA LeftTypes ==
  ASSUME NEW Ts, Tradable(Ts), NEW buys \in Seq(Ts), NEW i \in Nat \ {0}
  PROVE  LeftOf(buys, i) \in Nat
<1>1. i <= Len(buys) => buys[i].qty \in Nat
  BY DEF Tradable
<1> QED BY <1>1 DEF LeftOf

LEMMA TurnTypes ==
  ASSUME NEW Ts, Tradable(Ts), NEW buys \in Seq(Ts), NEW l \in LoopStates
  PROVE  Turn(buys, l) \in LoopStates
<1>0. /\ l.cost \in Int /\ l.want \in Int /\ l.cursor.at \in Nat \ {0} /\ l.cursor.left \in Int
      /\ Len(buys) \in Nat
  BY DEF LoopStates, Cursors
<1>1. CASE ~(l.want > 0 /\ l.cursor.at <= Len(buys))
  BY <1>1 DEF Turn
<1>2. CASE l.want > 0 /\ l.cursor.at <= Len(buys)
  <2> DEFINE s == Take(buys, l.cursor, l.want)
      take == Lesser(l.want, l.cursor.left)
  <2>1. take \in Int /\ buys[l.cursor.at].price \in Nat
    BY <1>0, <1>2 DEF Lesser, Tradable
  <2>2. LeftOf(buys, l.cursor.at + 1) \in Nat
    BY <1>0, LeftTypes
  <2>3. s.cost \in Int /\ s.taken \in Int
    <3>1. s.cost = take * buys[l.cursor.at].price /\ s.taken = take
      BY DEF Take
    <3> HIDE DEF s, take
    <3> QED BY <2>1, <3>1
  <2>4. s.cursor \in Cursors
    <3>1. s.cursor = IF l.cursor.left - take <= 0
                     THEN [at |-> l.cursor.at + 1, left |-> LeftOf(buys, l.cursor.at + 1)]
                     ELSE [at |-> l.cursor.at, left |-> l.cursor.left - take]
      BY DEF Take
    <3> HIDE DEF s, take
    <3> QED BY <1>0, <2>1, <2>2, <3>1 DEF Cursors
  <2>5. Turn(buys, l) = [cost |-> l.cost + s.cost, want |-> l.want - s.taken, cursor |-> s.cursor]
    BY <1>2 DEF Turn
  <2> HIDE DEF s
  <2> QED BY <1>0, <2>3, <2>4, <2>5 DEF LoopStates
<1> QED BY <1>1, <1>2

LoopOf(g, buys, cur, qty) ==
  /\ g \in [0 .. qty -> LoopStates]
  /\ g[0] = [cost |-> 0, want |-> qty, cursor |-> cur]
  /\ \A n \in 1 .. qty : g[n] = Turn(buys, g[n - 1])

LEMMA MatchedLoops ==
  ASSUME NEW Ts, Tradable(Ts), NEW buys \in Seq(Ts), NEW cur \in Cursors, NEW qty \in Nat
  PROVE  \E g : LoopOf(g, buys, cur, qty) /\ Matched(buys, cur, qty) = g[qty]
<1> DEFINE base == [cost |-> 0, want |-> qty, cursor |-> cur]
    Body(g) == [n \in 0 .. qty |-> IF n = 0 THEN base ELSE Turn(buys, g[n - 1])]
    loop == CHOOSE g : g = Body(g)
<1>1. Matched(buys, cur, qty) = loop[qty]
  BY DEF Matched, Turn
<1>2. base \in LoopStates
  BY DEF LoopStates
<1> HIDE DEF base
<1>3. \E g : g = Body(g)
  <2> DEFINE h == [n \in 1 .. qty |-> [l \in LoopStates |-> Turn(buys, l)]]
  <2>1. h \in [1 .. qty -> [LoopStates -> LoopStates]]
    BY TurnTypes
  <2>2. PICK g \in [0 .. qty -> LoopStates] : RecursWith(g, qty, base, h)
    <3> HIDE DEF h
    <3> QED BY <1>2, <2>1, RecursionExists
  <2>3. ASSUME NEW n \in 1 .. qty PROVE g[n] = Turn(buys, g[n - 1])
    <3>1. g[n - 1] \in LoopStates
      OBVIOUS
    <3> QED BY <2>2, <3>1 DEF RecursWith
  <2> HIDE DEF h
  <2>4. ASSUME NEW n \in 0 .. qty PROVE g[n] = Body(g)[n]
    <3>1. n # 0 => n \in 1 .. qty
      OBVIOUS
    <3> QED BY <2>2, <2>3, <3>1 DEF RecursWith
  <2> QED BY <2>2, <2>4
<1>4. loop = Body(loop)
  BY <1>3
<1> HIDE DEF loop
<1>5. loop[0] = base /\ \A n \in 1 .. qty : loop[n] = Turn(buys, loop[n - 1])
  <2>1. 0 \in 0 .. qty /\ \A n \in 1 .. qty : n \in 0 .. qty /\ n # 0
    OBVIOUS
  <2> QED BY <1>4, <2>1
<1>6. loop \in [0 .. qty -> LoopStates]
  <2> DEFINE K == {n \in Nat : n <= qty => loop[n] \in LoopStates}
  <2>1. 0 \in K
    BY <1>2, <1>5
  <2>2. ASSUME NEW n \in Nat, n \in K PROVE n + 1 \in K
    <3> SUFFICES ASSUME n + 1 <= qty PROVE loop[n + 1] \in LoopStates
      OBVIOUS
    <3>1. n + 1 \in 1 .. qty /\ (n + 1) - 1 = n /\ n <= qty
      OBVIOUS
    <3>2. loop[n] \in LoopStates
      BY <2>2, <3>1
    <3> QED BY <1>5, <3>1, <3>2, TurnTypes
  <2>3. \A n \in Nat : n \in K
    <3> HIDE DEF K
    <3> QED BY <2>1, <2>2, NatByInduction
  <2>4. \A n \in 0 .. qty : loop[n] \in LoopStates
    BY <2>3
  <2>5. loop = [n \in 0 .. qty |-> loop[n]]
    <3> DEFINE b == Body(loop)
    <3>1. b = [n \in 0 .. qty |-> b[n]]
      OBVIOUS
    <3> HIDE DEF b
    <3> QED BY <1>4, <3>1 DEF b
  <2> HIDE DEF K
  <2> QED BY <2>4, <2>5
<1> QED BY <1>1, <1>5, <1>6 DEF LoopOf, base

-----------------------------------------------------------------------------
\* pos shares are taken: the cursor is at the trade of the next one
Placed(buys, c, pos) ==
  /\ c \in Cursors /\ pos \in Nat /\ c.at <= Len(buys) + 1
  /\ IF c.at <= Len(buys) THEN c.left \in 1 .. buys[c.at].qty
                               /\ pos + c.left = SharesUntil(buys, c.at)
     ELSE pos = SharesUntil(buys, Len(buys))

LEMMA PlacedFirst ==
  ASSUME NEW Ts, Tradable(Ts), NEW buys \in Seq(Ts), NEW at \in 1 .. Len(buys) + 1,
         NEW c, c = [at |-> at, left |-> LeftOf(buys, at)]
  PROVE  Placed(buys, c, SharesUntil(buys, at - 1))
<1>0. Len(buys) \in Nat /\ at - 1 \in 0 .. Len(buys) /\ SharesUntil(buys, at - 1) \in Nat
  BY UntilGrows
<1>1. c \in Cursors /\ c.at = at
  BY <1>0, LeftTypes DEF Cursors
<1>2. CASE at <= Len(buys)
  <2>1. c.left = buys[at].qty /\ buys[at].qty \in Nat \ {0} /\ at \in 1 .. Len(buys)
    BY <1>0, <1>2 DEF LeftOf, Tradable
  <2>2. SharesUntil(buys, at) = SharesUntil(buys, at - 1) + buys[at].qty
    BY <2>1, UntilGrows
  <2> QED BY <1>0, <1>1, <1>2, <2>1, <2>2 DEF Placed
<1>3. CASE ~(at <= Len(buys))
  <2>1. at - 1 = Len(buys)
    BY <1>0, <1>3
  <2> QED BY <1>0, <1>1, <1>3, <2>1 DEF Placed
<1> QED BY <1>2, <1>3

\* a sell has cost what the shares after start, up to pos, cost
Taken(buys, l, start, qty) ==
  /\ l.want \in 0 .. qty
  /\ Placed(buys, l.cursor, start + (qty - l.want))
  /\ l.cost = CostOf(buys, start, start + (qty - l.want))

LEMMA TurnTakes ==
  ASSUME NEW Ts, Tradable(Ts), NEW buys \in Seq(Ts), NEW l \in LoopStates,
         NEW start \in Nat, NEW qty \in Nat, Taken(buys, l, start, qty)
  PROVE  /\ Taken(buys, Turn(buys, l), start, qty)
         /\ \/ Turn(buys, l).want < l.want
            \/ l.want = 0 /\ Turn(buys, l) = l
            \/ l.cursor.at = Len(buys) + 1 /\ Turn(buys, l) = l
<1> DEFINE c == l.cursor
    pos == start + (qty - l.want)
<1>0. /\ l.cost \in Int /\ l.want \in 0 .. qty /\ c.at \in Nat \ {0} /\ c.left \in Int
      /\ Len(buys) \in Nat /\ pos \in Nat /\ start <= pos /\ Placed(buys, c, pos)
      /\ c.at <= Len(buys) + 1 /\ l.cost = CostOf(buys, start, pos)
  BY DEF LoopStates, Cursors, Taken, Placed
<1>1. CASE ~(l.want > 0 /\ c.at <= Len(buys))
  BY <1>0, <1>1 DEF Turn
<1>2. CASE l.want > 0 /\ c.at <= Len(buys)
  <2> DEFINE s == Take(buys, c, l.want)
      take == Lesser(l.want, c.left)
      price == buys[c.at].price
  <2>1. c.left \in 1 .. buys[c.at].qty /\ pos + c.left = SharesUntil(buys, c.at)
        /\ c.at \in 1 .. Len(buys) /\ price \in Nat /\ buys[c.at].qty \in Nat
    BY <1>0, <1>2 DEF Placed, Tradable
  <2>2. SharesUntil(buys, c.at) = SharesUntil(buys, c.at - 1) + buys[c.at].qty
        /\ SharesUntil(buys, c.at - 1) \in Nat /\ SharesUntil(buys, c.at) \in Nat
    <3>1. c.at - 1 \in 0 .. Len(buys) /\ c.at \in 0 .. Len(buys)
      BY <2>1
    <3> QED BY <2>1, <3>1, UntilGrows
  <2>3. take \in Nat \ {0} /\ take <= l.want /\ take <= c.left
    <3>1. c.left \in Nat \ {0} /\ l.want \in Nat \ {0}
      BY <1>0, <1>2, <2>1
    <3> HIDE DEF c
    <3> QED BY <3>1 DEF Lesser
  <2>4. s.cost = take * price /\ s.taken = take
        /\ s.cursor = IF c.left - take <= 0
                      THEN [at |-> c.at + 1, left |-> LeftOf(buys, c.at + 1)]
                      ELSE [at |-> c.at, left |-> c.left - take]
    BY DEF Take
  <2>5. Turn(buys, l) = [cost |-> l.cost + s.cost, want |-> l.want - s.taken, cursor |-> s.cursor]
    BY <1>2 DEF Turn
  <2> HIDE DEF s, take, c, price
  <2>6. CostOf(buys, start, pos + take) = CostOf(buys, start, pos) + take * price
    <3>1. SharesUntil(buys, c.at - 1) <= pos /\ pos + take <= SharesUntil(buys, c.at)
      <4>1. c.left \in Nat /\ c.left <= buys[c.at].qty /\ pos \in Nat
        BY <1>0, <2>1
      <4> HIDE DEF pos
      <4> QED BY <2>1, <2>2, <2>3, <4>1
    <3> HIDE DEF pos
    <3> QED BY <1>0, <2>1, <2>3, <3>1, CostOfMore DEF price
  <2>7. Placed(buys, s.cursor, pos + take)
    <3>1. CASE c.left - take <= 0
      <4>1. take = c.left /\ pos + take = SharesUntil(buys, c.at)
        BY <2>1, <2>3, <3>1
      <4>2. c.at + 1 \in 1 .. Len(buys) + 1 /\ (c.at + 1) - 1 = c.at
        BY <2>1
      <4> QED BY <2>4, <3>1, <4>1, <4>2, PlacedFirst
    <3>2. CASE ~(c.left - take <= 0)
      <4>1. s.cursor = [at |-> c.at, left |-> c.left - take]
        BY <2>4, <3>2
      <4>2. s.cursor \in Cursors /\ s.cursor.at = c.at /\ s.cursor.left = c.left - take
        BY <1>0, <2>3, <4>1 DEF Cursors, c
      <4>3. c.left - take \in 1 .. buys[c.at].qty
            /\ (pos + take) + (c.left - take) = SharesUntil(buys, c.at) /\ pos + take \in Nat
        <5>1. c.left \in Nat /\ c.left <= buys[c.at].qty /\ pos \in Nat /\ buys[c.at].qty \in Nat
          BY <1>0, <2>1
        <5>2. SharesUntil(buys, c.at) = pos + c.left
          BY <2>1
        <5> HIDE DEF pos
        <5>3. c.left - take \in 1 .. buys[c.at].qty
          BY <2>3, <3>2, <5>1
        <5>4. (pos + take) + (c.left - take) = pos + c.left /\ pos + take \in Nat
          BY <2>3, <5>1
        <5> QED BY <5>2, <5>3, <5>4
      <4> HIDE DEF pos
      <4> QED BY <1>0, <2>1, <4>2, <4>3 DEF Placed
    <3> QED BY <3>1, <3>2
  <2>8. /\ Turn(buys, l).want = l.want - take /\ Turn(buys, l).cursor = s.cursor
        /\ Turn(buys, l).cost = l.cost + take * price
    BY <2>4, <2>5
  <2>9. l.want - take \in 0 .. qty /\ start + (qty - (l.want - take)) = pos + take
        /\ l.want - take < l.want
    BY <1>0, <2>3
  <2>10. Taken(buys, Turn(buys, l), start, qty)
    <3> HIDE DEF pos
    <3> QED BY <1>0, <2>6, <2>7, <2>8, <2>9 DEF Taken
  <2> QED BY <2>8, <2>9, <2>10
<1> QED BY <1>1, <1>2

\* a sell takes as many shares as it sells, or all that are left
LEMMA MatchedTakes ==
  ASSUME NEW Ts, Tradable(Ts), NEW buys \in Seq(Ts), NEW cur, NEW start, NEW qty \in Nat,
         Placed(buys, cur, start)
  PROVE  LET l == Matched(buys, cur, qty)
         IN /\ l \in LoopStates /\ Taken(buys, l, start, qty)
            /\ l.want = 0 \/ l.cursor.at = Len(buys) + 1
<1>0. cur \in Cursors /\ start \in Nat /\ Len(buys) \in Nat
  BY DEF Placed
<1>1. PICK g : LoopOf(g, buys, cur, qty) /\ Matched(buys, cur, qty) = g[qty]
  BY <1>0, MatchedLoops
<1> DEFINE Done(l, n) == l.want <= qty - n \/ l.cursor.at = Len(buys) + 1
    K == {n \in Nat : n <= qty => Taken(buys, g[n], start, qty) /\ Done(g[n], n)}
<1>2. 0 \in K
  <2>1. g[0].cost = 0 /\ g[0].want = qty /\ g[0].cursor = cur
    BY <1>1 DEF LoopOf
  <2>2. start + (qty - qty) = start /\ CostOf(buys, start, start) = 0
    BY <1>0, CostOfNone
  <2>3. Taken(buys, g[0], start, qty)
    BY <2>1, <2>2 DEF Taken
  <2> QED BY <2>1, <2>3
<1>3. ASSUME NEW n \in Nat, n \in K PROVE n + 1 \in K
  <2> SUFFICES ASSUME n + 1 <= qty PROVE Taken(buys, g[n + 1], start, qty) /\ Done(g[n + 1], n + 1)
    OBVIOUS
  <2>1. n + 1 \in 1 .. qty /\ (n + 1) - 1 = n /\ n \in 0 .. qty
    OBVIOUS
  <2>2. g[n + 1] = Turn(buys, g[n]) /\ g[n] \in LoopStates
    BY <1>1, <2>1 DEF LoopOf
  <2>3. Taken(buys, g[n], start, qty) /\ Done(g[n], n)
    BY <1>3, <2>1
  <2>4. /\ Taken(buys, g[n + 1], start, qty)
        /\ \/ g[n + 1].want < g[n].want
           \/ g[n].want = 0 /\ g[n + 1] = g[n]
           \/ g[n].cursor.at = Len(buys) + 1 /\ g[n + 1] = g[n]
    BY <1>0, <2>2, <2>3, TurnTakes
  <2>5. g[n].want \in Int /\ g[n + 1].want \in Int
    BY <2>3, <2>4 DEF Taken
  <2>6. Done(g[n + 1], n + 1)
    <3>1. CASE g[n].cursor.at = Len(buys) + 1
      <4>1. g[n + 1] = g[n]
        BY <1>0, <2>2, <3>1 DEF Turn
      <4> QED BY <3>1, <4>1
    <3>2. CASE g[n].cursor.at # Len(buys) + 1
      <4>1. g[n].want <= qty - n
        BY <2>3, <3>2
      <4> QED BY <2>1, <2>4, <2>5, <3>2, <4>1
    <3> QED BY <3>1, <3>2
  <2> QED BY <2>4, <2>6
<1>4. \A n \in Nat : n \in K
  <2> HIDE DEF K
  <2> QED BY <1>2, <1>3, NatByInduction
<1>5. Taken(buys, g[qty], start, qty) /\ Done(g[qty], qty) /\ g[qty] \in LoopStates
  BY <1>1, <1>4 DEF LoopOf
<1>6. g[qty].want \in 0 .. qty
  BY <1>5 DEF Taken
<1> QED BY <1>1, <1>5, <1>6

-----------------------------------------------------------------------------
(***************************************************************************)
(* The loop over the sells.                                                *)
(***************************************************************************)
FirstCursor(buys) == [at |-> 1, left |-> LeftOf(buys, 1)]
DoneStates == [cursor : Cursors, pnl : Seq(SUBSET Seq(Int))]

\* what the profit of a sell may be
PaidFor(s, l) == IF l.want > 0 THEN {Unmatched} ELSE Truncated(s, l.cost)

Sold(buys, s, d) ==
  LET l == Matched(buys, d.cursor, s.qty)
  IN [cursor |-> l.cursor,
      pnl |-> Append(d.pnl, PaidFor(s, l))]

LEMMA PlacedWithin ==
  ASSUME NEW Ts, Tradable(Ts), NEW buys \in Seq(Ts), NEW c, NEW pos, Placed(buys, c, pos)
  PROVE  pos \in Nat /\ pos <= SharesUntil(buys, Len(buys)) /\ SharesUntil(buys, Len(buys)) \in Nat
<1>0. /\ c.at \in Nat \ {0} /\ pos \in Nat /\ Len(buys) \in Nat
      /\ SharesUntil(buys, Len(buys)) \in Nat
  <2>1. Len(buys) \in 0 .. Len(buys)
    OBVIOUS
  <2> QED BY <2>1, UntilGrows DEF Placed, Cursors
<1>1. CASE c.at <= Len(buys)
  <2>1. c.at \in 0 .. Len(buys) /\ Len(buys) \in 0 .. Len(buys)
    BY <1>0, <1>1
  <2>2. SharesUntil(buys, c.at) <= SharesUntil(buys, Len(buys)) /\ SharesUntil(buys, c.at) \in Nat
    BY <1>0, <1>1, <2>1, UntilRises, UntilGrows
  <2>3. c.left \in 1 .. buys[c.at].qty /\ pos + c.left = SharesUntil(buys, c.at)
        /\ buys[c.at].qty \in Nat
    BY <1>0, <1>1 DEF Placed, Tradable
  <2>4. c.left \in Nat
    BY <2>3
  <2> QED BY <1>0, <2>2, <2>3, <2>4
<1>2. CASE ~(c.at <= Len(buys))
  BY <1>0, <1>2 DEF Placed
<1> QED BY <1>1, <1>2

LEMMA ProfitTypes ==
  ASSUME NEW Ts, Tradable(Ts), NEW s \in Ts, NEW cost \in Int
  PROVE  Truncated(s, cost) \subseteq Seq(Int)
<1>1. \A a \in Int : Part(a, CommissionPpm) \in Int /\ Part(a, SellTaxPpm) \in Int
  BY DEF Part, CommissionPpm, SellTaxPpm, Million
<1>2. Amount(s) \in Int
  <2>1. s.qty \in Int /\ s.price \in Int
    BY DEF Tradable
  <2> QED BY <2>1 DEF Amount
<1>3. Fee(s) \in Int
  BY <1>1, <1>2 DEF Fee
<1>4. ProfitOf(s, cost) \in Int
  BY <1>1, <1>2, <1>3 DEF ProfitOf
<1>5. Short(ProfitOf(s, cost)) \in Int
  BY <1>4 DEF Short
<1>6. <<ProfitOf(s, cost)>> \in Seq(Int) /\ <<Short(ProfitOf(s, cost))>> \in Seq(Int)
  BY <1>4, <1>5
<1> QED BY <1>6 DEF Truncated

LEMMA SoldTypes ==
  ASSUME NEW Ts, Tradable(Ts), NEW buys \in Seq(Ts), NEW s \in Ts, NEW d \in DoneStates
  PROVE  Sold(buys, s, d) \in DoneStates
<1>1. d.cursor \in Cursors /\ d.pnl \in Seq(SUBSET Seq(Int)) /\ s.qty \in Nat
  BY DEF DoneStates, Tradable
<1> DEFINE l == Matched(buys, d.cursor, s.qty)
<1>2. l \in LoopStates
  <2>1. PICK g : LoopOf(g, buys, d.cursor, s.qty) /\ l = g[s.qty]
    BY <1>1, MatchedLoops
  <2> HIDE DEF l
  <2> QED BY <1>1, <2>1 DEF LoopOf
<1>3. l.cost \in Int /\ l.cursor \in Cursors
  BY <1>2 DEF LoopStates
<1>4. PaidFor(s, l) \in SUBSET Seq(Int)
  <2>1. Truncated(s, l.cost) \subseteq Seq(Int)
    <3> HIDE DEF l
    <3> QED BY <1>3, ProfitTypes
  <2> QED BY <2>1 DEF PaidFor, Unmatched
<1>5. Sold(buys, s, d) =
        [cursor |-> l.cursor,
         pnl |-> Append(d.pnl, PaidFor(s, l))]
  BY DEF Sold
<1> HIDE DEF l
<1>7. Append(d.pnl, PaidFor(s, l)) \in Seq(SUBSET Seq(Int))
  BY <1>1, <1>4
<1> QED BY <1>3, <1>5, <1>7 DEF DoneStates

DoneOf(g, buys, sells) ==
  /\ g \in [0 .. Len(sells) -> DoneStates]
  /\ g[0] = [cursor |-> FirstCursor(buys), pnl |-> <<>>]
  /\ \A n \in 1 .. Len(sells) : g[n] = Sold(buys, sells[n], g[n - 1])

LEMMA ProfitsLoop ==
  ASSUME NEW Ts, Tradable(Ts), NEW d, Of(d, "buy") \in Seq(Ts), Of(d, "sell") \in Seq(Ts)
  PROVE  \E g : /\ DoneOf(g, Of(d, "buy"), Of(d, "sell"))
                /\ Profits(d) = g[Len(Of(d, "sell"))].pnl
<1> DEFINE buys == Of(d, "buy")
    sells == Of(d, "sell")
    len == Len(sells)
    base == [cursor |-> FirstCursor(buys), pnl |-> <<>>]
    Body(g) == [n \in 0 .. len |-> IF n = 0 THEN base ELSE Sold(buys, sells[n], g[n - 1])]
    loop == CHOOSE g : g = Body(g)
<1>0. buys \in Seq(Ts) /\ sells \in Seq(Ts) /\ len \in Nat
  OBVIOUS
<1>1. Profits(d) = loop[len].pnl
  BY DEF Profits, Sold, PaidFor, FirstCursor
<1>2. base \in DoneStates
  <2>1. FirstCursor(buys) \in Cursors
    BY LeftTypes DEF FirstCursor, Cursors
  <2> QED BY <2>1 DEF DoneStates
<1> HIDE DEF base, buys, sells
<1>3. \E g : g = Body(g)
  <2> DEFINE h == [n \in 1 .. len |-> [l \in DoneStates |-> Sold(buys, sells[n], l)]]
  <2>1. h \in [1 .. len -> [DoneStates -> DoneStates]]
    <3>1. \A n \in 1 .. len : sells[n] \in Ts
      BY <1>0
    <3> QED BY <1>0, <3>1, SoldTypes
  <2> HIDE DEF len
  <2>2. PICK g \in [0 .. len -> DoneStates] : RecursWith(g, len, base, h)
    <3> HIDE DEF h
    <3> QED BY <1>0, <1>2, <2>1, RecursionExists
  <2>3. ASSUME NEW n \in 1 .. len PROVE g[n] = Sold(buys, sells[n], g[n - 1])
    <3>1. g[n - 1] \in DoneStates
      BY <1>0
    <3> QED BY <2>2, <3>1 DEF RecursWith
  <2> HIDE DEF h
  <2>4. ASSUME NEW n \in 0 .. len PROVE g[n] = Body(g)[n]
    <3>1. n # 0 => n \in 1 .. len
      BY <1>0
    <3> QED BY <2>2, <2>3, <3>1 DEF RecursWith
  <2> QED BY <2>2, <2>4
<1>4. loop = Body(loop)
  BY <1>3
<1> HIDE DEF loop
<1>5. loop[0] = base /\ \A n \in 1 .. len : loop[n] = Sold(buys, sells[n], loop[n - 1])
  <2>1. 0 \in 0 .. len /\ \A n \in 1 .. len : n \in 0 .. len /\ n # 0
    BY <1>0
  <2> QED BY <1>4, <2>1
<1>6. loop \in [0 .. len -> DoneStates]
  <2> DEFINE K == {n \in Nat : n <= len => loop[n] \in DoneStates}
  <2>1. 0 \in K
    BY <1>2, <1>5
  <2>2. ASSUME NEW n \in Nat, n \in K PROVE n + 1 \in K
    <3> SUFFICES ASSUME n + 1 <= len PROVE loop[n + 1] \in DoneStates
      OBVIOUS
    <3>1. n + 1 \in 1 .. len /\ (n + 1) - 1 = n /\ n <= len
      BY <1>0
    <3>2. loop[n] \in DoneStates /\ sells[n + 1] \in Ts
      BY <1>0, <2>2, <3>1
    <3> QED BY <1>0, <1>5, <3>1, <3>2, SoldTypes
  <2>3. \A n \in Nat : n \in K
    <3> HIDE DEF K
    <3> QED BY <2>1, <2>2, NatByInduction
  <2>4. \A n \in 0 .. len : loop[n] \in DoneStates
    BY <1>0, <2>3
  <2>5. loop = [n \in 0 .. len |-> loop[n]]
    <3> DEFINE b == Body(loop)
    <3>1. b = [n \in 0 .. len |-> b[n]]
      OBVIOUS
    <3> HIDE DEF b
    <3> QED BY <1>4, <3>1 DEF b
  <2> HIDE DEF K
  <2> QED BY <2>4, <2>5
<1>7. DoneOf(loop, buys, sells)
  BY <1>5, <1>6 DEF DoneOf, base
<1> QED BY <1>1, <1>7 DEF buys, sells

-----------------------------------------------------------------------------
(***************************************************************************)
(* Sell by sell the queue is where the shares sold so far leave it.        *)
(***************************************************************************)
MayBePaid(buys, sells, n) ==
  IF SharesUntil(sells, n) > SharesUntil(buys, Len(buys)) THEN {Unmatched}
  ELSE Truncated(sells[n], CostOf(buys, SharesUntil(sells, n - 1), SharesUntil(sells, n)))

InStep(d, buys, sells, n) ==
  /\ Placed(buys, d.cursor, Lesser(SharesUntil(sells, n), SharesUntil(buys, Len(buys))))
  /\ Len(d.pnl) = n /\ \A m \in 1 .. n : d.pnl[m] = MayBePaid(buys, sells, m)

LEMMA StaysInStep ==
  ASSUME NEW Ts, Tradable(Ts), NEW buys \in Seq(Ts), NEW sells \in Seq(Ts),
         NEW n \in Nat, n + 1 <= Len(sells), NEW d \in DoneStates, InStep(d, buys, sells, n)
  PROVE  InStep(Sold(buys, sells[n + 1], d), buys, sells, n + 1)
<1> DEFINE s == sells[n + 1]
    all == SharesUntil(buys, Len(buys))
    old == SharesUntil(sells, n)
    new == SharesUntil(sells, n + 1)
    start == Lesser(old, all)
    l == Matched(buys, d.cursor, s.qty)
    pos == start + (s.qty - l.want)
    p == PaidFor(s, l)
<1>1. n \in 0 .. Len(sells) /\ n + 1 \in 1 .. Len(sells) /\ n + 1 \in 0 .. Len(sells)
      /\ (n + 1) - 1 = n /\ Len(buys) \in 0 .. Len(buys)
  OBVIOUS
<1>2. old \in Nat /\ new \in Nat /\ all \in Nat /\ new = old + s.qty /\ s.qty \in Nat \ {0} /\ s \in Ts
  <2>1. new = SharesUntil(sells, (n + 1) - 1) + s.qty
    BY <1>1, UntilGrows
  <2>2. s \in Ts /\ s.qty \in Nat \ {0}
    BY <1>1 DEF Tradable
  <2>3. old \in Nat /\ new \in Nat /\ all \in Nat
    BY <1>1, UntilGrows
  <2> QED BY <1>1, <2>1, <2>2, <2>3
<1>3. /\ Placed(buys, d.cursor, start) /\ start \in Nat /\ d.pnl \in Seq(SUBSET Seq(Int)) /\ Len(d.pnl) = n
      /\ \A m \in 1 .. n : d.pnl[m] = MayBePaid(buys, sells, m)
  <2>1. d.pnl \in Seq(SUBSET Seq(Int))
    BY DEF DoneStates
  <2> QED BY <2>1 DEF InStep, Placed
<1>4. /\ l \in LoopStates /\ Taken(buys, l, start, s.qty)
      /\ l.want = 0 \/ l.cursor.at = Len(buys) + 1
  <2> HIDE DEF start, s
  <2> QED BY <1>2, <1>3, MatchedTakes
<1>5. /\ l.want \in 0 .. s.qty /\ Placed(buys, l.cursor, pos) /\ l.cost = CostOf(buys, start, pos)
      /\ l.cost \in Int
  BY <1>4 DEF Taken, LoopStates
<1>6. pos \in Nat /\ pos <= all
  <2> HIDE DEF pos
  <2> QED BY <1>5, PlacedWithin
<1>7. start = IF old < all THEN old ELSE all
  BY DEF Lesser
<1>8. Sold(buys, s, d) = [cursor |-> l.cursor, pnl |-> Append(d.pnl, p)]
  BY DEF Sold
<1>9. MayBePaid(buys, sells, n + 1) =
        IF new > all THEN {Unmatched} ELSE Truncated(s, CostOf(buys, old, new))
  BY <1>1 DEF MayBePaid
<1>10. Lesser(new, all) = IF new < all THEN new ELSE all
  BY DEF Lesser
<1> HIDE DEF s, all, old, new, start, l
<1>11. pos = Lesser(new, all) /\ p = MayBePaid(buys, sells, n + 1)
  <2>1. CASE l.want = 0
    <3>1. pos = start + s.qty
      BY <1>2, <1>3, <2>1
    <3>2. start = old /\ pos = new /\ new <= all
      BY <1>2, <1>3, <1>6, <1>7, <3>1
    <3>3. pos = Lesser(new, all)
      BY <1>2, <1>10, <3>2
    <3>4. p = Truncated(s, CostOf(buys, old, new))
      <4> HIDE DEF pos
      <4> QED BY <1>5, <2>1, <3>2 DEF PaidFor
    <3> HIDE DEF pos, p
    <3> QED BY <1>2, <1>9, <3>2, <3>3, <3>4
  <2>2. CASE l.want # 0
    <3>1. l.cursor.at = Len(buys) + 1 /\ l.want \in Nat /\ l.want > 0
      BY <1>2, <1>4, <1>5, <2>2
    <3>2. pos = all
      <4>1. ~(l.cursor.at <= Len(buys))
        BY <3>1
      <4> HIDE DEF pos
      <4> QED BY <1>5, <4>1 DEF Placed, all
    <3>3. new > all
      <4>1. start + (s.qty - l.want) = all
        BY <3>2
      <4>2. /\ start \in Nat /\ s.qty \in Nat /\ l.want \in Nat /\ l.want > 0
            /\ old \in Nat /\ all \in Nat /\ new = old + s.qty
        BY <1>2, <1>3, <3>1
      <4> HIDE DEF p, pos
      <4> QED BY SMTT(30), <1>7, <4>1, <4>2
    <3>4. p = {Unmatched}
      BY <3>1 DEF PaidFor
    <3> HIDE DEF pos, p
    <3> QED BY <1>2, <1>9, <1>10, <3>2, <3>3, <3>4
  <2> QED BY <2>1, <2>2
<1>12. p \in SUBSET Seq(Int)
  <2>1. Truncated(s, l.cost) \subseteq Seq(Int)
    BY <1>2, <1>5, ProfitTypes
  <2> QED BY <2>1 DEF PaidFor, Unmatched
<1> HIDE DEF p, pos
<1> DEFINE q == Append(d.pnl, p)
<1>13. Len(q) = n + 1 /\ q[n + 1] = p /\ \A m \in 1 .. n : q[m] = d.pnl[m]
  BY <1>3, <1>12
<1> HIDE DEF q
<1>14. \A m \in 1 .. n + 1 : q[m] = MayBePaid(buys, sells, m)
  <2>1. \A m \in 1 .. n + 1 : m = n + 1 \/ m \in 1 .. n
    OBVIOUS
  <2> QED BY <1>3, <1>11, <1>13, <2>1
<1>15. Placed(buys, l.cursor, Lesser(new, all))
  BY <1>5, <1>11
<1> QED BY <1>8, <1>13, <1>14, <1>15 DEF InStep, s, all, new, q

LEMMA ProfitsArePaid ==
  ASSUME NEW Ts, Tradable(Ts), NEW d, Of(d, "buy") \in Seq(Ts), Of(d, "sell") \in Seq(Ts)
  PROVE  Profits(d) = [n \in 1 .. Len(Of(d, "sell")) |->
                         MayBePaid(Of(d, "buy"), Of(d, "sell"), n)]
<1> DEFINE buys == Of(d, "buy")
    sells == Of(d, "sell")
    len == Len(sells)
<1>0. buys \in Seq(Ts) /\ sells \in Seq(Ts) /\ len \in Nat
  OBVIOUS
<1>1. PICK g : DoneOf(g, buys, sells) /\ Profits(d) = g[len].pnl
  BY ProfitsLoop
<1> HIDE DEF buys, sells
<1> DEFINE K == {n \in Nat : n <= len => InStep(g[n], buys, sells, n)}
<1>3. 0 \in K
  <2>1. g[0].cursor = FirstCursor(buys) /\ g[0].pnl = <<>>
    BY <1>1 DEF DoneOf
  <2>2. Placed(buys, g[0].cursor, SharesUntil(buys, 1 - 1))
    <3>1. 1 \in 1 .. Len(buys) + 1
      BY <1>0
    <3> QED BY <1>0, <2>1, <3>1, PlacedFirst DEF FirstCursor
  <2>3. 1 - 1 = 0 /\ SharesUntil(buys, 0) = 0 /\ SharesUntil(sells, 0) = 0
        /\ SharesUntil(buys, Len(buys)) \in Nat
    <3>1. Len(buys) \in 0 .. Len(buys)
      BY <1>0
    <3>2. SharesUntil(buys, 0) = 0 /\ SharesUntil(buys, Len(buys)) \in Nat
      BY <1>0, <3>1, UntilGrows
    <3>3. SharesUntil(sells, 0) = 0
      BY <1>0, UntilGrows
    <3> QED BY <3>2, <3>3
  <2>4. Lesser(SharesUntil(sells, 0), SharesUntil(buys, Len(buys))) = 0
    BY <2>3 DEF Lesser
  <2>5. Placed(buys, g[0].cursor, 0)
    BY <2>2, <2>3
  <2>6. Len(g[0].pnl) = 0 /\ 1 .. 0 = {}
    BY <2>1
  <2> QED BY <2>4, <2>5, <2>6 DEF InStep
<1>4. ASSUME NEW n \in Nat, n \in K PROVE n + 1 \in K
  <2> SUFFICES ASSUME n + 1 <= len PROVE InStep(g[n + 1], buys, sells, n + 1)
    OBVIOUS
  <2>1. n + 1 \in 1 .. len /\ (n + 1) - 1 = n /\ n \in 0 .. len
    BY <1>0
  <2>2. g[n + 1] = Sold(buys, sells[n + 1], g[n]) /\ g[n] \in DoneStates
    BY <1>1, <2>1 DEF DoneOf
  <2>3. InStep(g[n], buys, sells, n)
    BY <1>4, <2>1
  <2> QED BY <1>0, <2>2, <2>3, StaysInStep
<1>5. InStep(g[len], buys, sells, len)
  <2>1. \A n \in Nat : n \in K
    <3> HIDE DEF K
    <3> QED BY <1>3, <1>4, NatByInduction
  <2> QED BY <1>0, <2>1
<1>6. g[len].pnl \in Seq(SUBSET Seq(Int))
  <2>1. len \in 0 .. len /\ g \in [0 .. len -> DoneStates]
    BY <1>0, <1>1 DEF DoneOf
  <2> HIDE DEF len
  <2>2. g[len] \in DoneStates
    BY <2>1
  <2> QED BY <2>2 DEF DoneStates
<1> DEFINE q == g[len].pnl
<1>7. q \in Seq(SUBSET Seq(Int)) /\ Len(q) = len
      /\ \A m \in 1 .. len : q[m] = MayBePaid(buys, sells, m)
  BY <1>5, <1>6 DEF InStep
<1> HIDE DEF q
<1>8. q = [m \in 1 .. len |-> q[m]]
  BY <1>7
<1>9. q = [m \in 1 .. len |-> MayBePaid(buys, sells, m)]
  BY <1>7, <1>8
<1> QED BY <1>1, <1>9 DEF q, buys, sells

\* to the won, or one won nearer to zero: what Truncated allows, share by share
LEMMA PaidStands ==
  ASSUME NEW buys, NEW sells, NEW n, NEW p \in MayBePaid(buys, sells, n),
         SharesUntil(sells, n) \in Nat, SharesUntil(buys, Len(buys)) \in Nat
  PROVE  IF Covered(buys, sells, n)
         THEN Stands(p, ProfitOf(sells[n], CostByShare(buys, sells, n)),
                     Binary(CostByShare(buys, sells, n), sells[n].qty))
         ELSE p = Unmatched
<1> DEFINE cost == CostOf(buys, SharesUntil(sells, n - 1), SharesUntil(sells, n))
<1>1. CostByShare(buys, sells, n) = cost
  BY DEF CostByShare, CostOf, PriceAt
<1>2. Covered(buys, sells, n) <=> ~(SharesUntil(sells, n) > SharesUntil(buys, Len(buys)))
  BY DEF Covered
<1>3. p \in IF Covered(buys, sells, n) THEN Truncated(sells[n], cost) ELSE {Unmatched}
  BY <1>2 DEF MayBePaid
<1> HIDE DEF cost
<1>4. CASE Covered(buys, sells, n)
  <2>1. p \in Truncated(sells[n], cost)
    BY <1>3, <1>4
  <2>2. Stands(p, ProfitOf(sells[n], cost), Binary(cost, sells[n].qty))
    BY <2>1 DEF Truncated, Stands
  <2> QED BY <1>1, <1>4, <2>2
<1>5. CASE ~Covered(buys, sells, n)
  BY <1>3, <1>5
<1> QED BY <1>4, <1>5

LEMMA FifoMeans == \A d \in Days : PaidByShare(d)
<1> SUFFICES ASSUME NEW d \in Days PROVE PaidByShare(d)
  OBVIOUS
<1> DEFINE Ts == {t \in ToSet(d) : t.qty > 0 /\ t.price > 0}
<1>1. d \in Seq(ToSet(d)) /\ \A i \in DOMAIN d : d[i].qty \in Nat /\ d[i].price \in Nat
  BY DaysAssumption
<1>2. ToSet(d) = {d[i] : i \in DOMAIN d}
  BY DEF ToSet
<1>3. Tradable(Ts)
  <2>1. \A t \in ToSet(d) : t.qty \in Nat /\ t.price \in Nat
    BY <1>1, <1>2
  <2> QED BY <2>1 DEF Tradable
<1>4. Of(d, "buy") \in Seq(Ts) /\ Of(d, "sell") \in Seq(Ts)
  BY <1>1, OfTypes
<1> HIDE DEF Ts
<1> DEFINE buys == Of(d, "buy")
    sells == Of(d, "sell")
<1>5. Profits(d) = [n \in 1 .. Len(sells) |-> MayBePaid(buys, sells, n)] /\ Len(sells) \in Nat
  BY <1>3, <1>4, ProfitsArePaid
<1>6. /\ \A n \in 1 .. Len(sells) : SharesUntil(sells, n) \in Nat
      /\ SharesUntil(buys, Len(buys)) \in Nat
  <2>1. Len(buys) \in 0 .. Len(buys) /\ \A n \in 1 .. Len(sells) : n \in 0 .. Len(sells)
    BY <1>4
  <2> QED BY <1>3, <1>4, <2>1, UntilGrows
<1> HIDE DEF buys, sells
<1>7. Len(Profits(d)) = Len(sells)
  BY <1>5
<1>8. ASSUME NEW n \in 1 .. Len(sells), NEW p \in Profits(d)[n]
      PROVE  IF Covered(buys, sells, n)
             THEN Stands(p, ProfitOf(sells[n], CostByShare(buys, sells, n)),
                         Binary(CostByShare(buys, sells, n), sells[n].qty))
             ELSE p = Unmatched
  <2>1. p \in MayBePaid(buys, sells, n)
    BY <1>5, <1>8
  <2> QED BY <1>6, <2>1, PaidStands
<1> QED BY <1>7, <1>8 DEF PaidByShare, buys, sells

-----------------------------------------------------------------------------
(***************************************************************************)
(* Screening: index sets in the order of a score.                          *)
(***************************************************************************)
Before(score, j, i) == score[j] > score[i] \/ (score[j] = score[i] /\ j < i)
Sorted(f, score) == \A k, l \in DOMAIN f : k < l => Before(score, f[k], f[l])

\* the elements of a set of numbers up to o
UpToIn(K, o) == {p \in K : p <= o}

LEMMA Images ==
  ASSUME NEW S, IsFiniteSet(S), NEW f, NEW T, T = {f[x] : x \in S}
  PROVE  IsFiniteSet(T) /\ Cardinality(T) <= Cardinality(S)
<1> DEFINE g == [x \in S |-> f[x]]
<1>1. g \in Surjection(S, T)
  BY DEF Surjection
<1> HIDE DEF g
<1> QED BY <1>1, FS_Surjection

LEMMA LargestInt ==
  ASSUME NEW S, IsFiniteSet(S), S # {}, S \subseteq Int
  PROVE  \E x \in S : \A y \in S : x >= y
<1> DEFINE Q == {s \in SUBSET S : s # {} => \E x \in s : \A y \in s : x >= y}
<1>1. ASSUME NEW s \in SUBSET S, \A x \in s : s \ {x} \in Q PROVE s \in Q
  <2> SUFFICES ASSUME s # {} PROVE \E x \in s : \A y \in s : x >= y
    OBVIOUS
  <2>1. PICK z \in s : TRUE
    OBVIOUS
  <2>2. CASE s \ {z} = {}
    BY <2>1, <2>2
  <2>3. CASE s \ {z} # {}
    <3>1. PICK x \in s \ {z} : \A y \in s \ {z} : x >= y
      BY <1>1, <2>1, <2>3
    <3>2. x \in Int /\ z \in Int /\ s \subseteq Int
      BY <2>1
    <3>3. CASE x >= z
      BY <3>1, <3>2, <3>3
    <3>4. CASE ~(x >= z)
      BY <2>1, <3>1, <3>2, <3>4
    <3> QED BY <3>3, <3>4
  <2> QED BY <2>2, <2>3
<1>2. \A s \in SUBSET S : s \in Q
  <2> HIDE DEF Q
  <2> QED BY <1>1, SubsetInduction
<1> QED BY <1>2

LEMMA BeforeOrders ==
  ASSUME NEW S \in SUBSET Nat, NEW score, \A i \in S : score[i] \in Int
  PROVE  /\ \A i, j \in S : i # j => Before(score, i, j) \/ Before(score, j, i)
         /\ \A i, j \in S : Before(score, i, j) => ~Before(score, j, i) /\ i # j
         /\ \A i, j, k \in S : Before(score, i, j) /\ Before(score, j, k) => Before(score, i, k)
BY DEF Before

LEMMA LastInOrder ==
  ASSUME NEW S \in SUBSET Nat, IsFiniteSet(S), NEW score, \A i \in S : score[i] \in Int
  PROVE  \A s \in SUBSET S : s # {} => \E x \in s : \A y \in s \ {x} : Before(score, y, x)
<1> DEFINE Q == {s \in SUBSET S : s # {} => \E x \in s : \A y \in s \ {x} : Before(score, y, x)}
<1>1. ASSUME NEW s \in SUBSET S, \A x \in s : s \ {x} \in Q PROVE s \in Q
  <2> SUFFICES ASSUME s # {} PROVE \E x \in s : \A y \in s \ {x} : Before(score, y, x)
    OBVIOUS
  <2>1. PICK z \in s : TRUE
    OBVIOUS
  <2>2. CASE s \ {z} = {}
    BY <2>1, <2>2
  <2>3. CASE s \ {z} # {}
    <3>1. PICK x \in s \ {z} : \A y \in (s \ {z}) \ {x} : Before(score, y, x)
      BY <1>1, <2>1, <2>3
    <3>2. x \in S /\ z \in S /\ x # z
      BY <2>1
    <3>3. CASE Before(score, z, x)
      BY <3>1, <3>3
    <3>4. CASE ~Before(score, z, x)
      <4>1. Before(score, x, z)
        BY <3>2, <3>4, BeforeOrders
      <4>2. \A y \in s \ {z} : Before(score, y, z)
        BY <3>1, <3>2, <4>1, BeforeOrders
      <4> QED BY <2>1, <4>2
    <3> QED BY <3>3, <3>4
  <2> QED BY <2>2, <2>3
<1>2. \A s \in SUBSET S : s \in Q
  <2> HIDE DEF Q
  <2> QED BY <1>1, SubsetInduction
<1> QED BY <1>2

\* f lists s, sorted
Lists(f, s, score) ==
  /\ f \in [1 .. Cardinality(s) -> s]
  /\ \A k, l \in 1 .. Cardinality(s) : k < l => Before(score, f[k], f[l])

LEMMA ListsExist ==
  ASSUME NEW S \in SUBSET Nat, IsFiniteSet(S), NEW score, \A i \in S : score[i] \in Int
  PROVE  \E f : Lists(f, S, score)
<1> DEFINE Q == {s \in SUBSET S : \E f : Lists(f, s, score)}
<1>1. ASSUME NEW s \in SUBSET S, \A x \in s : s \ {x} \in Q PROVE s \in Q
  <2>0. IsFiniteSet(s)
    BY FS_Subset
  <2>1. CASE s = {}
    <3>1. Cardinality(s) = 0 /\ 1 .. 0 = {}
      BY <2>1, FS_EmptySet
    <3>2. [k \in {} |-> 0] \in [1 .. Cardinality(s) -> s]
      BY <2>1, <3>1
    <3>3. Lists([k \in {} |-> 0], s, score)
      BY <3>1, <3>2 DEF Lists
    <3> QED BY <3>3
  <2>2. CASE s # {}
    <3>1. PICK x \in s : \A y \in s \ {x} : Before(score, y, x)
      BY <2>2, LastInOrder
    <3> DEFINE r == s \ {x}
        n == Cardinality(r)
    <3>2. PICK f : Lists(f, r, score)
      BY <1>1, <3>1
    <3>3. Cardinality(s) = n + 1 /\ n \in Nat
      BY <3>1, Smaller
    <3> DEFINE g == [k \in 1 .. n + 1 |-> IF k <= n THEN f[k] ELSE x]
    <3>4. f \in [1 .. n -> r] /\ \A k, l \in 1 .. n : k < l => Before(score, f[k], f[l])
      BY <3>2 DEF Lists
    <3>5. ASSUME NEW k \in 1 .. n + 1, k <= n PROVE k \in 1 .. n /\ g[k] = f[k] /\ f[k] \in r
      <4>1. k \in 1 .. n
        BY <3>3, <3>5
      <4>2. f[k] \in r
        <5> HIDE DEF n, r
        <5> QED BY <3>4, <4>1
      <4> QED BY <3>5, <4>1, <4>2
    <3>6. \A k \in 1 .. n + 1 : ~(k <= n) => k = n + 1 /\ g[k] = x
      BY <3>3
    <3>7. g \in [1 .. n + 1 -> s]
      BY <3>1, <3>5, <3>6
    <3>8. ASSUME NEW k \in 1 .. n + 1, NEW l \in 1 .. n + 1, k < l
          PROVE  Before(score, g[k], g[l])
      <4> HIDE DEF n, g
      <4>1. k \in 1 .. n
        BY <3>3, <3>8
      <4>2. CASE l <= n
        <5>1. l \in 1 .. n /\ g[l] = f[l]
          BY <3>5, <4>2
        <5>2. g[k] = f[k]
          BY <3>3, <3>5, <4>1
        <5> QED BY <3>4, <3>8, <4>1, <5>1, <5>2
      <4>3. CASE ~(l <= n)
        <5>1. g[l] = x
          BY <3>6, <4>3
        <5>2. g[k] = f[k] /\ f[k] \in r
          BY <3>3, <3>5, <4>1
        <5> QED BY <3>1, <5>1, <5>2
      <4> QED BY <4>2, <4>3
    <3> HIDE DEF n, g
    <3>9. Lists(g, s, score)
      BY <3>3, <3>7, <3>8 DEF Lists
    <3> QED BY <3>9
  <2> QED BY <2>1, <2>2
<1>2. \A s \in SUBSET S : s \in Q
  <2> HIDE DEF Q
  <2> QED BY <1>1, SubsetInduction
<1> QED BY <1>2

\* a sorted list is one to one, and onto
LEMMA ListsAll ==
  ASSUME NEW S \in SUBSET Nat, IsFiniteSet(S), NEW score, \A i \in S : score[i] \in Int,
         NEW f, Lists(f, S, score)
  PROVE  /\ Cardinality(S) \in Nat
         /\ \A k, l \in 1 .. Cardinality(S) : k # l => f[k] # f[l]
         /\ \A i \in S : \E k \in 1 .. Cardinality(S) : f[k] = i
         /\ \A k, l \in 1 .. Cardinality(S) : Before(score, f[k], f[l]) <=> k < l
<1> DEFINE n == Cardinality(S)
<1>1. n \in Nat
  BY FS_CardinalityType
<1> HIDE DEF n
<1>2. f \in [1 .. n -> S] /\ \A k, l \in 1 .. n : k < l => Before(score, f[k], f[l])
  BY DEF Lists, n
<1>3. ASSUME NEW k \in 1 .. n, NEW l \in 1 .. n, k # l PROVE f[k] # f[l]
  <2>1. k < l \/ l < k
    BY <1>3
  <2>2. f[k] \in S /\ f[l] \in S
    BY <1>2
  <2>3. Before(score, f[k], f[l]) \/ Before(score, f[l], f[k])
    BY <1>2, <2>1
  <2> QED BY <2>2, <2>3, BeforeOrders
<1>4. f \in Injection(1 .. n, S)
  BY <1>2, <1>3 DEF Injection, IsInjective
<1>5. f \in Surjection(1 .. n, S)
  <2>1. Cardinality(1 .. n) = n
    BY <1>1, FS_Interval
  <2> QED BY <1>4, <2>1, FS_Injection DEF n
<1>6. \A i \in S : \E k \in 1 .. n : f[k] = i
  BY <1>5 DEF Surjection
<1>7. ASSUME NEW k \in 1 .. n, NEW l \in 1 .. n PROVE Before(score, f[k], f[l]) <=> k < l
  <2>1. f[k] \in S /\ f[l] \in S
    BY <1>2
  <2>2. k < l \/ l < k \/ k = l
    OBVIOUS
  <2> QED BY <1>2, <2>1, <2>2, BeforeOrders
<1> QED BY <1>1, <1>3, <1>6, <1>7 DEF n

-----------------------------------------------------------------------------
(***************************************************************************)
(* The best of those that are not held, by index and by rank.              *)
(***************************************************************************)
LEMMA ScanNames ==
  /\ \A S : Scanner!Cardinality(S) = Cardinality(S)
  /\ \A hs : Scanner!Slots(hs) = IF Cardinality(hs) < MaxStocks THEN MaxStocks - Cardinality(hs)
                                 ELSE 0
<1>1. \A S : Scanner!Cardinality(S) = Cardinality(S)
  BY DEF Scanner!Cardinality, Cardinality
<1> QED BY <1>1 DEF Scanner!Slots

OthersOf(S, symbol, hs) == {i \in S : symbol[i] \notin hs}
BeatenBy(S, symbol, score, hs, i) == {j \in OthersOf(S, symbol, hs) : Before(score, j, i)}
BestOf(S, symbol, score, hs) ==
  {symbol[i] : i \in {o \in OthersOf(S, symbol, hs) :
                        Cardinality(BeatenBy(S, symbol, score, hs, o)) < Scanner!Slots(hs)}}

\* the ranks, up to m, of those not held
Ranks(f, m, symbol, hs) == {k \in 1 .. m : symbol[f[k]] \notin hs}

LEMMA BeatenCount ==
  ASSUME NEW S \in SUBSET Nat, IsFiniteSet(S), NEW score, \A i \in S : score[i] \in Int,
         NEW f, Lists(f, S, score), NEW symbol, NEW hs,
         NEW k \in Ranks(f, Cardinality(S), symbol, hs)
  PROVE  /\ Cardinality(BeatenBy(S, symbol, score, hs, f[k])) \in Nat
         /\ Cardinality(UpToIn(Ranks(f, Cardinality(S), symbol, hs), k))
              = Cardinality(BeatenBy(S, symbol, score, hs, f[k])) + 1
<1> DEFINE n == Cardinality(S)
    K == Ranks(f, n, symbol, hs)
    B == BeatenBy(S, symbol, score, hs, f[k])
    P == UpToIn(K, k) \ {k}
    g == [p \in P |-> f[p]]
<1>1. /\ n \in Nat
      /\ \A p, l \in 1 .. n : p # l => f[p] # f[l]
      /\ \A i \in S : \E p \in 1 .. n : f[p] = i
      /\ \A p, l \in 1 .. n : Before(score, f[p], f[l]) <=> p < l
  BY ListsAll
<1>2. f \in [1 .. n -> S]
  BY DEF Lists
<1> HIDE DEF n
<1>3. k \in 1 .. n /\ K = {p \in 1 .. n : symbol[f[p]] \notin hs} /\ k \in K
  BY DEF Ranks, n
<1>4. P = {p \in 1 .. n : symbol[f[p]] \notin hs /\ p < k}
  BY <1>3 DEF UpToIn
<1>5. B = {j \in S : symbol[j] \notin hs /\ Before(score, j, f[k])}
  BY DEF BeatenBy, OthersOf
<1>6. IsFiniteSet(UpToIn(K, k)) /\ k \in UpToIn(K, k) /\ IsFiniteSet(B)
  <2>1. IsFiniteSet(1 .. n) /\ UpToIn(K, k) \in SUBSET (1 .. n)
    BY <1>1, <1>3, FS_Interval DEF UpToIn
  <2>2. B \in SUBSET S
    BY <1>5
  <2>3. k \in UpToIn(K, k)
    BY <1>3 DEF UpToIn
  <2> HIDE DEF K, B
  <2> QED BY <2>1, <2>2, <2>3, FS_Subset
<1> HIDE DEF P, B, K
<1>7. \A p \in P : p \in 1 .. n /\ f[p] \in B
  BY <1>1, <1>2, <1>3, <1>4, <1>5
<1>8. g \in Injection(P, B)
  <2>1. g \in [P -> B]
    BY <1>7
  <2>2. \A p, l \in P : g[p] = g[l] => p = l
    BY <1>1, <1>7
  <2> QED BY <2>1, <2>2 DEF Injection, IsInjective
<1>9. g \in Surjection(P, B)
  <2>1. ASSUME NEW j \in B PROVE \E p \in P : g[p] = j
    <3>1. j \in S /\ symbol[j] \notin hs /\ Before(score, j, f[k])
      BY <1>5
    <3>2. PICK p \in 1 .. n : f[p] = j
      BY <1>1, <3>1
    <3>3. p < k
      BY <1>1, <1>3, <3>1, <3>2
    <3>4. p \in P
      BY <1>4, <3>1, <3>2, <3>3
    <3> QED BY <3>2, <3>4
  <2>2. g \in [P -> B]
    BY <1>7
  <2> HIDE DEF g
  <2> QED BY <2>1, <2>2 DEF Surjection
<1> HIDE DEF g
<1>10. IsFiniteSet(P) /\ Cardinality(UpToIn(K, k)) = Cardinality(P) + 1 /\ Cardinality(P) \in Nat
  <2>1. UpToIn(K, k) \ {k} = P
    BY DEF P
  <2>2. Cardinality(UpToIn(K, k)) = Cardinality(UpToIn(K, k) \ {k}) + 1
        /\ Cardinality(UpToIn(K, k) \ {k}) \in Nat
    BY <1>6, Smaller
  <2> QED BY <1>6, <2>1, <2>2, FS_Subset
<1>11. Cardinality(P) = Cardinality(B)
  <2>1. ExistsBijection(P, B)
    BY <1>8, <1>9 DEF ExistsBijection, Bijection
  <2> QED BY <1>10, <2>1, FS_Bijection
<1> QED BY <1>10, <1>11 DEF B, K, n

\* so many are not held among those ranked above max_stocks that a slot is left to none below
LEMMA CutLosesNothing ==
  ASSUME NEW S \in SUBSET Nat, IsFiniteSet(S), NEW score, \A i \in S : score[i] \in Int,
         NEW f, Lists(f, S, score), NEW symbol, \A i, j \in S : symbol[i] = symbol[j] => i = j,
         NEW hs, IsFiniteSet(hs), MaxStocks \in Nat,
         NEW k \in Ranks(f, Cardinality(S), symbol, hs), k > MaxStocks
  PROVE  Cardinality(UpToIn(Ranks(f, Cardinality(S), symbol, hs), k)) > Scanner!Slots(hs)
<1> DEFINE n == Cardinality(S)
    U == UpToIn(Ranks(f, n, symbol, hs), k)
    H == {p \in 1 .. k : symbol[f[p]] \in hs}
    g == [p \in H |-> symbol[f[p]]]
<1>1. n \in Nat /\ (\A p, l \in 1 .. n : p # l => f[p] # f[l])
  BY ListsAll
<1>2. f \in [1 .. n -> S]
  BY DEF Lists
<1> HIDE DEF n
<1>3. k \in 1 .. n /\ symbol[f[k]] \notin hs
  BY DEF Ranks, n
<1>4. U = {p \in 1 .. n : symbol[f[p]] \notin hs /\ p <= k}
  BY DEF UpToIn, Ranks
<1> HIDE DEF U
<1>5. U \cup H = 1 .. k /\ U \cap H = {} /\ k \in U
  BY <1>1, <1>3, <1>4
<1>6. g \in Injection(H, hs)
  <2>1. g \in [H -> hs]
    OBVIOUS
  <2>2. ASSUME NEW p \in H, NEW l \in H, g[p] = g[l] PROVE p = l
    <3>1. p \in 1 .. n /\ l \in 1 .. n
      BY <1>1, <1>3
    <3>2. f[p] \in S /\ f[l] \in S /\ symbol[f[p]] = symbol[f[l]]
      BY <1>2, <2>2, <3>1
    <3>3. f[p] = f[l]
      BY <3>2
    <3> QED BY <1>1, <3>1, <3>3
  <2> HIDE DEF H
  <2> QED BY <2>1, <2>2 DEF Injection, IsInjective
<1> HIDE DEF g
<1>7. IsFiniteSet(1 .. k) /\ Cardinality(1 .. k) = k
  BY <1>3, FS_Interval
<1>8. /\ IsFiniteSet(H) /\ IsFiniteSet(U) /\ Cardinality(U) \in Nat /\ Cardinality(H) \in Nat
      /\ Cardinality(H) <= Cardinality(hs) /\ Cardinality(hs) \in Nat
  <2>1. H \in SUBSET (1 .. k) /\ U \in SUBSET (1 .. k)
    BY <1>5
  <2> HIDE DEF H
  <2>2. IsFiniteSet(H) /\ IsFiniteSet(U)
    BY <1>7, <2>1, FS_Subset
  <2> QED BY <1>6, <2>2, FS_Injection, FS_CardinalityType
<1> HIDE DEF H
<1>9. k = Cardinality(U) + Cardinality(H)
  <2>1. Cardinality(U \cup H) = Cardinality(U) + Cardinality(H) - Cardinality(U \cap H)
    BY <1>8, FS_Union
  <2>2. Cardinality({}) = 0
    BY FS_EmptySet
  <2>3. Cardinality(U \cup H) = k /\ Cardinality(U \cap H) = 0
    BY <1>5, <1>7, <2>2
  <2> HIDE DEF n
  <2> QED BY <1>8, <2>1, <2>3
<1>10. Cardinality(U) >= 1
  <2>1. Cardinality(U) = Cardinality(U \ {k}) + 1 /\ Cardinality(U \ {k}) \in Nat
    BY <1>5, <1>8, Smaller
  <2> QED BY <2>1
<1>11. k \in Nat
  BY <1>3
<1>12. Scanner!Slots(hs) = IF Cardinality(hs) < MaxStocks THEN MaxStocks - Cardinality(hs) ELSE 0
  BY ScanNames
<1>13. Cardinality(U) > Scanner!Slots(hs)
  BY <1>8, <1>9, <1>10, <1>11, <1>12
<1> QED BY <1>13 DEF U, n

\* m of the ranks are listed: all, or max_stocks of symbols that are distinct
LEMMA NewAreBest ==
  ASSUME NEW S \in SUBSET Nat, IsFiniteSet(S), NEW score, \A i \in S : score[i] \in Int,
         NEW f, Lists(f, S, score), NEW symbol, NEW hs, IsFiniteSet(hs), MaxStocks \in Nat,
         NEW m \in 0 .. Cardinality(S), NEW ranked, DOMAIN ranked = 1 .. m,
         \A k \in 1 .. m : ranked[k] = symbol[f[k]],
         \/ m = Cardinality(S)
         \/ m = MaxStocks /\ \A i, j \in S : symbol[i] = symbol[j] => i = j
  PROVE  Scanner!NewSymbols(ranked, hs) = BestOf(S, symbol, score, hs)
<1> DEFINE n == Cardinality(S)
    K == Ranks(f, n, symbol, hs)
    M == Ranks(f, m, symbol, hs)
    slots == Scanner!Slots(hs)
    Few(k) == Cardinality(UpToIn(K, k)) <= slots
<1>1. n \in Nat /\ \A i \in S : \E k \in 1 .. n : f[k] = i
  BY ListsAll
<1>2. f \in [1 .. n -> S]
  BY DEF Lists
<1>3. slots \in Nat
  <2>1. Cardinality(hs) \in Nat
    BY FS_CardinalityType
  <2> QED BY <2>1, ScanNames
<1>4. M = {k \in K : k <= m} /\ M = {k \in DOMAIN ranked : ranked[k] \notin hs}
  <2>1. \A k \in 1 .. m : k \in 1 .. n
    BY <1>1
  <2> HIDE DEF n
  <2> QED BY <1>1, <2>1 DEF Ranks
<1>5. \A k \in M : UpToIn(M, k) = UpToIn(K, k)
  <2>1. K \subseteq Nat
    BY DEF Ranks
  <2>2. m \in Int
    BY <1>1
  <2> HIDE DEF K, M, n
  <2> SUFFICES ASSUME NEW k \in M PROVE UpToIn(M, k) = UpToIn(K, k)
    OBVIOUS
  <2>3. k \in Nat /\ k <= m /\ k \in K
    BY <1>4, <2>1
  <2>4. \A p \in K : p <= k => p \in M
    BY <1>4, <2>1, <2>2, <2>3
  <2>5. M \subseteq K
    BY <1>4
  <2> QED BY <2>4, <2>5 DEF UpToIn
<1>6. Scanner!NewSymbols(ranked, hs) = {ranked[k] : k \in {o \in M : Few(o)}}
  <2>1. Scanner!NewSymbols(ranked, hs)
          = {ranked[k] : k \in {o \in M : Cardinality(UpToIn(M, o)) <= slots}}
    <3> DEFINE others == {k \in DOMAIN ranked : ranked[k] \notin hs}
        Place(o) == Scanner!Cardinality({p \in others : p <= o})
    <3>1. Scanner!NewSymbols(ranked, hs) = {ranked[k] : k \in {o \in others : Place(o) <= slots}}
      BY DEF Scanner!NewSymbols
    <3>2. \A o : Place(o) = Cardinality(UpToIn(others, o))
      BY ScanNames DEF UpToIn
    <3>3. others = M
      BY <1>4
    <3> HIDE DEF M, slots, others, Place
    <3> QED BY <3>1, <3>2, <3>3
  <2> HIDE DEF M, K, slots
  <2> QED BY <1>5, <2>1
<1>7. \A k \in K : /\ Cardinality(BeatenBy(S, symbol, score, hs, f[k])) < slots <=> Few(k)
                   /\ Few(k) => k <= m
  <2> SUFFICES ASSUME NEW k \in K
               PROVE  /\ Cardinality(BeatenBy(S, symbol, score, hs, f[k])) < slots <=> Few(k)
                      /\ Few(k) => k <= m
    OBVIOUS
  <2>1. /\ Cardinality(BeatenBy(S, symbol, score, hs, f[k])) \in Nat
        /\ Cardinality(UpToIn(K, k)) = Cardinality(BeatenBy(S, symbol, score, hs, f[k])) + 1
    <3> HIDE DEF M, slots, Few
    <3>1. k \in Ranks(f, Cardinality(S), symbol, hs)
      OBVIOUS
    <3> QED BY <3>1, BeatenCount
  <2>2. k \in 1 .. n
    BY DEF Ranks
  <2>3. ASSUME m = MaxStocks, \A i, j \in S : symbol[i] = symbol[j] => i = j, k > m PROVE ~Few(k)
    <3>1. Cardinality(UpToIn(K, k)) > slots
      BY <2>3, CutLosesNothing
    <3> HIDE DEF K, slots
    <3> QED BY <1>3, <2>1, <3>1
  <2>4. Cardinality(BeatenBy(S, symbol, score, hs, f[k])) < slots <=> Few(k)
    <3> HIDE DEF K, slots
    <3> QED BY <1>3, <2>1
  <2>5. k > m \/ k <= m
    BY <1>1, <2>2
  <2>6. m = n => k <= m
    BY <2>2
  <2> HIDE DEF Few, K, slots
  <2> QED BY <2>3, <2>4, <2>5, <2>6
<1> HIDE DEF Few, slots, K, M
<1> DEFINE O == {o \in OthersOf(S, symbol, hs) :
                   Cardinality(BeatenBy(S, symbol, score, hs, o)) < slots}
    R == {o \in M : Few(o)}
<1>8. \A k \in R : f[k] \in O /\ ranked[k] = symbol[f[k]]
  <2> SUFFICES ASSUME NEW k \in R PROVE f[k] \in O /\ ranked[k] = symbol[f[k]]
    OBVIOUS
  <2>1. k \in K /\ k \in 1 .. n /\ k \in 1 .. m /\ symbol[f[k]] \notin hs
    BY <1>4 DEF K, M, Ranks
  <2>2. f[k] \in S
    BY <1>2, <2>1
  <2> QED BY <1>7, <2>1, <2>2 DEF OthersOf
<1>9. \A i \in O : \E k \in R : f[k] = i
  <2> SUFFICES ASSUME NEW i \in O PROVE \E k \in R : f[k] = i
    OBVIOUS
  <2>1. i \in S /\ symbol[i] \notin hs /\ Cardinality(BeatenBy(S, symbol, score, hs, i)) < slots
    BY DEF OthersOf
  <2>2. PICK k \in 1 .. n : f[k] = i
    BY <1>1, <2>1
  <2>3. k \in K
    BY <2>1, <2>2 DEF K, Ranks
  <2>4. Few(k) /\ k <= m
    BY <1>7, <2>1, <2>2, <2>3
  <2> QED BY <1>4, <2>2, <2>3, <2>4
<1>10. BestOf(S, symbol, score, hs) = {symbol[i] : i \in O}
  BY DEF BestOf, slots
<1> HIDE DEF O, R
<1> DEFINE A == {ranked[k] : k \in R}
    C == {symbol[i] : i \in O}
<1>11. A \subseteq C
  BY <1>8
<1>12. C \subseteq A
  BY <1>8, <1>9
<1> HIDE DEF A, C
<1> QED BY <1>6, <1>10, <1>11, <1>12 DEF A, C, R

-----------------------------------------------------------------------------
(***************************************************************************)
(* The scans.                                                              *)
(***************************************************************************)
Bigger(a, b) == IF a < b THEN b ELSE a

LEMMA MaxOfInts ==
  ASSUME NEW S, IsFiniteSet(S), S # {}, S \subseteq Int
  PROVE  Scanner!Max(S) \in S /\ \A y \in S : Scanner!Max(S) >= y
<1>1. \E x \in S : \A y \in S : x >= y
  BY LargestInt
<1> QED BY <1>1 DEF Scanner!Max

LEMMA ScaleTypes ==
  ASSUME NEW S, IsFiniteSet(S), S \subseteq Int
  PROVE  Scanner!Scale(S) \in Int
<1>1. IsFiniteSet({1} \cup S) /\ {1} \cup S # {} /\ {1} \cup S \subseteq Int
  <2>1. IsFiniteSet({1})
    BY FS_Singleton
  <2>2. IsFiniteSet({1} \cup S)
    BY <2>1, FS_Union
  <2> QED BY <2>2
<1>2. Scanner!Max({1} \cup S) \in {1} \cup S
  BY <1>1, MaxOfInts
<1> QED BY <1>1, <1>2 DEF Scanner!Scale

StockOk(s) == s.volume \in Int /\ s.change \in Int /\ s.turnover \in Int

LEMMA ScoreTypes ==
  ASSUME NEW ss, IsFiniteSet(ss), \A t \in ss : StockOk(t), NEW s, StockOk(s)
  PROVE  Scanner!Score(s, ss) \in Int
<1> DEFINE volumes == {t.volume : t \in ss}
    changes == {Scanner!Absolute(t.change) : t \in ss}
    turnovers == {t.turnover : t \in ss}
    volume == Scanner!Scale(volumes)
    change == Scanner!Scale(changes)
    turnover == Scanner!Scale(turnovers)
    mine == Scanner!Absolute(s.change)
<1>0. \A x \in Int : Scanner!Absolute(x) \in Int
  BY DEF Scanner!Absolute
<1>1. IsFiniteSet(volumes) /\ volumes \subseteq Int
  <2> DEFINE f == [t \in ss |-> t.volume]
  <2>1. volumes = {f[t] : t \in ss}
    OBVIOUS
  <2>2. volumes \subseteq Int
    BY DEF StockOk
  <2> HIDE DEF f, volumes
  <2> QED BY <2>1, <2>2, Images
<1>2. IsFiniteSet(changes) /\ changes \subseteq Int
  <2> DEFINE f == [t \in ss |-> Scanner!Absolute(t.change)]
  <2>1. changes = {f[t] : t \in ss}
    OBVIOUS
  <2>2. changes \subseteq Int
    BY <1>0 DEF StockOk
  <2> HIDE DEF f, changes
  <2> QED BY <2>1, <2>2, Images
<1>3. IsFiniteSet(turnovers) /\ turnovers \subseteq Int
  <2> DEFINE f == [t \in ss |-> t.turnover]
  <2>1. turnovers = {f[t] : t \in ss}
    OBVIOUS
  <2>2. turnovers \subseteq Int
    BY DEF StockOk
  <2> HIDE DEF f, turnovers
  <2> QED BY <2>1, <2>2, Images
<1>4. volume \in Int /\ change \in Int /\ turnover \in Int
  <2> HIDE DEF volumes, changes, turnovers
  <2> QED BY <1>1, <1>2, <1>3, ScaleTypes
<1>5. s.volume \in Int /\ mine \in Int /\ s.turnover \in Int
  BY <1>0 DEF StockOk
<1>6. Scanner!Score(s, ss) = 4 * s.volume * change * turnover
                             + 3 * mine * volume * turnover
                             + 3 * s.turnover * volume * change
  BY DEF Scanner!Score
<1> HIDE DEF volume, change, turnover, mine
<1>7. \A a, b, c, k \in Int : k * a * b * c \in Int
  OBVIOUS
<1>8. /\ 4 * s.volume * change * turnover \in Int /\ 3 * mine * volume * turnover \in Int
      /\ 3 * s.turnover * volume * change \in Int
  BY <1>4, <1>5, <1>7
<1> QED BY <1>6, <1>8

LEMMA RankedLists ==
  ASSUME NEW S \in SUBSET Nat, IsFiniteSet(S), NEW score, \A i \in S : score[i] \in Int
  PROVE  Lists(Scanner!Ranked(S, score), S, score)
<1> DEFINE n == Cardinality(S)
    Fine(f) == \A k, l \in DOMAIN f : k < l =>
                 \/ score[f[k]] > score[f[l]]
                 \/ score[f[k]] = score[f[l]] /\ f[k] < f[l]
<1>1. Scanner!SetToSeqs(S) = {f \in [1 .. n -> S] : \A i, j \in 1 .. n : i # j => f[i] # f[j]}
  BY ScanNames DEF Scanner!SetToSeqs
<1>2. Scanner!Ranked(S, score) = CHOOSE f \in Scanner!SetToSeqs(S) : Fine(f)
  BY DEF Scanner!Ranked
<1>3. PICK f : Lists(f, S, score)
  BY ListsExist
<1>4. f \in Scanner!SetToSeqs(S) /\ Fine(f)
  <2>1. f \in [1 .. n -> S] /\ DOMAIN f = 1 .. n
    BY <1>3 DEF Lists
  <2>2. \A i, j \in 1 .. n : i # j => f[i] # f[j]
    BY <1>3, ListsAll
  <2>3. Fine(f)
    BY <1>3, <2>1 DEF Lists, Before
  <2> HIDE DEF n
  <2> QED BY <1>1, <2>1, <2>2, <2>3
<1> HIDE DEF Fine
<1>5. Scanner!Ranked(S, score) \in Scanner!SetToSeqs(S) /\ Fine(Scanner!Ranked(S, score))
  BY <1>2, <1>4
<1> DEFINE r == Scanner!Ranked(S, score)
<1>6. r \in [1 .. n -> S] /\ DOMAIN r = 1 .. n /\ Fine(r)
  BY <1>1, <1>5
<1> HIDE DEF r
<1>7. Lists(r, S, score)
  BY <1>6 DEF Lists, Before, Fine
<1> QED BY <1>7 DEF r

\* no more new symbols than there are slots
LEMMA FillBound ==
  ASSUME NEW n \in Nat, NEW ranked, DOMAIN ranked = 1 .. n, NEW hs, IsFiniteSet(hs),
         MaxStocks \in Nat
  PROVE  /\ Cardinality(Scanner!Fill(ranked, hs)) \in Nat
         /\ Cardinality(Scanner!Fill(ranked, hs)) <= Bigger(MaxStocks, Cardinality(hs))
<1> DEFINE others == {k \in DOMAIN ranked : ranked[k] \notin hs}
    slots == Scanner!Slots(hs)
    W == {o \in others : Cardinality(UpToIn(others, o)) <= slots}
    new == {ranked[k] : k \in W}
<1>1. /\ Cardinality(hs) \in Nat
      /\ slots = IF Cardinality(hs) < MaxStocks THEN MaxStocks - Cardinality(hs) ELSE 0
  BY ScanNames, FS_CardinalityType
<1>2. Scanner!NewSymbols(ranked, hs) = new
  <2> DEFINE Place(o) == Scanner!Cardinality({p \in others : p <= o})
  <2>1. Scanner!NewSymbols(ranked, hs) = {ranked[k] : k \in {o \in others : Place(o) <= slots}}
    BY DEF Scanner!NewSymbols
  <2>2. \A o : Place(o) = Cardinality(UpToIn(others, o))
    BY ScanNames DEF UpToIn
  <2> HIDE DEF slots, others, Place
  <2> QED BY <2>1, <2>2
<1>3. W \in SUBSET (1 .. n) /\ others \in SUBSET (1 .. n)
  OBVIOUS
<1>4. IsFiniteSet(1 .. n)
  BY FS_Interval
<1>5. IsFiniteSet(W) /\ Cardinality(W) <= slots /\ Cardinality(W) \in Nat
  <2>1. CASE W = {}
    <3>1. IsFiniteSet({}) /\ Cardinality({}) = 0
      BY FS_EmptySet
    <3> HIDE DEF W, slots
    <3> QED BY <1>1, <2>1, <3>1
  <2>2. CASE W # {}
    <3>1. PICK o \in W : \A y \in W : o >= y
      <4> HIDE DEF W
      <4> QED BY <1>3, <2>2, LargestExists
    <3>2. W \subseteq UpToIn(others, o)
      <4>1. \A y \in W : y \in others
        OBVIOUS
      <4>2. \A y \in W : y \in Nat
        BY <1>3
      <4> HIDE DEF W, others
      <4> QED BY <3>1, <4>1, <4>2 DEF UpToIn
    <3>3. Cardinality(UpToIn(others, o)) <= slots
      OBVIOUS
    <3>4. IsFiniteSet(UpToIn(others, o))
      <4>1. UpToIn(others, o) \in SUBSET (1 .. n)
        BY <1>3 DEF UpToIn
      <4> QED BY <1>4, <4>1, FS_Subset
    <3> HIDE DEF W, others, slots
    <3>5. /\ IsFiniteSet(W) /\ Cardinality(W) <= Cardinality(UpToIn(others, o))
          /\ Cardinality(W) \in Nat /\ Cardinality(UpToIn(others, o)) \in Nat
      BY <3>2, <3>4, FS_Subset, FS_CardinalityType
    <3> QED BY <1>1, <3>3, <3>5
  <2> QED BY <2>1, <2>2
<1> HIDE DEF W, slots, others
<1>6. IsFiniteSet(new) /\ Cardinality(new) <= Cardinality(W)
  <2> HIDE DEF new
  <2> QED BY <1>5, Images DEF new
<1> HIDE DEF new
<1>7. /\ Cardinality(new) \in Nat /\ IsFiniteSet(hs \cap new) /\ Cardinality(hs \cap new) \in Nat
      /\ IsFiniteSet(hs \cup new) /\ Cardinality(hs \cup new) \in Nat
      /\ Cardinality(hs \cup new) = Cardinality(hs) + Cardinality(new) - Cardinality(hs \cap new)
  <2>1. hs \cap new \in SUBSET hs
    OBVIOUS
  <2>2. IsFiniteSet(hs \cap new)
    BY <2>1, FS_Subset
  <2>3. IsFiniteSet(hs \cup new)
        /\ Cardinality(hs \cup new) = Cardinality(hs) + Cardinality(new) - Cardinality(hs \cap new)
    BY <1>6, FS_Union
  <2> QED BY <1>6, <2>2, <2>3, FS_CardinalityType
<1>8. Scanner!Fill(ranked, hs) = hs \cup new
  BY <1>2 DEF Scanner!Fill
<1>9. Cardinality(hs \cup new) <= Bigger(MaxStocks, Cardinality(hs))
  BY <1>1, <1>5, <1>6, <1>7 DEF Bigger
<1> QED BY <1>7, <1>8, <1>9

-----------------------------------------------------------------------------
MarketOk(m) == /\ m \in Seq(ToSet(m)) /\ \A i \in DOMAIN m : StockOk(m[i])
CandidatesOk(cs) ==
  /\ cs \in Seq(ToSet(cs)) /\ \A i \in DOMAIN cs : cs[i].score \in Int
  /\ \A i, j \in DOMAIN cs : cs[i].symbol = cs[j].symbol => i = j

PassingIn(m) == {i \in DOMAIN m : Scanner!Passes(m[i])}
SymbolsIn(s) == [i \in DOMAIN s |-> s[i].symbol]
ScoresIn(m) == [i \in DOMAIN m |-> Scanner!Score(m[i], {m[j] : j \in PassingIn(m)})]
QualifyingIn(cs) == {i \in DOMAIN cs : cs[i].qualifies}
MarksIn(cs) == [i \in DOMAIN cs |-> cs[i].score]

\* a sequence's indices
LEMMA Indices ==
  ASSUME NEW s, s \in Seq(ToSet(s)), NEW P \in SUBSET DOMAIN s
  PROVE  P \in SUBSET Nat /\ IsFiniteSet(P) /\ Len(s) \in Nat /\ DOMAIN s = 1 .. Len(s)
<1>1. Len(s) \in Nat /\ DOMAIN s = 1 .. Len(s)
  OBVIOUS
<1>2. IsFiniteSet(1 .. Len(s))
  BY <1>1, FS_Interval
<1>3. IsFiniteSet(P)
  BY <1>1, <1>2, FS_Subset
<1> QED BY <1>1, <1>3

LEMMA ScanIsBest ==
  ASSUME NEW m, MarketOk(m), NEW hs, IsFiniteSet(hs), MaxStocks \in Nat
  PROVE  /\ Scanner!Scan(m, hs) = hs \cup BestOf(PassingIn(m), SymbolsIn(m), ScoresIn(m), hs)
         /\ Cardinality(Scanner!Scan(m, hs)) \in Nat
         /\ Cardinality(Scanner!Scan(m, hs)) <= Bigger(MaxStocks, Cardinality(hs))
<1> DEFINE P == PassingIn(m)
    symbol == SymbolsIn(m)
    score == ScoresIn(m)
<1>a. /\ P = {i \in DOMAIN m : Scanner!Passes(m[i])}
      /\ symbol = [i \in DOMAIN m |-> m[i].symbol]
      /\ score = [i \in DOMAIN m |-> Scanner!Score(m[i], {m[j] : j \in P})]
  BY DEF PassingIn, SymbolsIn, ScoresIn
<1> HIDE DEF P, symbol, score
<1> DEFINE ss == {m[j] : j \in P}
    mine == [i \in P |-> Scanner!Score(m[i], ss)]
    f == Scanner!Ranked(P, mine)
    n == Cardinality(P)
    ranked == Scanner!SymbolsOf(m, f)
<1>0. P \in SUBSET DOMAIN m
  BY <1>a
<1>1. P \in SUBSET Nat /\ IsFiniteSet(P) /\ n \in Nat
  BY <1>0, Indices, FS_CardinalityType DEF MarketOk
<1>2. \A i \in P : mine[i] \in Int /\ score[i] = mine[i]
  <2>1. IsFiniteSet(ss) /\ \A t \in ss : StockOk(t)
    <3>1. \A t \in ss : StockOk(t)
      BY <1>0 DEF MarketOk
    <3> HIDE DEF ss
    <3> QED BY <1>1, <3>1, Images DEF ss
  <2>2. \A i \in P : StockOk(m[i])
    BY <1>0 DEF MarketOk
  <2>3. \A i \in P : Scanner!Score(m[i], ss) \in Int
    <3> HIDE DEF ss
    <3> QED BY <2>1, <2>2, ScoreTypes
  <2> QED BY <1>0, <1>a, <2>3
<1>3. Scanner!Scan(m, hs) = Scanner!Fill(ranked, hs)
  BY <1>a DEF Scanner!Scan, Scanner!ScoreAndRank
<1> HIDE DEF mine
<1>4. Lists(f, P, mine)
  BY <1>1, <1>2, RankedLists
<1> HIDE DEF f
<1>5. Lists(f, P, score)
  BY <1>2, <1>4 DEF Lists, Before
<1>6. f \in [1 .. n -> P] /\ DOMAIN f = 1 .. n
  BY <1>5 DEF Lists
<1>7. DOMAIN ranked = 1 .. n /\ \A k \in 1 .. n : ranked[k] = symbol[f[k]]
  <2>1. ranked = [k \in 1 .. n |-> m[f[k]].symbol]
    BY <1>6 DEF Scanner!SymbolsOf
  <2>2. \A k \in 1 .. n : f[k] \in DOMAIN m
    BY <1>0, <1>6
  <2> HIDE DEF ranked, n
  <2> QED BY <1>a, <2>1, <2>2
<1> HIDE DEF ranked
<1>8. Scanner!NewSymbols(ranked, hs) = BestOf(P, symbol, score, hs)
  <2>1. n \in 0 .. Cardinality(P) /\ n = Cardinality(P)
    BY <1>1
  <2>2. \A i \in P : score[i] \in Int
    BY <1>2
  <2>3. n = Cardinality(P) \/ (n = MaxStocks /\ \A i, j \in P : symbol[i] = symbol[j] => i = j)
    OBVIOUS
  <2> HIDE DEF n
  <2> QED BY ONLY IsFiniteSet(hs), MaxStocks \in Nat, <1>1, <1>5, <1>7, <2>1, <2>2, <2>3, NewAreBest, SMTT(60)
<1>9. /\ Cardinality(Scanner!Fill(ranked, hs)) \in Nat
      /\ Cardinality(Scanner!Fill(ranked, hs)) <= Bigger(MaxStocks, Cardinality(hs))
  <2> HIDE DEF n
  <2> QED BY <1>1, <1>7, FillBound
<1> QED BY <1>3, <1>8, <1>9 DEF Scanner!Fill, P, symbol, score

LEMMA QuantIsBest ==
  ASSUME NEW cs, CandidatesOk(cs), NEW hs, IsFiniteSet(hs), MaxStocks \in Nat
  PROVE  /\ Scanner!QuantScan(cs, hs)
              = hs \cup BestOf(QualifyingIn(cs), SymbolsIn(cs), MarksIn(cs), hs)
         /\ Cardinality(Scanner!QuantScan(cs, hs)) \in Nat
         /\ Cardinality(Scanner!QuantScan(cs, hs)) <= Bigger(MaxStocks, Cardinality(hs))
<1> DEFINE P == QualifyingIn(cs)
    symbol == SymbolsIn(cs)
    score == MarksIn(cs)
<1>a. /\ P = {i \in DOMAIN cs : cs[i].qualifies}
      /\ symbol = [i \in DOMAIN cs |-> cs[i].symbol]
      /\ score = [i \in DOMAIN cs |-> cs[i].score]
  BY DEF QualifyingIn, SymbolsIn, MarksIn
<1> HIDE DEF P, symbol, score
<1> DEFINE mine == [i \in P |-> cs[i].score]
    f == Scanner!Ranked(P, mine)
    n == Cardinality(P)
    full == Scanner!SymbolsOf(cs, f)
    ranked == Scanner!Best(full, MaxStocks)
    m == IF MaxStocks < n THEN MaxStocks ELSE n
<1>0. P \in SUBSET DOMAIN cs
  BY <1>a
<1>1. P \in SUBSET Nat /\ IsFiniteSet(P) /\ n \in Nat /\ m \in 0 .. n /\ m \in Nat
  <2>1. P \in SUBSET Nat /\ IsFiniteSet(P) /\ n \in Nat
    BY <1>0, Indices, FS_CardinalityType DEF CandidatesOk
  <2> HIDE DEF n
  <2> QED BY <2>1
<1>2. \A i \in P : mine[i] \in Int /\ score[i] = mine[i]
  BY <1>0, <1>a DEF CandidatesOk
<1>3. Scanner!QuantScan(cs, hs) = Scanner!Fill(ranked, hs)
  BY <1>a DEF Scanner!QuantScan, Scanner!Rank
<1> HIDE DEF mine
<1>4. Lists(f, P, mine)
  BY <1>1, <1>2, RankedLists
<1> HIDE DEF f
<1>5. Lists(f, P, score)
  BY <1>2, <1>4 DEF Lists, Before
<1>6. f \in [1 .. n -> P] /\ DOMAIN f = 1 .. n
  BY <1>5 DEF Lists
<1>7. full = [k \in 1 .. n |-> cs[f[k]].symbol] /\ \A k \in 1 .. n : full[k] = symbol[f[k]]
  <2>1. full = [k \in 1 .. n |-> cs[f[k]].symbol]
    BY <1>6 DEF Scanner!SymbolsOf
  <2>2. \A k \in 1 .. n : f[k] \in DOMAIN cs
    BY <1>0, <1>6
  <2> HIDE DEF full, n
  <2> QED BY <1>a, <2>1, <2>2
<1> HIDE DEF n
<1>8. DOMAIN ranked = 1 .. m /\ \A k \in 1 .. m : ranked[k] = symbol[f[k]]
  <2> DEFINE X == {full[k] : k \in 1 .. n}
  <2>1. full \in [1 .. n -> X]
    BY <1>7
  <2> HIDE DEF full, X
  <2>2. full \in Seq(X) /\ Len(full) = n
    BY <1>1, <2>1
  <2>3. ranked = SubSeq(full, 1, m)
    BY <2>2 DEF Scanner!Best
  <2> HIDE DEF ranked, m
  <2>4. Len(SubSeq(full, 1, m)) = m /\ SubSeq(full, 1, m) \in Seq(X)
        /\ \A k \in 1 .. m : SubSeq(full, 1, m)[k] = full[k]
    BY <1>1, <2>2
  <2>5. \A k \in 1 .. m : k \in 1 .. n
    BY <1>1
  <2> QED BY <1>7, <2>3, <2>4, <2>5
<1> HIDE DEF ranked
<1>9. Scanner!NewSymbols(ranked, hs) = BestOf(P, symbol, score, hs)
  <2>1. \A i, j \in P : symbol[i] = symbol[j] => i = j
    BY <1>0, <1>a DEF CandidatesOk
  <2>2. m = Cardinality(P) \/ (m = MaxStocks /\ \A i, j \in P : symbol[i] = symbol[j] => i = j)
    BY <2>1 DEF n
  <2>3. \A i \in P : score[i] \in Int
    BY <1>2
  <2>4. m \in 0 .. Cardinality(P)
    BY <1>1 DEF n
  <2> HIDE DEF m
  <2> QED BY <1>1, <1>5, <1>8, <2>2, <2>3, <2>4, NewAreBest
<1>10. /\ Cardinality(Scanner!Fill(ranked, hs)) \in Nat
      /\ Cardinality(Scanner!Fill(ranked, hs)) <= Bigger(MaxStocks, Cardinality(hs))
  <2> HIDE DEF m
  <2> QED BY <1>1, <1>8, FillBound
<1> QED BY <1>3, <1>9, <1>10 DEF Scanner!Fill, P, symbol, score

LEMMA SelectedIs ==
  \A symbol, score, P :
    Scanner!Selected(symbol, score, P) = scan_held \cup BestOf(P, symbol, score, scan_held)
<1> SUFFICES ASSUME NEW symbol, NEW score, NEW P
             PROVE  Scanner!Selected(symbol, score, P)
                      = scan_held \cup BestOf(P, symbol, score, scan_held)
  OBVIOUS
<1> DEFINE others == {i \in P : symbol[i] \notin scan_held}
    Beaten(i) == Scanner!Cardinality({j \in others : score[j] > score[i]
                                                     \/ (score[j] = score[i] /\ j < i)})
<1>1. Scanner!Selected(symbol, score, P)
        = scan_held \cup {symbol[i] : i \in {o \in others : Beaten(o) < Scanner!Slots(scan_held)}}
  BY DEF Scanner!Selected
<1>2. others = OthersOf(P, symbol, scan_held)
  BY DEF OthersOf
<1>3. \A i : Beaten(i) = Cardinality(BeatenBy(P, symbol, score, scan_held, i))
  <2>1. \A i : {j \in others : score[j] > score[i] \/ (score[j] = score[i] /\ j < i)}
                = BeatenBy(P, symbol, score, scan_held, i)
    BY DEF BeatenBy, Before, OthersOf
  <2> QED BY <2>1, ScanNames
<1> HIDE DEF others, Beaten
<1> QED BY <1>1, <1>2, <1>3 DEF BestOf

ScanInv ==
  /\ IsFiniteSet(scan_held)
  /\ IF scan_candidates = <<>> THEN MarketOk(scan_market) ELSE CandidatesOk(scan_candidates)

LEMMA NoStocks == MarketOk(<<>>)
<1>1. <<>> \in Seq(ToSet(<<>>)) /\ DOMAIN <<>> = {}
  OBVIOUS
<1> QED BY <1>1 DEF MarketOk

LEMMA ScanStarts == Scanner!Init => ScanInv
<1> SUFFICES ASSUME Scanner!Init PROVE ScanInv
  OBVIOUS
<1>1. PICK hs \in Holdings :
        \/ \E m \in Markets : scan_market = m /\ scan_candidates = <<>> /\ scan_held = hs
        \/ \E cs \in Candidates : scan_market = <<>> /\ scan_candidates = cs /\ scan_held = hs
  BY DEF Scanner!Init, Scanner!InitWith
<1>2. IsFiniteSet(scan_held)
  BY <1>1, ScanAssumption
<1>3. \A m \in Markets : MarketOk(m)
  BY ScanAssumption DEF MarketOk, StockOk
<1>4. \A cs \in Candidates : CandidatesOk(cs)
  BY ScanAssumption DEF CandidatesOk
<1> QED BY <1>1, <1>2, <1>3, <1>4, NoStocks DEF ScanInv

LEMMA ScanMeans == ScanInv => Scanner!SelectionIsBest
<1> SUFFICES ASSUME ScanInv PROVE Scanner!SelectionIsBest
  OBVIOUS
<1> DEFINE found == IF scan_candidates = <<>> THEN Scanner!Scan(scan_market, scan_held)
                    ELSE Scanner!QuantScan(scan_candidates, scan_held)
    best == IF scan_candidates = <<>>
            THEN BestOf(PassingIn(scan_market), SymbolsIn(scan_market), ScoresIn(scan_market),
                        scan_held)
            ELSE BestOf(QualifyingIn(scan_candidates), SymbolsIn(scan_candidates),
                        MarksIn(scan_candidates), scan_held)
<1>0. IsFiniteSet(scan_held) /\ MaxStocks \in Nat /\ Cardinality(scan_held) \in Nat
  BY ScanAssumption, FS_CardinalityType DEF ScanInv
<1>1. Scanner!SelectionIsBest <=>
        /\ IF scan_candidates = <<>>
           THEN found = Scanner!Selected(SymbolsIn(scan_market), ScoresIn(scan_market),
                                         PassingIn(scan_market))
           ELSE found = Scanner!Selected(SymbolsIn(scan_candidates), MarksIn(scan_candidates),
                                         QualifyingIn(scan_candidates))
        /\ Scanner!Cardinality(found)
             <= Scanner!Max({MaxStocks, Scanner!Cardinality(scan_held)})
  BY DEF Scanner!SelectionIsBest, PassingIn, SymbolsIn, ScoresIn, QualifyingIn, MarksIn
<1>2. /\ found = scan_held \cup best /\ Cardinality(found) \in Nat
      /\ Cardinality(found) <= Bigger(MaxStocks, Cardinality(scan_held))
  <2>1. CASE scan_candidates = <<>>
    <3>1. MarketOk(scan_market)
      BY <2>1 DEF ScanInv
    <3> QED BY <1>0, <2>1, <3>1, ScanIsBest
  <2>2. CASE scan_candidates # <<>>
    <3>1. CandidatesOk(scan_candidates)
      BY <2>2 DEF ScanInv
    <3> QED BY <1>0, <2>2, <3>1, QuantIsBest
  <2> QED BY <2>1, <2>2
<1>3. /\ Scanner!Max({MaxStocks, Cardinality(scan_held)}) \in Int
      /\ Bigger(MaxStocks, Cardinality(scan_held)) <= Scanner!Max({MaxStocks, Cardinality(scan_held)})
  <2> DEFINE S == {MaxStocks, Cardinality(scan_held)}
  <2>1. IsFiniteSet({MaxStocks}) /\ IsFiniteSet(S \ {MaxStocks})
    <3>1. S \ {MaxStocks} \in SUBSET {Cardinality(scan_held)}
      OBVIOUS
    <3> HIDE DEF S
    <3> QED BY <3>1, FS_Singleton, FS_Subset
  <2>2. IsFiniteSet({MaxStocks} \cup (S \ {MaxStocks}))
    <3> HIDE DEF S
    <3> QED BY <2>1, FS_Union
  <2>3. {MaxStocks} \cup (S \ {MaxStocks}) = S /\ S # {} /\ S \subseteq Int
    BY <1>0
  <2>4. Scanner!Max(S) \in S /\ \A y \in S : Scanner!Max(S) >= y
    <3> HIDE DEF S
    <3> QED BY <2>2, <2>3, MaxOfInts
  <2> QED BY <1>0, <2>3, <2>4 DEF Bigger
<1>4. Cardinality(found) <= Scanner!Max({MaxStocks, Cardinality(scan_held)})
  <2>1. Bigger(MaxStocks, Cardinality(scan_held)) \in Int
    BY <1>0 DEF Bigger
  <2> HIDE DEF found
  <2> QED BY <1>2, <1>3, <2>1
<1> HIDE DEF found
<1>5. /\ Scanner!Cardinality(found) = Cardinality(found)
      /\ Scanner!Cardinality(scan_held) = Cardinality(scan_held)
  BY ScanNames
<1> QED BY <1>1, <1>2, <1>4, <1>5, SelectedIs

-----------------------------------------------------------------------------
(***************************************************************************)
(* StrategySignals: the last of a sequence, and what a tape says was seen. *)
(***************************************************************************)
Shorter(m, n) == IF m <= n THEN m ELSE n

\* u is the last m of s
LastOf(T, u, s, m) ==
  u \in Seq(T) /\ Len(u) = m /\ \A k \in 1 .. m : u[k] = s[Len(s) - m + k]

LEMMA SuffixIs ==
  ASSUME NEW T, NEW s \in Seq(T), NEW n \in Nat
  PROVE  LastOf(T, Signals!Suffix(s, n), s, Shorter(Len(s), n)) /\ Len(s) \in Nat
<1>0. Len(s) \in Nat
  OBVIOUS
<1>1. CASE Len(s) <= n
  BY <1>0, <1>1 DEF Signals!Suffix, LastOf, Shorter
<1>2. CASE ~(Len(s) <= n)
  <2>1. Signals!Suffix(s, n) = SubSeq(s, Len(s) - n + 1, Len(s))
    BY <1>2 DEF Signals!Suffix
  <2> DEFINE a == Len(s) - n + 1
  <2>2. a \in 1 .. Len(s) + 1 /\ Len(s) - a + 1 = n
    BY <1>0, <1>2
  <2>3. /\ SubSeq(s, a, Len(s)) \in Seq(T) /\ Len(SubSeq(s, a, Len(s))) = Len(s) - a + 1
        /\ \A k \in 1 .. Len(s) - a + 1 : SubSeq(s, a, Len(s))[k] = s[a + k - 1]
    <3> HIDE DEF a
    <3> QED BY <1>0, <2>2
  <2>4. \A k \in 1 .. n : a + k - 1 = Len(s) - n + k
    BY <1>0
  <2>5. \A k \in 1 .. n : SubSeq(s, a, Len(s))[k] = s[Len(s) - n + k]
    <3> HIDE DEF a
    <3> QED BY <2>2, <2>3, <2>4
  <2> HIDE DEF a
  <2>6. Signals!Suffix(s, n) = SubSeq(s, a, Len(s))
    BY <2>1 DEF a
  <2> QED BY <1>0, <1>2, <2>2, <2>3, <2>5, <2>6 DEF LastOf, Shorter
<1> QED BY <1>1, <1>2

LEMMA SameSequence ==
  ASSUME NEW T, NEW a \in Seq(T), NEW b \in Seq(T), Len(a) = Len(b),
         \A k \in 1 .. Len(a) : a[k] = b[k]
  PROVE  a = b
OBVIOUS

\* what falls out of a buffer would have fallen out later
LEMMA SuffixTwice ==
  ASSUME NEW T, NEW a \in Seq(T), NEW b \in Seq(T), NEW n \in Nat
  PROVE  Signals!Suffix(Signals!Suffix(a, n) \o b, n) = Signals!Suffix(a \o b, n)
<1> DEFINE u == Signals!Suffix(a, n)
    m == Shorter(Len(a), n)
    x == u \o b
    y == a \o b
    p == Signals!Suffix(x, n)
    q == Signals!Suffix(y, n)
    lx == Shorter(Len(x), n)
    ly == Shorter(Len(y), n)
<1> HIDE DEF u, m, x, y, p, q, lx, ly
<1>1. LastOf(T, u, a, m) /\ Len(a) \in Nat /\ Len(b) \in Nat
  BY SuffixIs DEF u, m
<1>0. m \in Nat /\ m <= Len(a)
  BY <1>1 DEF m, Shorter
<1>2. /\ x \in Seq(T) /\ Len(x) = m + Len(b)
      /\ \A k \in 1 .. m + Len(b) : x[k] = IF k <= m THEN u[k] ELSE b[k - m]
  BY <1>0, <1>1 DEF x, LastOf
<1>3. /\ y \in Seq(T) /\ Len(y) = Len(a) + Len(b)
      /\ \A k \in 1 .. Len(a) + Len(b) : y[k] = IF k <= Len(a) THEN a[k] ELSE b[k - Len(a)]
  BY <1>1 DEF y
\* the last m + Len(b) of y are those of x
<1>4. ASSUME NEW k \in 1 .. m + Len(b) PROVE x[k] = y[Len(a) - m + k]
  <2>1. Len(a) - m + k \in 1 .. Len(a) + Len(b)
    BY <1>0, <1>1
  <2>2. CASE k <= m
    <3>1. k \in 1 .. m /\ Len(a) - m + k <= Len(a)
      BY <1>0, <1>1, <2>2
    <3>2. u[k] = a[Len(a) - m + k]
      BY <1>1, <3>1 DEF LastOf
    <3> QED BY <1>2, <1>3, <2>1, <2>2, <3>1, <3>2
  <2>3. CASE ~(k <= m)
    <3>1. ~(Len(a) - m + k <= Len(a)) /\ (Len(a) - m + k) - Len(a) = k - m
      BY <1>0, <1>1, <2>3
    <3> QED BY <1>2, <1>3, <2>1, <2>3, <3>1
  <2> QED BY <2>2, <2>3
<1>5. LastOf(T, p, x, lx)
  BY <1>2, SuffixIs DEF p, lx
<1>8. LastOf(T, q, y, ly)
  BY <1>3, SuffixIs DEF q, ly
<1>6. lx = ly /\ lx \in Nat /\ lx <= Len(x)
  BY <1>0, <1>1, <1>2, <1>3 DEF m, lx, ly, Shorter
<1>7. ASSUME NEW k \in 1 .. lx PROVE p[k] = q[k]
  <2>1. /\ Len(x) - lx + k \in 1 .. m + Len(b)
        /\ Len(a) - m + (Len(x) - lx + k) = Len(y) - ly + k
    BY <1>0, <1>1, <1>2, <1>3, <1>6
  <2>2. x[Len(x) - lx + k] = y[Len(a) - m + (Len(x) - lx + k)]
    BY <1>4, <2>1
  <2>3. p[k] = x[Len(x) - lx + k]
    BY <1>5 DEF LastOf
  <2>4. q[k] = y[Len(y) - ly + k]
    BY <1>6, <1>8 DEF LastOf
  <2> QED BY <2>1, <2>2, <2>3, <2>4
<1>9. p = q
  <2>1. /\ p \in Seq(T) /\ q \in Seq(T) /\ Len(p) = Len(q)
        /\ \A k \in 1 .. Len(p) : p[k] = q[k]
    BY <1>5, <1>6, <1>7, <1>8 DEF LastOf
  <2> QED BY <2>1, SameSequence
<1> QED BY <1>9 DEF p, q, x, y, u

LEMMA SuffixOfAll ==
  ASSUME NEW T, NEW s \in Seq(T), NEW n, Len(s) <= n
  PROVE  Signals!Suffix(s, n) = s
BY DEF Signals!Suffix

-----------------------------------------------------------------------------
Numbers == (UNION {{b.price, b.volume} : b \in UNION {ToSet(h) : h \in Histories}})
           \cup Prices \cup Volumes \cup {0}
SignalBars == [price : Numbers, volume : Numbers]
TapeEntries == [what : {"tick", "book", "daily"}, price : Numbers, volume : Numbers,
                book : Books \cup {Signals!Even}, window : Windows, size : Nat, at : Nat,
                said : Signals!Sides \cup {"none"}]

BarOf(e) == [price |-> e.price, volume |-> e.volume]
SeenNext(s, e) == IF e.what = "book" THEN s ELSE Append(s, BarOf(e))

SeenIn(t, i) ==
  LET seen[j \in 0 .. Len(t)] ==
        IF j = 0 THEN <<>>
        ELSE IF t[j].what = "book" THEN seen[j - 1]
        ELSE Append(seen[j - 1], [price |-> t[j].price, volume |-> t[j].volume])
  IN seen[i]

LEMMA SeenGrows ==
  ASSUME NEW t \in Seq(TapeEntries)
  PROVE  /\ SeenIn(t, 0) = <<>>
         /\ \A j \in 1 .. Len(t) : SeenIn(t, j) = SeenNext(SeenIn(t, j - 1), t[j])
         /\ \A j \in 0 .. Len(t) : SeenIn(t, j) \in Seq(SignalBars) /\ Len(SeenIn(t, j)) <= j
<1> DEFINE n == Len(t)
    V == Seq(SignalBars)
    Body(g) == [j \in 0 .. n |-> IF j = 0 THEN <<>> ELSE SeenNext(g[j - 1], t[j])]
    seen == CHOOSE g : g = Body(g)
<1>0. n \in Nat /\ \A j \in 1 .. n : t[j] \in TapeEntries
  OBVIOUS
<1>1. \A i : SeenIn(t, i) = seen[i]
  BY DEF SeenIn, SeenNext, BarOf
<1>2. \A s \in V : \A e \in TapeEntries :
        SeenNext(s, e) \in V /\ Len(SeenNext(s, e)) <= Len(s) + 1
  <2> SUFFICES ASSUME NEW s \in V, NEW e \in TapeEntries
               PROVE  SeenNext(s, e) \in V /\ Len(SeenNext(s, e)) <= Len(s) + 1
    OBVIOUS
  <2>1. BarOf(e) \in SignalBars
    BY DEF TapeEntries, SignalBars, BarOf
  <2> QED BY <2>1 DEF SeenNext
<1> HIDE DEF n, V
<1>3. \E g : g = Body(g)
  <2> DEFINE h == [j \in 1 .. n |-> [s \in V |-> SeenNext(s, t[j])]]
  <2>1. h \in [1 .. n -> [V -> V]]
    BY <1>0, <1>2
  <2>2. PICK g \in [0 .. n -> V] : RecursWith(g, n, <<>>, h)
    <3>1. <<>> \in V
      BY DEF V
    <3> HIDE DEF h
    <3> QED BY <1>0, <2>1, <3>1, RecursionExists
  <2>3. ASSUME NEW j \in 1 .. n PROVE g[j] = SeenNext(g[j - 1], t[j])
    <3>1. g[j - 1] \in V
      BY <1>0
    <3> QED BY <2>2, <3>1 DEF RecursWith
  <2> HIDE DEF h
  <2>4. ASSUME NEW j \in 0 .. n PROVE g[j] = Body(g)[j]
    <3>1. j # 0 => j \in 1 .. n
      BY <1>0
    <3> QED BY <2>2, <2>3, <3>1 DEF RecursWith
  <2> QED BY <2>2, <2>4
<1>4. seen = Body(seen)
  BY <1>3
<1> HIDE DEF seen
<1>5. seen[0] = <<>> /\ \A j \in 1 .. n : seen[j] = SeenNext(seen[j - 1], t[j])
  <2>1. 0 \in 0 .. n /\ \A j \in 1 .. n : j \in 0 .. n /\ j # 0
    BY <1>0
  <2> QED BY <1>4, <2>1
<1>6. \A j \in 0 .. n : seen[j] \in V /\ Len(seen[j]) <= j
  <2> DEFINE K == {j \in Nat : j <= n => seen[j] \in V /\ Len(seen[j]) <= j}
  <2>1. 0 \in K
    <3>1. <<>> \in Seq(SignalBars) /\ Len(<<>>) = 0
      OBVIOUS
    <3>2. seen[0] \in V /\ Len(seen[0]) <= 0
      BY <1>5, <3>1 DEF V
    <3> QED BY <3>2
  <2>2. ASSUME NEW j \in Nat, j \in K PROVE j + 1 \in K
    <3> SUFFICES ASSUME j + 1 <= n PROVE seen[j + 1] \in V /\ Len(seen[j + 1]) <= j + 1
      OBVIOUS
    <3>1. j + 1 \in 1 .. n /\ (j + 1) - 1 = j /\ j <= n
      BY <1>0
    <3>2. seen[j] \in V /\ Len(seen[j]) <= j /\ t[j + 1] \in TapeEntries
      BY <1>0, <2>2, <3>1
    <3>3. /\ seen[j + 1] = SeenNext(seen[j], t[j + 1]) /\ seen[j + 1] \in V
          /\ Len(seen[j + 1]) <= Len(seen[j]) + 1
      BY <1>2, <1>5, <3>1, <3>2
    <3>4. Len(seen[j]) \in Nat /\ Len(seen[j + 1]) \in Nat
      BY <3>2, <3>3 DEF V
    <3> QED BY <3>2, <3>3, <3>4
  <2>3. \A j \in Nat : j \in K
    <3> HIDE DEF K
    <3> QED BY <2>1, <2>2, NatByInduction
  <2> QED BY <1>0, <2>3
<1> QED BY <1>1, <1>5, <1>6 DEF n, V

\* t is what u begins with
Begins(t, u) ==
  /\ t \in Seq(TapeEntries) /\ u \in Seq(TapeEntries) /\ Len(t) \in Nat /\ Len(u) \in Nat
  /\ Len(t) <= Len(u) /\ \A j \in 1 .. Len(t) : u[j] = t[j]

LEMMA SeenBegins ==
  ASSUME NEW t, NEW u, Begins(t, u)
  PROVE  \A i \in 0 .. Len(t) : SeenIn(u, i) = SeenIn(t, i)
<1> DEFINE K == {i \in Nat : i <= Len(t) => SeenIn(u, i) = SeenIn(t, i)}
<1>0. Len(t) \in Nat /\ Len(u) \in Nat
  BY DEF Begins
<1>1. 0 \in K
  BY SeenGrows DEF Begins
<1>2. ASSUME NEW i \in Nat, i \in K PROVE i + 1 \in K
  <2> SUFFICES ASSUME i + 1 <= Len(t) PROVE SeenIn(u, i + 1) = SeenIn(t, i + 1)
    OBVIOUS
  <2>1. i + 1 \in 1 .. Len(t) /\ i + 1 \in 1 .. Len(u) /\ (i + 1) - 1 = i /\ i <= Len(t)
    BY <1>0 DEF Begins
  <2>2. SeenIn(u, i + 1) = SeenNext(SeenIn(u, i), u[i + 1])
    BY <2>1, SeenGrows DEF Begins
  <2>3. SeenIn(t, i + 1) = SeenNext(SeenIn(t, i), t[i + 1])
    BY <2>1, SeenGrows DEF Begins
  <2>4. u[i + 1] = t[i + 1] /\ SeenIn(u, i) = SeenIn(t, i)
    BY <1>2, <2>1 DEF Begins
  <2> QED BY <2>2, <2>3, <2>4
<1>3. \A i \in Nat : i \in K
  <2> HIDE DEF K
  <2> QED BY <1>1, <1>2, NatByInduction
<1> QED BY <1>0, <1>3

-----------------------------------------------------------------------------
(***************************************************************************)
(* The definitions that SaysWhatItSaw is made of, with kind, live and tape *)
(* as parameters.                                                          *)
(***************************************************************************)
BarsIn(k, t, i) ==
  IF k \in Signals!Buffered THEN Signals!Suffix(SeenIn(t, i), Signals!MaxLen(k, t[i].window))
  ELSE SeenIn(t, i)
BandTicksIn(k, t, i) ==
  {j \in 1 .. i : t[j].what = "tick" /\ Signals!HasBands(BarsIn(k, t, j), t[j].window)}
WasBelowIn(k, t, i) ==
  /\ BandTicksIn(k, t, i) # {}
  /\ Signals!BelowBand(BarsIn(k, t, Signals!Max(BandTicksIn(k, t, i))))
BooksIn(t, i) == {j \in 1 .. i : t[j].what = "book" /\ t[j].book # <<0, 0>>}
BookAtIn(t, i) == IF BooksIn(t, i) = {} THEN Signals!Even ELSE t[Signals!Max(BooksIn(t, i))].book

WantsOf(k, b, w, wasBelow, bk) ==
  CASE k = "ma_cross" -> Signals!MACrossWants(b, w)
    [] k = "bollinger" -> Signals!BollingerWants(b, w)
    [] k = "rsi" -> Signals!RSIWants(b, w)
    [] k = "vwap" -> Signals!VWAPWants(b)
    [] k = "momentum" -> Signals!MomentumWants(b, w)
    [] k = "mean_reversion" -> Signals!MeanReversionWants(b, w, wasBelow)
    [] k = "factor" -> Signals!FactorWants(b, w, bk)
    [] OTHER -> {}
WantedIn(k, t, i) ==
  IF t[i].what = "tick"
  THEN WantsOf(k, BarsIn(k, t, i), t[i].window, WasBelowIn(k, t, i - 1), BookAtIn(t, i))
  ELSE IF k = "orderbook" THEN Signals!OrderbookWants(t[i].book) ELSE {}

QuietIn(isLive, t, i, side) ==
  /\ \A j \in 1 .. i - 1 : t[j].said = side => t[i].at - t[j].at >= Cooldown
  /\ isLive /\ (\A j \in 1 .. i - 1 : t[j].said # side) => t[i].at >= Cooldown

FitsIn(k, e) == k \in Signals!Buffered => e.size = Signals!MaxLen(k, e.window)
AllFit(k, t) == \A j \in 1 .. Len(t) : FitsIn(k, t[j])
Choice(wants, buy, sell) ==
  IF "BUY" \in wants /\ buy THEN "BUY" ELSE IF "SELL" \in wants /\ sell THEN "SELL" ELSE "none"

SaysOK(k, isLive, t) ==
  Len(t) > 0 /\ t[Len(t)].what # "daily" =>
    /\ AllFit(k, t) =>
         t[Len(t)].said = Choice(WantedIn(k, t, Len(t)), QuietIn(isLive, t, Len(t), "BUY"),
                                 QuietIn(isLive, t, Len(t), "SELL"))
    /\ k \in Signals!Buffered /\ t[Len(t)].size < t[Len(t)].window => t[Len(t)].said = "none"

LEMMA SaysLinks ==
  ASSUME sig_tape \in Seq(TapeEntries), SaysOK(sig_kind, sig_live, sig_tape)
  PROVE  Signals!SaysWhatItSaw
<1>1. \A i : Signals!Seen(i) = SeenIn(sig_tape, i)
  BY DEF Signals!Seen, SeenIn
<1>2. \A i : Signals!Bars(i) = BarsIn(sig_kind, sig_tape, i)
  BY <1>1 DEF Signals!Bars, BarsIn
<1>3. \A i : Signals!BandTicks(i) = BandTicksIn(sig_kind, sig_tape, i)
  BY <1>2 DEF Signals!BandTicks, BandTicksIn
<1>4. \A i : Signals!WasBelow(i) <=> WasBelowIn(sig_kind, sig_tape, i)
  BY <1>2, <1>3 DEF Signals!WasBelow, WasBelowIn
<1>5. \A i : Signals!BookAt(i) = BookAtIn(sig_tape, i)
  BY DEF Signals!BookAt, BookAtIn, BooksIn
<1>6. \A b, w, wb, bk : Signals!Wants(b, w, wb, bk) = WantsOf(sig_kind, b, w, wb, bk)
  BY DEF Signals!Wants, WantsOf
<1>7. ASSUME NEW i PROVE Signals!WantedAt(i) = WantedIn(sig_kind, sig_tape, i)
  <2>1. Signals!WasBelow(i - 1) = WasBelowIn(sig_kind, sig_tape, i - 1)
    BY <1>2, <1>3 DEF Signals!WasBelow, WasBelowIn
  <2> QED BY <1>2, <1>5, <1>6, <2>1 DEF Signals!WantedAt, WantedIn
<1>8. \A i, s : Signals!QuietBefore(i, s) <=> QuietIn(sig_live, sig_tape, i, s)
  BY DEF Signals!QuietBefore, QuietIn
<1>9. (\A j \in DOMAIN sig_tape : Signals!Fits(sig_tape[j])) <=> AllFit(sig_kind, sig_tape)
  BY DEF Signals!Fits, FitsIn, AllFit
<1> DEFINE i == Len(sig_tape)
    able == {s \in Signals!WantedAt(i) : Signals!QuietBefore(i, s)}
<1>10. ASSUME NEW wants, NEW s
       PROVE  s \in {r \in wants : Signals!QuietBefore(i, r)}
                <=> s \in wants /\ QuietIn(sig_live, sig_tape, i, s)
  BY <1>8
<1>11. (IF "BUY" \in able THEN "BUY" ELSE IF "SELL" \in able THEN "SELL" ELSE "none")
       = Choice(WantedIn(sig_kind, sig_tape, i), QuietIn(sig_live, sig_tape, i, "BUY"),
                QuietIn(sig_live, sig_tape, i, "SELL"))
  <2>1. "BUY" \in able <=> "BUY" \in WantedIn(sig_kind, sig_tape, i)
                           /\ QuietIn(sig_live, sig_tape, i, "BUY")
    BY <1>7, <1>10
  <2>2. "SELL" \in able <=> "SELL" \in WantedIn(sig_kind, sig_tape, i)
                            /\ QuietIn(sig_live, sig_tape, i, "SELL")
    BY <1>7, <1>10
  <2> HIDE DEF able, i
  <2> QED BY <2>1, <2>2 DEF Choice
<1> QED BY <1>9, <1>11 DEF Signals!SaysWhatItSaw, SaysOK

\* the largest of a set of indices
LEMMA TopIs ==
  ASSUME NEW n \in Nat, NEW S \in SUBSET (1 .. n), S # {}
  PROVE  Signals!Max(S) \in S /\ (n \in S => Signals!Max(S) = n)
<1>1. Signals!Max(S) = Max(S)
  BY DEF Signals!Max, Max
<1>2. Max(S) \in S /\ \A y \in S : Max(S) >= y
  BY LargestExists
<1>3. Max(S) \in 1 .. n
  BY <1>2
<1>4. n \in S => Max(S) = n
  <2> SUFFICES ASSUME n \in S PROVE Max(S) = n
    OBVIOUS
  <2>1. Max(S) >= n
    BY <1>2
  <2> QED BY <1>3, <2>1
<1> QED BY <1>1, <1>2, <1>4

-----------------------------------------------------------------------------
(***************************************************************************)
(* What comes later changes nothing of what a tape said before.            *)
(***************************************************************************)
LEMMA BarsBegin ==
  ASSUME NEW k, NEW t, NEW u, Begins(t, u), NEW i \in 1 .. Len(t)
  PROVE  BarsIn(k, u, i) = BarsIn(k, t, i)
BY SeenBegins DEF BarsIn, Begins

LEMMA BandsBegin ==
  ASSUME NEW k, NEW t, NEW u, Begins(t, u), NEW i \in 0 .. Len(t)
  PROVE  BandTicksIn(k, u, i) = BandTicksIn(k, t, i) /\ WasBelowIn(k, u, i) = WasBelowIn(k, t, i)
<1>1. \A j \in 1 .. i : u[j] = t[j] /\ BarsIn(k, u, j) = BarsIn(k, t, j)
  BY BarsBegin DEF Begins
<1>2. BandTicksIn(k, u, i) = BandTicksIn(k, t, i)
  BY <1>1 DEF BandTicksIn
<1>3. CASE BandTicksIn(k, t, i) = {}
  BY <1>2, <1>3 DEF WasBelowIn
<1>4. CASE BandTicksIn(k, t, i) # {}
  <2> DEFINE S == BandTicksIn(k, t, i)
  <2>1. i \in Nat /\ S \in SUBSET (1 .. i)
    BY DEF BandTicksIn, Begins
  <2>2. Signals!Max(S) \in 1 .. i
    <3> HIDE DEF S
    <3>1. S # {}
      BY <1>4 DEF S
    <3> QED BY <2>1, <3>1, TopIs
  <2>3. BarsIn(k, u, Signals!Max(S)) = BarsIn(k, t, Signals!Max(S))
    BY <1>1, <2>2
  <2> QED BY <1>2, <2>3 DEF WasBelowIn
<1> QED BY <1>2, <1>3, <1>4

LEMMA BooksBegin ==
  ASSUME NEW t, NEW u, Begins(t, u), NEW i \in 0 .. Len(t)
  PROVE  BooksIn(u, i) = BooksIn(t, i) /\ BookAtIn(u, i) = BookAtIn(t, i)
<1>1. \A j \in 1 .. i : u[j] = t[j]
  BY DEF Begins
<1>2. BooksIn(u, i) = BooksIn(t, i)
  BY <1>1 DEF BooksIn
<1>3. CASE BooksIn(t, i) = {}
  BY <1>2, <1>3 DEF BookAtIn
<1>4. CASE BooksIn(t, i) # {}
  <2> DEFINE S == BooksIn(t, i)
  <2>1. i \in Nat /\ S \in SUBSET (1 .. i)
    BY DEF BooksIn, Begins
  <2>2. Signals!Max(S) \in 1 .. i
    <3> HIDE DEF S
    <3>1. S # {}
      BY <1>4 DEF S
    <3> QED BY <2>1, <3>1, TopIs
  <2> QED BY <1>1, <1>2, <2>2 DEF BookAtIn
<1> QED BY <1>2, <1>3, <1>4

\* ... nor what is no tick with bands, or no orderbook
LEMMA NoBandsSame ==
  ASSUME NEW k, NEW t, NEW n \in Nat, NEW m \in Nat, n <= m,
         \A j \in n + 1 .. m : j \notin BandTicksIn(k, t, m)
  PROVE  WasBelowIn(k, t, m) = WasBelowIn(k, t, n)
<1>1. BandTicksIn(k, t, m) = BandTicksIn(k, t, n)
  <2>1. \A j : j \in BandTicksIn(k, t, m) => j \in 1 .. n
    BY DEF BandTicksIn
  <2>2. \A j \in 1 .. n : j \in 1 .. m
    OBVIOUS
  <2>3. \A j \in 1 .. n : j \in BandTicksIn(k, t, m) <=> j \in BandTicksIn(k, t, n)
    BY <2>2 DEF BandTicksIn
  <2>4. \A j : j \in BandTicksIn(k, t, n) => j \in 1 .. n
    BY DEF BandTicksIn
  <2> QED BY <2>1, <2>3, <2>4
<1> QED BY <1>1 DEF WasBelowIn

LEMMA NoBooksSame ==
  ASSUME NEW t, NEW n \in Nat, NEW m \in Nat, n <= m,
         \A j \in n + 1 .. m : t[j].what # "book" \/ t[j].book = <<0, 0>>
  PROVE  BookAtIn(t, m) = BookAtIn(t, n)
<1>1. BooksIn(t, m) = BooksIn(t, n)
  <2>1. \A j : j \in BooksIn(t, m) => j \in 1 .. n
    BY DEF BooksIn
  <2>2. \A j \in 1 .. n : j \in 1 .. m
    OBVIOUS
  <2>3. \A j \in 1 .. n : j \in BooksIn(t, m) <=> j \in BooksIn(t, n)
    BY <2>2 DEF BooksIn
  <2>4. \A j : j \in BooksIn(t, n) => j \in 1 .. n
    BY DEF BooksIn
  <2> QED BY <2>1, <2>3, <2>4
<1> QED BY <1>1 DEF BookAtIn

-----------------------------------------------------------------------------
(***************************************************************************)
(* The inductive invariant: what a strategy keeps is what its tape says.   *)
(***************************************************************************)
SignalsTyped ==
  /\ Signals!TypeOK
  /\ sig_buffer \in Seq(SignalBars) /\ sig_capacity \in Nat
  /\ sig_ticks \in 0 .. sig_now
  /\ sig_tape \in Seq(TapeEntries)

\* a buffer is the last of what was seen, as many as it was made for
BufferIs(k, b, c, seen) ==
  IF k \in Signals!Buffered THEN b = Signals!Suffix(seen, c) /\ (c = 0 => seen = <<>>)
  ELSE b = seen

\* x is when side was last said
LastIs(t, x, side) ==
  IF x = Signals!Never THEN \A j \in 1 .. Len(t) : t[j].said # side
  ELSE /\ x \in Nat /\ \E j \in 1 .. Len(t) : t[j].said = side /\ t[j].at = x
       /\ \A j \in 1 .. Len(t) : t[j].said = side => t[j].at <= x

LastOK(t, lst, time) == \A s \in Signals!Sides : LastIs(t, lst[s], s) /\ lst[s] <= time

SignalsInv ==
  /\ SignalsTyped
  /\ BufferIs(sig_kind, sig_buffer, sig_capacity, SeenIn(sig_tape, Len(sig_tape)))
  /\ sig_kind = "mean_reversion" /\ AllFit(sig_kind, sig_tape) =>
       sig_below = WasBelowIn(sig_kind, sig_tape, Len(sig_tape))
  /\ sig_kind = "factor" => sig_book = BookAtIn(sig_tape, Len(sig_tape))
  /\ LastOK(sig_tape, sig_last, IF sig_live THEN sig_now ELSE sig_ticks)
  /\ SaysOK(sig_kind, sig_live, sig_tape)

LEMMA SuffixTypes ==
  ASSUME NEW T, NEW b \in Seq(T), NEW n \in Nat
  PROVE  Signals!Suffix(b, n) \in Seq(T) /\ Len(Signals!Suffix(b, n)) <= n
<1>1. LastOf(T, Signals!Suffix(b, n), b, Shorter(Len(b), n)) /\ Len(b) \in Nat
  BY SuffixIs
<1> QED BY <1>1 DEF LastOf, Shorter

LEMMA SuffixOfNone ==
  ASSUME NEW n \in Nat
  PROVE  Signals!Suffix(<<>>, n) = <<>>
BY DEF Signals!Suffix

LEMMA CapacityTypes ==
  ASSUME SignalsTyped
  PROVE  /\ Signals!Capacity \in Nat /\ sig_window \in Nat \ {0}
         /\ sig_kind \in Signals!Buffered => Signals!Capacity # 0
         /\ sig_kind \notin Signals!Buffered => Signals!Capacity = SignalTime
         /\ sig_capacity # 0 /\ sig_kind \in Signals!Buffered => Signals!Capacity = sig_capacity
<1>1. sig_window \in Nat \ {0} /\ SignalTime \in Nat /\ sig_capacity \in Nat
  BY SignalsAssumption DEF SignalsTyped, Signals!TypeOK
<1>2. Signals!MaxLen(sig_kind, sig_window) \in Nat \ {0}
  <2>1. Signals!MaxLen(sig_kind, sig_window) \in {sig_window + 1, sig_window + 2, sig_window}
    BY DEF Signals!MaxLen
  <2> QED BY <1>1, <2>1
<1> QED BY <1>1, <1>2 DEF Signals!Capacity

LEMMA PushedTypes ==
  ASSUME SignalsTyped, NEW bars \in Seq(SignalBars)
  PROVE  Signals!Pushed(bars) \in Seq(SignalBars) /\ Len(Signals!Pushed(bars)) <= Signals!Capacity
<1>1. sig_buffer \o bars \in Seq(SignalBars)
  BY DEF SignalsTyped
<1>2. Signals!Capacity \in Nat
  BY CapacityTypes
<1> QED BY <1>1, <1>2, SuffixTypes DEF Signals!Pushed

\* what is pushed is what was seen with it, as much as there is room for
LEMMA PushedIs ==
  ASSUME SignalsInv, NEW bars \in Seq(SignalBars),
         sig_kind \notin Signals!Buffered => Len(sig_tape) + Len(bars) <= SignalTime
  PROVE  LET seen == SeenIn(sig_tape, Len(sig_tape)) \o bars
         IN Signals!Pushed(bars) = IF sig_kind \in Signals!Buffered
                                   THEN Signals!Suffix(seen, Signals!Capacity) ELSE seen
<1> DEFINE s == SeenIn(sig_tape, Len(sig_tape))
<1>1. SignalsTyped /\ sig_tape \in Seq(TapeEntries) /\ sig_capacity \in Nat
  BY DEF SignalsInv, SignalsTyped
<1>2. Len(sig_tape) \in Nat /\ Len(sig_tape) \in 0 .. Len(sig_tape)
  BY <1>1
<1>3. s \in Seq(SignalBars) /\ Len(s) <= Len(sig_tape)
  BY <1>1, <1>2, SeenGrows
<1>4. BufferIs(sig_kind, sig_buffer, sig_capacity, s)
  BY DEF SignalsInv
<1>5. Signals!Capacity \in Nat
  BY <1>1, CapacityTypes
<1> HIDE DEF s
<1>6. CASE sig_kind \in Signals!Buffered
  <2>1. sig_buffer = Signals!Suffix(s, Signals!Capacity)
    <3>1. CASE sig_capacity = 0
      <4>1. s = <<>> /\ sig_buffer = Signals!Suffix(<<>>, 0)
        BY <1>4, <1>6, <3>1 DEF BufferIs
      <4>2. 0 \in Nat
        OBVIOUS
      <4>3. Signals!Suffix(<<>>, 0) = <<>>
        BY <4>2, SuffixOfNone
      <4> QED BY <1>5, <4>1, <4>3, SuffixOfNone
    <3>2. CASE sig_capacity # 0
      <4>1. Signals!Capacity = sig_capacity
        BY <1>1, <1>6, <3>2, CapacityTypes
      <4> QED BY <1>4, <1>6, <4>1 DEF BufferIs
    <3> QED BY <3>1, <3>2
  <2>2. Signals!Suffix(Signals!Suffix(s, Signals!Capacity) \o bars, Signals!Capacity)
        = Signals!Suffix(s \o bars, Signals!Capacity)
    BY <1>3, <1>5, SuffixTwice
  <2> QED BY <1>6, <2>1, <2>2 DEF Signals!Pushed, s
<1>7. CASE sig_kind \notin Signals!Buffered
  <2>1. sig_buffer = s /\ Signals!Capacity = SignalTime
    BY <1>1, <1>4, <1>7, CapacityTypes DEF BufferIs
  <2>2. s \o bars \in Seq(SignalBars) /\ Len(s \o bars) <= SignalTime
    <3>1. Len(s \o bars) = Len(s) + Len(bars) /\ Len(s) \in Nat /\ Len(bars) \in Nat
          /\ s \o bars \in Seq(SignalBars)
      BY <1>3
    <3> QED BY <1>2, <1>3, <1>7, <3>1, SignalsAssumption
  <2>3. Signals!Suffix(s \o bars, SignalTime) = s \o bars
    BY <2>2, SuffixOfAll
  <2> QED BY <1>7, <2>1, <2>3 DEF Signals!Pushed, s
<1> QED BY <1>6, <1>7

-----------------------------------------------------------------------------
(***************************************************************************)
(* An entry that a tick or an orderbook writes.                            *)
(***************************************************************************)
Written(what, p, v, bk, at, said) ==
  [Signals!Entry(what, p, v, bk) EXCEPT !.at = at, !.said = said]

HasFields(e, what, p, v, bk, at, said) ==
  /\ e.what = what /\ e.price = p /\ e.volume = v /\ e.book = bk /\ e.window = sig_window
  /\ e.size = Signals!Capacity /\ e.at = at /\ e.said = said

LEMMA WrittenIs ==
  ASSUME SignalsTyped, NEW what \in {"tick", "book", "daily"}, NEW p \in Numbers,
         NEW v \in Numbers, NEW bk \in Books \cup {Signals!Even}, NEW at \in Nat,
         NEW said \in Signals!Sides \cup {"none"}
  PROVE  /\ Written(what, p, v, bk, at, said) \in TapeEntries
         /\ HasFields(Written(what, p, v, bk, at, said), what, p, v, bk, at, said)
<1> DEFINE f == [what |-> what, price |-> p, volume |-> v, book |-> bk, window |-> sig_window,
                 size |-> Signals!Capacity, at |-> 0, said |-> "none"]
           g == [what |-> what, price |-> p, volume |-> v, book |-> bk, window |-> sig_window,
                 size |-> Signals!Capacity, at |-> at, said |-> "none"]
           h == [what |-> what, price |-> p, volume |-> v, book |-> bk, window |-> sig_window,
                 size |-> Signals!Capacity, at |-> at, said |-> said]
<1>1. Signals!Capacity \in Nat /\ sig_window \in Windows
  BY CapacityTypes DEF SignalsTyped, Signals!TypeOK
<1>2. Written(what, p, v, bk, at, said) = [[f EXCEPT !.at = at] EXCEPT !.said = said]
  BY DEF Written, Signals!Entry
<1>3. [f EXCEPT !.at = at] = g
  OBVIOUS
<1>4. [g EXCEPT !.said = said] = h
  OBVIOUS
<1>5. h \in TapeEntries /\ HasFields(h, what, p, v, bk, at, said)
  BY <1>1 DEF TapeEntries, HasFields
<1> HIDE DEF f, g, h
<1>6. Written(what, p, v, bk, at, said) = h
  BY <1>2, <1>3, <1>4
<1> QED BY <1>5, <1>6

LEMMA AppendBegins ==
  ASSUME NEW t \in Seq(TapeEntries), NEW e \in TapeEntries
  PROVE  /\ Begins(t, Append(t, e)) /\ Len(Append(t, e)) = Len(t) + 1
         /\ Append(t, e)[Len(t) + 1] = e
         /\ SeenIn(Append(t, e), Len(t) + 1) = SeenNext(SeenIn(t, Len(t)), e)
<1> DEFINE u == Append(t, e)
    n == Len(t)
<1>1. Begins(t, u) /\ Len(u) = n + 1 /\ u[n + 1] = e /\ n \in Nat
  BY DEF Begins
<1> HIDE DEF u, n
<1>2. u \in Seq(TapeEntries) /\ n + 1 \in 1 .. Len(u) /\ (n + 1) - 1 = n /\ n \in 0 .. n
  BY <1>1 DEF Begins
<1>3. SeenIn(u, n + 1) = SeenNext(SeenIn(u, n), e)
  BY <1>1, <1>2, SeenGrows
<1>4. SeenIn(u, n) = SeenIn(t, n)
  BY <1>1, <1>2, SeenBegins DEF n
<1> QED BY <1>1, <1>3, <1>4 DEF u, n

\* the cooldown is over exactly if the tape says so
LEMMA ReadyIsQuiet ==
  ASSUME NEW t \in Seq(TapeEntries), NEW e \in TapeEntries, NEW side,
         sig_last[side] \in Int, LastIs(t, sig_last[side], side), Cooldown \in Nat
  PROVE  Signals!Ready(side, e.at) <=> QuietIn(sig_live, Append(t, e), Len(t) + 1, side)
<1> DEFINE u == Append(t, e)
    n == Len(t)
    x == sig_last[side]
<1>1. /\ n \in Nat /\ u[n + 1] = e /\ (n + 1) - 1 = n
      /\ \A j \in 1 .. n : u[j] = t[j]
  BY AppendBegins DEF Begins
<1>2. e.at \in Nat /\ \A j \in 1 .. n : t[j].at \in Nat
  <2>1. \A f \in TapeEntries : f.at \in Nat
    BY DEF TapeEntries
  <2>2. \A j \in 1 .. n : t[j] \in TapeEntries
    OBVIOUS
  <2> QED BY <2>1, <2>2
<1>3. QuietIn(sig_live, u, n + 1, side)
        <=> /\ \A j \in 1 .. n : t[j].said = side => e.at - t[j].at >= Cooldown
            /\ sig_live /\ (\A j \in 1 .. n : t[j].said # side) => e.at >= Cooldown
  <2> HIDE DEF u, n
  <2> QED BY <1>1 DEF QuietIn
<1> HIDE DEF u
<1>4. CASE x = Signals!Never
  <2>1. \A j \in 1 .. n : t[j].said # side
    BY <1>4 DEF LastIs
  <2> HIDE DEF n
  <2>2. QuietIn(sig_live, u, n + 1, side) <=> (sig_live => e.at >= Cooldown)
    BY <1>3, <2>1
  <2>3. Signals!Ready(side, e.at) <=> (sig_live => e.at >= Cooldown)
    BY <1>4 DEF Signals!Ready
  <2> QED BY <2>2, <2>3 DEF u, n
<1>5. CASE x # Signals!Never
  <2>1. /\ x \in Nat /\ \E j \in 1 .. n : t[j].said = side /\ t[j].at = x
        /\ \A j \in 1 .. n : t[j].said = side => t[j].at <= x
    BY <1>5 DEF LastIs
  <2>2. Signals!Ready(side, e.at) <=> e.at - x >= Cooldown
    BY <1>5 DEF Signals!Ready
  <2> HIDE DEF n, x
  <2>3. CASE e.at - x >= Cooldown
    <3>1. ASSUME NEW j \in 1 .. n, t[j].said = side PROVE e.at - t[j].at >= Cooldown
      BY <1>2, <2>1, <2>3, <3>1
    <3>2. ~\A j \in 1 .. n : t[j].said # side
      BY <2>1
    <3>3. QuietIn(sig_live, u, n + 1, side)
      BY <1>3, <3>1, <3>2
    <3> QED BY <2>2, <2>3, <3>3 DEF u, n
  <2>4. CASE ~(e.at - x >= Cooldown)
    <3>1. PICK j \in 1 .. n : t[j].said = side /\ t[j].at = x
      BY <2>1
    <3>2. ~(e.at - t[j].at >= Cooldown)
      BY <2>4, <3>1
    <3>3. ~QuietIn(sig_live, u, n + 1, side)
      BY <1>3, <3>1, <3>2
    <3>4. ~Signals!Ready(side, e.at)
      BY <2>2, <2>4
    <3> QED BY <3>3, <3>4 DEF u, n
  <2> QED BY <2>3, <2>4
<1> QED BY <1>4, <1>5

LEMMA LastGrows ==
  ASSUME NEW t \in Seq(TapeEntries), NEW e \in TapeEntries, NEW side, NEW x \in Int,
         LastIs(t, x, side), x <= e.at
  PROVE  LastIs(Append(t, e), IF e.said = side THEN e.at ELSE x, side)
<1> DEFINE u == Append(t, e)
    n == Len(t)
<1>1. /\ n \in Nat /\ Len(u) = n + 1 /\ u[n + 1] = e
      /\ \A j \in 1 .. n : u[j] = t[j]
  BY AppendBegins DEF Begins
<1>2. e.at \in Nat /\ \A j \in 1 .. n : t[j].at \in Nat
  <2>1. \A f \in TapeEntries : f.at \in Nat
    BY DEF TapeEntries
  <2>2. \A j \in 1 .. n : t[j] \in TapeEntries
    OBVIOUS
  <2> QED BY <2>1, <2>2
<1>3. \A j \in 1 .. n + 1 : j \in 1 .. n \/ j = n + 1
  BY <1>1
<1>4. \A j \in 1 .. n : j \in 1 .. n + 1
  BY <1>1
<1>5. n + 1 \in 1 .. n + 1
  BY <1>1
<1> HIDE DEF u
<1>6. /\ x = Signals!Never => \A j \in 1 .. n : t[j].said # side
      /\ x # Signals!Never => /\ x \in Nat /\ \E j \in 1 .. n : t[j].said = side /\ t[j].at = x
                              /\ \A j \in 1 .. n : t[j].said = side => t[j].at <= x
  BY DEF LastIs
<1> HIDE DEF n
<1>7. CASE e.said = side
  <2>1. ASSUME NEW j \in 1 .. n + 1, u[j].said = side PROVE u[j].at <= e.at
    <3>1. CASE j = n + 1
      BY <1>1, <1>2, <3>1
    <3>2. CASE j \in 1 .. n
      <4>1. u[j] = t[j] /\ t[j].said = side
        BY <1>1, <2>1, <3>2
      <4>2. t[j].at <= x
        BY <1>6, <3>2, <4>1
      <4> QED BY <1>2, <3>2, <4>1, <4>2
    <3> QED BY <1>3, <3>1, <3>2
  <2>2. e.at # Signals!Never
    BY <1>2 DEF Signals!Never
  <2>3. \E j \in 1 .. n + 1 : u[j].said = side /\ u[j].at = e.at
    BY <1>1, <1>5, <1>7
  <2>4. LastIs(u, e.at, side)
    BY <1>1, <1>2, <2>1, <2>2, <2>3 DEF LastIs
  <2> QED BY <1>7, <2>4 DEF u
<1>8. CASE e.said # side
  <2>1. ASSUME NEW j \in 1 .. n + 1, u[j].said = side PROVE j \in 1 .. n /\ t[j].said = side
    BY <1>1, <1>3, <1>8, <2>1
  <2>2. CASE x = Signals!Never
    <3>1. \A j \in 1 .. n + 1 : u[j].said # side
      BY <1>6, <2>1, <2>2
    <3>2. LastIs(u, x, side)
      BY <1>1, <2>2, <3>1 DEF LastIs
    <3> QED BY <1>8, <3>2 DEF u
  <2>3. CASE x # Signals!Never
    <3>1. x \in Nat /\ \E j \in 1 .. n + 1 : u[j].said = side /\ u[j].at = x
      BY <1>1, <1>4, <1>6, <2>3
    <3>2. \A j \in 1 .. n + 1 : u[j].said = side => u[j].at <= x
      BY <1>1, <1>6, <2>1, <2>3
    <3>3. LastIs(u, x, side)
      BY <1>1, <2>3, <3>1, <3>2 DEF LastIs
    <3> QED BY <1>8, <3>3 DEF u
  <2> QED BY <2>2, <2>3
<1> QED BY <1>7, <1>8

LEMMA LastLater ==
  ASSUME NEW t, NEW lst, NEW s \in Int, NEW r \in Int, s <= r,
         \A side \in Signals!Sides : lst[side] \in Int, LastOK(t, lst, s)
  PROVE  LastOK(t, lst, r)
BY DEF LastOK

\* a tick or an orderbook adds an entry, which says what was wanted
WritesOne(what, p, v, bk, wants) ==
  \E e \in TapeEntries :
    /\ sig_tape' = Append(sig_tape, e)
    /\ e.what = what /\ e.price = p /\ e.volume = v /\ e.book = bk
    /\ e.window = sig_window /\ e.size = Signals!Capacity
    /\ e.said = Choice(wants, QuietIn(sig_live, sig_tape', Len(sig_tape) + 1, "BUY"),
                       QuietIn(sig_live, sig_tape', Len(sig_tape) + 1, "SELL"))

\* what a signal, or the lack of one, leaves
LEMMA SignalMeans ==
  ASSUME SignalsInv, NEW wants, NEW at \in Nat, at <= Cooldown + SignalTime,
         (IF sig_live THEN sig_now ELSE sig_ticks) <= at,
         NEW what \in {"tick", "book", "daily"}, NEW p \in Numbers, NEW v \in Numbers,
         NEW bk \in Books \cup {Signals!Even},
         Signals!Signal(wants, at, Signals!Entry(what, p, v, bk))
  PROVE  /\ sig_last' \in [Signals!Sides -> -1 .. Cooldown + SignalTime]
         /\ LastOK(sig_tape', sig_last', at)
         /\ WritesOne(what, p, v, bk, wants)
<1> DEFINE said == Signals!Said(wants, at)
    e == Written(what, p, v, bk, at, said)
    time == IF sig_live THEN sig_now ELSE sig_ticks
<1>1. /\ SignalsTyped /\ sig_tape \in Seq(TapeEntries)
      /\ sig_last \in [Signals!Sides -> -1 .. Cooldown + SignalTime]
      /\ Cooldown \in Nat /\ SignalTime \in Nat /\ time \in Int /\ time <= at
      /\ LastOK(sig_tape, sig_last, time)
  BY SignalsAssumption DEF SignalsInv, SignalsTyped, Signals!TypeOK
<1>2. said \in Signals!Sides \cup {"none"}
  BY DEF Signals!Said, Signals!Sides
<1>3. /\ sig_last' = IF said = "none" THEN sig_last ELSE [sig_last EXCEPT ![said] = at]
      /\ sig_tape' = Append(sig_tape, e)
  BY DEF Signals!Signal, Written
<1> HIDE DEF said
<1>4. e \in TapeEntries /\ HasFields(e, what, p, v, bk, at, said)
  BY <1>1, <1>2, WrittenIs
<1> HIDE DEF e, time
<1>5. /\ e.what = what /\ e.price = p /\ e.volume = v /\ e.book = bk /\ e.window = sig_window
      /\ e.size = Signals!Capacity /\ e.at = at /\ e.said = said
  BY <1>4 DEF HasFields
<1>6. ASSUME NEW s \in Signals!Sides
      PROVE  sig_last[s] \in Int /\ LastIs(sig_tape, sig_last[s], s) /\ sig_last[s] <= time
  BY <1>1 DEF LastOK
<1>7. at \in -1 .. Cooldown + SignalTime
  BY <1>1
<1>8. sig_last' \in [Signals!Sides -> -1 .. Cooldown + SignalTime]
  BY <1>1, <1>2, <1>3, <1>7
<1>9. ASSUME NEW s \in Signals!Sides
      PROVE  LastIs(sig_tape', sig_last'[s], s) /\ sig_last'[s] <= at
  <2>1. sig_last'[s] = IF e.said = s THEN e.at ELSE sig_last[s]
    <3>1. s # "none"
      BY DEF Signals!Sides
    <3> QED BY <1>1, <1>2, <1>3, <1>5, <3>1
  <2>2. sig_last[s] <= e.at
    BY <1>1, <1>5, <1>6
  <2>3. LastIs(Append(sig_tape, e), IF e.said = s THEN e.at ELSE sig_last[s], s)
    BY <1>1, <1>4, <1>6, <2>2, LastGrows
  <2> QED BY <1>3, <1>5, <2>1, <2>2, <2>3
<1>10. LastOK(sig_tape', sig_last', at)
  BY <1>9 DEF LastOK
<1>11. ASSUME NEW s \in Signals!Sides
       PROVE  Signals!Ready(s, at) <=> QuietIn(sig_live, sig_tape', Len(sig_tape) + 1, s)
  <2>1. Signals!Ready(s, e.at) <=> QuietIn(sig_live, Append(sig_tape, e), Len(sig_tape) + 1, s)
    BY <1>1, <1>4, <1>6, ReadyIsQuiet
  <2> QED BY <1>3, <1>5, <2>1
<1>12. said = Choice(wants, QuietIn(sig_live, sig_tape', Len(sig_tape) + 1, "BUY"),
                     QuietIn(sig_live, sig_tape', Len(sig_tape) + 1, "SELL"))
  <2>1. Signals!Ready("BUY", at) <=> QuietIn(sig_live, sig_tape', Len(sig_tape) + 1, "BUY")
    BY <1>11 DEF Signals!Sides
  <2>2. Signals!Ready("SELL", at) <=> QuietIn(sig_live, sig_tape', Len(sig_tape) + 1, "SELL")
    BY <1>11 DEF Signals!Sides
  <2> QED BY <2>1, <2>2 DEF said, Signals!Said, Choice
<1> QED BY <1>3, <1>4, <1>5, <1>8, <1>10, <1>12 DEF WritesOne

\* a strategy whose buffer is too short for its window is silent
LEMMA TooShortIsSilent ==
  ASSUME NEW k \in Signals!Buffered, NEW b \in Seq(SignalBars), NEW w \in Nat, Len(b) < w,
         NEW wb, NEW bk
  PROVE  WantsOf(k, b, w, wb, bk) = {}
<1>1. Len(b) \in Nat /\ Len(b) < w + 1 /\ ~Signals!HasBands(b, w)
  BY DEF Signals!HasBands
<1>2. k \in {"ma_cross", "bollinger", "rsi", "momentum", "mean_reversion", "factor"}
  BY DEF Signals!Buffered, Signals!Kinds
<1> QED BY <1>1, <1>2 DEF WantsOf, Signals!MACrossWants, Signals!BollingerWants,
      Signals!RSIWants, Signals!MomentumWants, Signals!MeanReversionWants, Signals!FactorWants

Bar(p, v) == [price |-> p, volume |-> v]

LEMMA BarTypes ==
  ASSUME NEW p \in Prices, NEW v \in Volumes \cup {0}
  PROVE  p \in Numbers /\ v \in Numbers /\ <<Bar(p, v)>> \in Seq(SignalBars) /\ Len(<<Bar(p, v)>>) = 1
<1>1. p \in Numbers /\ v \in Numbers
  BY DEF Numbers
<1>2. Bar(p, v) \in SignalBars
  BY <1>1 DEF Bar, SignalBars
<1> QED BY <1>1, <1>2

LEMMA AppendIsConcat ==
  ASSUME NEW T, NEW s \in Seq(T), NEW x \in T
  PROVE  Append(s, x) = s \o <<x>>
<1>1. Append(s, x) \in Seq(T) /\ s \o <<x>> \in Seq(T)
      /\ Len(Append(s, x)) = Len(s) + 1 /\ Len(s \o <<x>>) = Len(s) + 1
  OBVIOUS
<1>2. \A i \in 1 .. Len(s) + 1 : Append(s, x)[i] = (s \o <<x>>)[i]
  OBVIOUS
<1> QED BY <1>1, <1>2, SameSequence

LEMMA WantsIs ==
  \A b, w, wb, bk : Signals!Wants(b, w, wb, bk) = WantsOf(sig_kind, b, w, wb, bk)
BY DEF Signals!Wants, WantsOf

\* only mean_reversion asks below, and only factor the orderbook
LEMMA WantsAsks ==
  ASSUME NEW k, NEW b, NEW w, NEW wb, NEW bk, NEW wb1, NEW bk1,
         k = "mean_reversion" => wb = wb1, k = "factor" => bk = bk1
  PROVE  WantsOf(k, b, w, wb, bk) = WantsOf(k, b, w, wb1, bk1)
BY DEF WantsOf

\* what a tick finds in the buffers is what its entry's strategy should have seen
LEMMA TickBars ==
  ASSUME NEW k, NEW t \in Seq(TapeEntries), NEW e \in TapeEntries, NEW b, NEW seen,
         SeenIn(Append(t, e), Len(t) + 1) = seen, FitsIn(k, e),
         b = IF k \in Signals!Buffered THEN Signals!Suffix(seen, e.size) ELSE seen
  PROVE  BarsIn(k, Append(t, e), Len(t) + 1) = b
<1>1. Append(t, e)[Len(t) + 1] = e
  BY AppendBegins
<1> QED BY <1>1 DEF BarsIn, FitsIn

LEMMA FitsBegin ==
  ASSUME NEW k, NEW t \in Seq(TapeEntries), NEW e \in TapeEntries, AllFit(k, Append(t, e))
  PROVE  AllFit(k, t) /\ FitsIn(k, e)
<1> DEFINE u == Append(t, e)
<1>1. /\ Len(t) \in Nat /\ Len(u) = Len(t) + 1 /\ u[Len(t) + 1] = e
      /\ \A j \in 1 .. Len(t) : u[j] = t[j]
  BY AppendBegins DEF Begins
<1>2. \A j \in 1 .. Len(u) : FitsIn(k, u[j])
  BY DEF AllFit
<1> HIDE DEF u
<1>3. \A j \in 1 .. Len(t) : j \in 1 .. Len(u)
  BY <1>1
<1>4. Len(t) + 1 \in 1 .. Len(u)
  BY <1>1
<1> QED BY <1>1, <1>2, <1>3, <1>4 DEF AllFit

\* a tick changes what mean_reversion remembers if there are bands
LEMMA TickBelow ==
  ASSUME NEW k, NEW t \in Seq(TapeEntries), NEW e \in TapeEntries, e.what = "tick", NEW b,
         BarsIn(k, Append(t, e), Len(t) + 1) = b
  PROVE  WasBelowIn(k, Append(t, e), Len(t) + 1)
           = IF Signals!HasBands(b, e.window) THEN Signals!BelowBand(b)
             ELSE WasBelowIn(k, t, Len(t))
<1> DEFINE u == Append(t, e)
    n == Len(t)
    S == BandTicksIn(k, u, n + 1)
<1>1. Begins(t, u) /\ n \in Nat /\ u[n + 1] = e /\ n + 1 \in 1 .. n + 1 /\ n \in 0 .. n
  BY AppendBegins DEF Begins
<1>2. S \in SUBSET (1 .. n + 1)
  BY DEF BandTicksIn
<1>3. n + 1 \in S <=> Signals!HasBands(b, e.window)
  BY <1>1 DEF BandTicksIn
<1> HIDE DEF S, u, n
<1>4. CASE Signals!HasBands(b, e.window)
  <2>1. S # {} /\ n + 1 \in S /\ n + 1 \in Nat
    BY <1>1, <1>3, <1>4
  <2>2. Signals!Max(S) = n + 1
    BY <1>2, <2>1, TopIs
  <2>3. BarsIn(k, u, n + 1) = b
    BY DEF u, n
  <2>4. WasBelowIn(k, u, n + 1) = (S # {} /\ Signals!BelowBand(BarsIn(k, u, Signals!Max(S))))
    BY DEF WasBelowIn, S
  <2>5. WasBelowIn(k, u, n + 1) = Signals!BelowBand(b)
    BY <2>1, <2>2, <2>3, <2>4 DEF Signals!BelowBand
  <2> QED BY <1>4, <2>5 DEF u, n
<1>5. CASE ~Signals!HasBands(b, e.window)
  <2>1. \A j \in n + 1 .. n + 1 : j \notin BandTicksIn(k, u, n + 1)
    BY <1>1, <1>3, <1>5 DEF S
  <2>2. n + 1 \in Nat /\ n <= n + 1
    BY <1>1
  <2>3. WasBelowIn(k, u, n + 1) = WasBelowIn(k, u, n)
    BY <1>1, <2>1, <2>2, NoBandsSame
  <2>4. WasBelowIn(k, u, n) = WasBelowIn(k, t, n)
    BY <1>1, BandsBegin DEF n
  <2> QED BY <1>5, <2>3, <2>4 DEF u, n
<1> QED BY <1>4, <1>5

\* and nothing of the orderbook it remembers
LEMMA TickBook ==
  ASSUME NEW t \in Seq(TapeEntries), NEW e \in TapeEntries,
         e.what # "book" \/ e.book = <<0, 0>>
  PROVE  BookAtIn(Append(t, e), Len(t) + 1) = BookAtIn(t, Len(t))
<1> DEFINE u == Append(t, e)
    n == Len(t)
<1>1. Begins(t, u) /\ n \in Nat /\ u[n + 1] = e /\ n \in 0 .. n
  BY AppendBegins DEF Begins
<1> HIDE DEF u, n
<1>2. \A j \in n + 1 .. n + 1 : u[j].what # "book" \/ u[j].book = <<0, 0>>
  BY <1>1
<1>3. n + 1 \in Nat /\ n <= n + 1
  BY <1>1
<1>4. BookAtIn(u, n + 1) = BookAtIn(u, n)
  BY <1>1, <1>2, <1>3, NoBooksSame
<1>5. BookAtIn(u, n) = BookAtIn(t, n)
  BY <1>1, BooksBegin DEF n
<1> QED BY <1>4, <1>5 DEF u, n

LEMMA NewBook ==
  ASSUME NEW t \in Seq(TapeEntries), NEW e \in TapeEntries, e.what = "book", e.book # <<0, 0>>
  PROVE  BookAtIn(Append(t, e), Len(t) + 1) = e.book
<1> DEFINE u == Append(t, e)
    n == Len(t)
    S == BooksIn(u, n + 1)
<1>1. n \in Nat /\ u[n + 1] = e /\ n + 1 \in 1 .. n + 1 /\ n + 1 \in Nat
  BY AppendBegins DEF Begins
<1>2. S \in SUBSET (1 .. n + 1)
  BY DEF BooksIn
<1>3. n + 1 \in S /\ S # {}
  BY <1>1 DEF BooksIn
<1> HIDE DEF S, u, n
<1>4. Signals!Max(S) = n + 1
  BY <1>1, <1>2, <1>3, TopIs
<1>5. BookAtIn(u, n + 1) = e.book
  BY <1>1, <1>3, <1>4 DEF BookAtIn, S
<1> QED BY <1>5 DEF u, n

-----------------------------------------------------------------------------
(***************************************************************************)
(* StrategySignals: the steps.                                             *)
(***************************************************************************)
LEMMA TickSteps ==
  ASSUME SignalsInv, NEW p \in Prices, NEW v \in Volumes \cup {0}, Signals!Tick(p, v)
  PROVE  SignalsInv'
<1> DEFINE k == sig_kind
    t == sig_tape
    n == Len(sig_tape)
    b == Signals!Pushed(<<Bar(p, v)>>)
    at == IF sig_live THEN sig_now ELSE sig_ticks + 1
    wants == Signals!Wants(b, sig_window, sig_below, sig_book)
    seen == SeenIn(sig_tape, Len(sig_tape)) \o <<Bar(p, v)>>
<1>0. /\ SignalsTyped /\ Signals!TypeOK /\ sig_tape \in Seq(TapeEntries)
      /\ sig_ticks \in 0 .. sig_now /\ sig_now \in 0 .. Cooldown + SignalTime
      /\ Cooldown \in Nat /\ SignalTime \in Nat /\ sig_capacity \in Nat
      /\ sig_live \in BOOLEAN /\ sig_window \in Windows /\ sig_below \in BOOLEAN
      /\ sig_book \in Books \cup {Signals!Even} /\ n \in Nat
      /\ sig_kind \in Signals!Kinds /\ sig_enabled \in BOOLEAN
      /\ sig_last \in [Signals!Sides -> -1 .. Cooldown + SignalTime]
      /\ LastOK(t, sig_last, IF sig_live THEN sig_now ELSE sig_ticks)
  BY SignalsAssumption DEF SignalsInv, SignalsTyped, Signals!TypeOK
<1>1. /\ sig_now < Cooldown + SignalTime /\ sig_now' = sig_now + 1 /\ n < SignalTime
      /\ sig_ticks' = sig_ticks + 1 /\ sig_capacity' = Signals!Capacity /\ sig_buffer' = b
      /\ sig_below' = IF k = "mean_reversion" /\ Signals!HasBands(b, sig_window)
                      THEN Signals!BelowBand(b) ELSE sig_below
      /\ Signals!Signal(wants, at, Signals!Entry("tick", p, v, sig_book))
      /\ UNCHANGED <<sig_kind, sig_live, sig_enabled, sig_window, sig_book>>
  <2>1. /\ sig_now < Cooldown + SignalTime /\ sig_now' = sig_now + 1 /\ n < SignalTime
        /\ sig_ticks' = sig_ticks + 1 /\ sig_capacity' = Signals!Capacity /\ sig_buffer' = b
        /\ sig_below' = IF k = "mean_reversion" /\ Signals!HasBands(b, sig_window)
                        THEN Signals!BelowBand(b) ELSE sig_below
        /\ UNCHANGED <<sig_kind, sig_live, sig_enabled, sig_window, sig_book>>
    BY DEF Signals!Tick, Signals!Clock, Bar
  <2>2. Signals!Signal(wants, IF sig_live THEN sig_now ELSE sig_ticks',
                       Signals!Entry("tick", p, v, sig_book))
    BY DEF Signals!Tick, Bar
  <2>3. (IF sig_live THEN sig_now ELSE sig_ticks') = at
    BY <2>1
  <2> QED BY <2>1, <2>2, <2>3
<1>2. p \in Numbers /\ v \in Numbers /\ <<Bar(p, v)>> \in Seq(SignalBars) /\ Len(<<Bar(p, v)>>) = 1
  BY BarTypes
<1>3. b \in Seq(SignalBars) /\ Len(b) <= Signals!Capacity /\ Signals!Capacity \in Nat
      /\ sig_window \in Nat
  <2>1. \A bars \in Seq(SignalBars) : Signals!Pushed(bars) \in Seq(SignalBars)
                                      /\ Len(Signals!Pushed(bars)) <= Signals!Capacity
    BY <1>0, PushedTypes
  <2> QED BY <1>0, <1>2, <2>1, CapacityTypes
<1>4. b = IF k \in Signals!Buffered THEN Signals!Suffix(seen, Signals!Capacity) ELSE seen
  <2>1. n + Len(<<Bar(p, v)>>) <= SignalTime
    BY <1>0, <1>1, <1>2
  <2> HIDE DEF b, seen
  <2> QED BY <1>2, <2>1, PushedIs DEF b, seen
<1> HIDE DEF b, at, wants, seen
<1>5. /\ at \in Nat /\ at <= Cooldown + SignalTime
      /\ (IF sig_live THEN sig_now ELSE sig_ticks) <= at
      /\ at <= IF sig_live' THEN sig_now' ELSE sig_ticks'
      /\ sig_now' \in 0 .. Cooldown + SignalTime /\ sig_ticks' \in 0 .. sig_now'
  BY <1>0, <1>1 DEF at
<1>6. "tick" \in {"tick", "book", "daily"}
  OBVIOUS
<1>7. /\ sig_last' \in [Signals!Sides -> -1 .. Cooldown + SignalTime]
      /\ LastOK(sig_tape', sig_last', at)
      /\ WritesOne("tick", p, v, sig_book, wants)
  BY <1>0, <1>1, <1>2, <1>5, <1>6, SignalMeans
<1>8. PICK e \in TapeEntries :
        /\ sig_tape' = Append(sig_tape, e)
        /\ e.what = "tick" /\ e.price = p /\ e.volume = v /\ e.book = sig_book
        /\ e.window = sig_window /\ e.size = Signals!Capacity
        /\ e.said = Choice(wants, QuietIn(sig_live, sig_tape', Len(sig_tape) + 1, "BUY"),
                           QuietIn(sig_live, sig_tape', Len(sig_tape) + 1, "SELL"))
  BY <1>7 DEF WritesOne
<1> DEFINE u == Append(t, e)
<1>9. /\ Begins(t, u) /\ Len(u) = n + 1 /\ u[n + 1] = e
      /\ SeenIn(u, n + 1) = SeenNext(SeenIn(t, n), e)
  BY <1>0, AppendBegins
<1>10. sig_tape' = u /\ u \in Seq(TapeEntries) /\ (n + 1) - 1 = n /\ n \in 0 .. n
  BY <1>0, <1>8, <1>9 DEF Begins
<1>11. SeenIn(u, n + 1) = seen
  <2>1. SeenNext(SeenIn(t, n), e) = Append(SeenIn(t, n), Bar(p, v))
    BY <1>8 DEF SeenNext, BarOf, Bar
  <2>2. SeenIn(t, n) \in Seq(SignalBars)
    BY <1>0, <1>10, SeenGrows
  <2>3. Bar(p, v) \in SignalBars
    BY <1>2 DEF Bar, SignalBars
  <2>4. Append(SeenIn(t, n), Bar(p, v)) = SeenIn(t, n) \o <<Bar(p, v)>>
    BY <2>2, <2>3, AppendIsConcat
  <2> QED BY <1>9, <2>1, <2>4 DEF seen
<1> HIDE DEF u
<1>12. SignalsTyped'
  <2>1. sig_below' \in BOOLEAN
    BY <1>0, <1>1 DEF Signals!BelowBand
  <2>2. Signals!TypeOK'
    BY <1>0, <1>1, <1>3, <1>5, <1>7, <2>1 DEF Signals!TypeOK
  <2> QED BY <1>1, <1>3, <1>5, <1>10, <2>2 DEF SignalsTyped
<1>13. BufferIs(k, sig_buffer', sig_capacity', SeenIn(u, Len(u)))
  <2>1. k \in Signals!Buffered => Signals!Capacity # 0
    BY <1>0, CapacityTypes
  <2> QED BY <1>1, <1>4, <1>9, <1>11, <2>1 DEF BufferIs
<1>14. ASSUME AllFit(k, u) PROVE AllFit(k, t) /\ FitsIn(k, e) /\ BarsIn(k, u, n + 1) = b
  <2>1. AllFit(k, t) /\ FitsIn(k, e)
    BY <1>0, <1>14, FitsBegin DEF u
  <2>2. SeenIn(Append(t, e), Len(t) + 1) = seen
    BY <1>11 DEF u
  <2>3. b = IF k \in Signals!Buffered THEN Signals!Suffix(seen, e.size) ELSE seen
    BY <1>4, <1>8
  <2>4. BarsIn(k, Append(t, e), Len(t) + 1) = b
    BY <1>0, <2>1, <2>2, <2>3, TickBars
  <2> QED BY <2>1, <2>4 DEF u
<1>15. ASSUME k = "mean_reversion", AllFit(k, u) PROVE sig_below' = WasBelowIn(k, u, n + 1)
  <2>1. BarsIn(k, Append(t, e), Len(t) + 1) = b
    BY <1>14, <1>15 DEF u
  <2>2. WasBelowIn(k, Append(t, e), Len(t) + 1)
           = IF Signals!HasBands(b, e.window) THEN Signals!BelowBand(b)
             ELSE WasBelowIn(k, t, Len(t))
    BY <1>0, <1>8, <2>1, TickBelow
  <2>3. sig_below = WasBelowIn(k, t, Len(t))
    BY <1>14, <1>15 DEF SignalsInv
  <2> QED BY <1>1, <1>8, <1>15, <2>2, <2>3 DEF u
<1>16. k = "factor" => sig_book' = BookAtIn(u, n + 1)
  <2>1. BookAtIn(Append(t, e), Len(t) + 1) = BookAtIn(t, Len(t))
    BY <1>0, <1>8, TickBook
  <2> QED BY <1>1, <2>1 DEF u, SignalsInv
<1>17. AllFit(k, u) => WantedIn(k, u, n + 1) = wants
  <2> SUFFICES ASSUME AllFit(k, u) PROVE WantedIn(k, u, n + 1) = wants
    OBVIOUS
  <2>1. BarsIn(k, u, n + 1) = b /\ AllFit(k, t)
    BY <1>14
  <2>2. WantedIn(k, u, n + 1)
        = WantsOf(k, b, sig_window, WasBelowIn(k, u, n), BookAtIn(u, n + 1))
    BY <1>8, <1>9, <1>10, <2>1 DEF WantedIn
  <2>3. k = "mean_reversion" => WasBelowIn(k, u, n) = sig_below
    <3>1. WasBelowIn(k, u, n) = WasBelowIn(k, t, n)
      BY <1>9, <1>10, BandsBegin
    <3> QED BY <2>1, <3>1 DEF SignalsInv
  <2>4. k = "factor" => BookAtIn(u, n + 1) = sig_book
    BY <1>1, <1>16
  <2>5. WantsOf(k, b, sig_window, WasBelowIn(k, u, n), BookAtIn(u, n + 1))
        = WantsOf(k, b, sig_window, sig_below, sig_book)
    BY <2>3, <2>4, WantsAsks
  <2> QED BY <2>2, <2>5, WantsIs DEF wants
<1>18. SaysOK(k, sig_live, u)
  <2>1. AllFit(k, u) =>
          e.said = Choice(WantedIn(k, u, n + 1), QuietIn(sig_live, u, n + 1, "BUY"),
                          QuietIn(sig_live, u, n + 1, "SELL"))
    BY <1>8, <1>10, <1>17
  <2>2. ASSUME k \in Signals!Buffered, e.size < e.window PROVE e.said = "none"
    <3>1. Len(b) < sig_window
      BY <1>3, <1>8, <2>2
    <3>2. WantsOf(k, b, sig_window, sig_below, sig_book) = {}
      BY <1>3, <2>2, <3>1, TooShortIsSilent
    <3>3. wants = {}
      BY <3>2, WantsIs DEF wants
    <3> QED BY <1>8, <3>3 DEF Choice
  <2> QED BY <1>9, <2>1, <2>2 DEF SaysOK
<1>19. LastOK(u, sig_last', IF sig_live' THEN sig_now' ELSE sig_ticks')
  <2> DEFINE r == IF sig_live' THEN sig_now' ELSE sig_ticks'
  <2>1. at \in Int /\ r \in Int /\ at <= r /\ \A s \in Signals!Sides : sig_last'[s] \in Int
    BY <1>5, <1>7
  <2> HIDE DEF r
  <2>2. LastOK(u, sig_last', r)
    BY <1>7, <1>10, <2>1, LastLater
  <2> QED BY <2>2 DEF r
<1> QED
  <2>1. Len(u) = n + 1 /\ sig_kind' = k /\ sig_live' = sig_live /\ sig_tape' = u
    BY <1>1, <1>9, <1>10
  <2> HIDE DEF k, t, n
  <2> QED BY <1>12, <1>13, <1>15, <1>16, <1>18, <1>19, <2>1 DEF SignalsInv

LEMMA BookSteps ==
  ASSUME SignalsInv, NEW bk \in Books, Signals!Book(bk)
  PROVE  SignalsInv'
<1> DEFINE k == sig_kind
    t == sig_tape
    n == Len(sig_tape)
    wants == IF sig_kind = "orderbook" THEN Signals!OrderbookWants(bk) ELSE {}
<1>0. /\ SignalsTyped /\ Signals!TypeOK /\ sig_tape \in Seq(TapeEntries)
      /\ sig_ticks \in 0 .. sig_now /\ sig_now \in 0 .. Cooldown + SignalTime
      /\ Cooldown \in Nat /\ SignalTime \in Nat /\ sig_capacity \in Nat
      /\ sig_book \in Books \cup {Signals!Even} /\ n \in Nat
      /\ sig_last \in [Signals!Sides -> -1 .. Cooldown + SignalTime]
  BY SignalsAssumption DEF SignalsInv, SignalsTyped, Signals!TypeOK
<1>1. /\ sig_live = TRUE /\ k \in Signals!ReadsBook
      /\ sig_now < Cooldown + SignalTime /\ sig_now' = sig_now + 1
      /\ sig_book' = IF k = "factor" /\ bk[1] + bk[2] > 0 THEN bk ELSE sig_book
      /\ Signals!Signal(wants, sig_now, Signals!Entry("book", 0, 0, bk))
      /\ UNCHANGED <<sig_kind, sig_live, sig_enabled, sig_window, sig_capacity, sig_buffer,
                     sig_below, sig_ticks>>
  <2>1. sig_live \in BOOLEAN
    BY <1>0 DEF Signals!TypeOK
  <2> QED BY <2>1 DEF Signals!Book, Signals!Clock
<1> HIDE DEF wants
<1>2. 0 \in Numbers /\ "book" \in {"tick", "book", "daily"} /\ bk \in Books \cup {Signals!Even}
  BY DEF Numbers
<1>3. /\ sig_now \in Nat /\ sig_now <= Cooldown + SignalTime
      /\ (IF sig_live THEN sig_now ELSE sig_ticks) <= sig_now
      /\ sig_now <= IF sig_live' THEN sig_now' ELSE sig_ticks'
      /\ sig_now' \in 0 .. Cooldown + SignalTime /\ sig_ticks' \in 0 .. sig_now'
  BY <1>0, <1>1
<1>4. /\ sig_last' \in [Signals!Sides -> -1 .. Cooldown + SignalTime]
      /\ LastOK(sig_tape', sig_last', sig_now)
      /\ WritesOne("book", 0, 0, bk, wants)
  BY <1>1, <1>2, <1>3, SignalMeans
<1>5. PICK e \in TapeEntries :
        /\ sig_tape' = Append(sig_tape, e)
        /\ e.what = "book" /\ e.price = 0 /\ e.volume = 0 /\ e.book = bk
        /\ e.window = sig_window /\ e.size = Signals!Capacity
        /\ e.said = Choice(wants, QuietIn(sig_live, sig_tape', Len(sig_tape) + 1, "BUY"),
                           QuietIn(sig_live, sig_tape', Len(sig_tape) + 1, "SELL"))
  BY <1>4 DEF WritesOne
<1> DEFINE u == Append(t, e)
<1>6. /\ Begins(t, u) /\ Len(u) = n + 1 /\ u[n + 1] = e
      /\ SeenIn(u, n + 1) = SeenNext(SeenIn(t, n), e)
  BY <1>0, AppendBegins
<1>7. sig_tape' = u /\ u \in Seq(TapeEntries)
  BY <1>5, <1>6 DEF Begins
<1>8. SeenIn(u, n + 1) = SeenIn(t, n)
  BY <1>5, <1>6 DEF SeenNext
<1>9. bk[1] + bk[2] > 0 <=> bk # <<0, 0>>
  <2>1. bk \in Nat \X Nat
    BY SignalsAssumption
  <2> QED BY <2>1
<1> HIDE DEF u
<1>10. SignalsTyped'
  <2>1. Signals!TypeOK'
    BY <1>0, <1>1, <1>3, <1>4 DEF Signals!TypeOK
  <2> QED BY <1>0, <1>1, <1>3, <1>7, <2>1 DEF SignalsTyped
<1>11. BufferIs(k, sig_buffer', sig_capacity', SeenIn(u, Len(u)))
  BY <1>1, <1>6, <1>8 DEF SignalsInv
<1>12. k # "mean_reversion"
  BY <1>1 DEF Signals!ReadsBook
<1>13. ASSUME k = "factor" PROVE sig_book' = BookAtIn(u, n + 1)
  <2>1. CASE bk = <<0, 0>>
    <3>1. BookAtIn(Append(t, e), Len(t) + 1) = BookAtIn(t, Len(t))
      BY <1>0, <1>5, <2>1, TickBook
    <3> QED BY <1>1, <1>9, <1>13, <2>1, <3>1 DEF u, SignalsInv
  <2>2. CASE bk # <<0, 0>>
    <3>1. BookAtIn(Append(t, e), Len(t) + 1) = e.book
      BY <1>0, <1>5, <2>2, NewBook
    <3> QED BY <1>1, <1>5, <1>9, <1>13, <2>2, <3>1 DEF u
  <2> QED BY <2>1, <2>2
<1>14. WantedIn(k, u, n + 1) = wants
  BY <1>5, <1>6 DEF WantedIn, wants
<1>15. SaysOK(k, sig_live, u)
  <2>1. e.said = Choice(WantedIn(k, u, n + 1), QuietIn(sig_live, u, n + 1, "BUY"),
                        QuietIn(sig_live, u, n + 1, "SELL"))
    BY <1>5, <1>7, <1>14
  <2>2. ASSUME k \in Signals!Buffered PROVE e.said = "none"
    <3>1. k # "orderbook"
      BY <2>2 DEF Signals!Buffered
    <3>2. wants = {}
      BY <3>1 DEF wants
    <3> QED BY <1>5, <3>2 DEF Choice
  <2> QED BY <1>6, <2>1, <2>2 DEF SaysOK
<1>16. LastOK(u, sig_last', IF sig_live' THEN sig_now' ELSE sig_ticks')
  <2> DEFINE r == IF sig_live' THEN sig_now' ELSE sig_ticks'
  <2>1. sig_now \in Int /\ r \in Int /\ sig_now <= r
        /\ \A s \in Signals!Sides : sig_last'[s] \in Int
    BY <1>3, <1>4
  <2> HIDE DEF r
  <2>2. LastOK(u, sig_last', r)
    BY <1>4, <1>7, <2>1, LastLater
  <2> QED BY <2>2 DEF r
<1> QED
  <2>1. Len(u) = n + 1 /\ sig_kind' = k /\ sig_live' = sig_live /\ sig_tape' = u
    BY <1>1, <1>6, <1>7
  <2> HIDE DEF k, t, n
  <2> QED BY <1>10, <1>11, <1>12, <1>13, <1>15, <1>16, <2>1 DEF SignalsInv

-----------------------------------------------------------------------------
\* what a prefill adds to a tape
Daily(t, u, bars) ==
  /\ Begins(t, u) /\ Len(u) = Len(t) + Len(bars)
  /\ \A j \in 1 .. Len(bars) : /\ u[Len(t) + j].what = "daily" /\ u[Len(t) + j].said = "none"
                               /\ BarOf(u[Len(t) + j]) = bars[j]

LEMMA SeenDaily ==
  ASSUME NEW t, NEW u, NEW bars \in Seq(SignalBars), Daily(t, u, bars)
  PROVE  SeenIn(u, Len(u)) = SeenIn(t, Len(t)) \o bars
<1> DEFINE n == Len(t)
    m == Len(bars)
    s == SeenIn(t, Len(t))
    K == {i \in Nat : i <= m => SeenIn(u, n + i) = s \o SubSeq(bars, 1, i)}
<1>0. /\ n \in Nat /\ m \in Nat /\ Len(u) = n + m /\ n \in 0 .. n /\ t \in Seq(TapeEntries)
      /\ u \in Seq(TapeEntries) /\ Begins(t, u)
  BY DEF Daily, Begins
<1>1. s \in Seq(SignalBars) /\ SeenIn(u, n) = s
  BY <1>0, SeenGrows, SeenBegins
<1> HIDE DEF s, n, m
<1>2. 0 \in K
  <2>1. SubSeq(bars, 1, 0) = <<>> /\ s \o <<>> = s
    BY <1>1
  <2> QED BY <1>0, <1>1, <2>1
<1>3. ASSUME NEW i \in Nat, i \in K PROVE i + 1 \in K
  <2> SUFFICES ASSUME i + 1 <= m PROVE SeenIn(u, n + (i + 1)) = s \o SubSeq(bars, 1, i + 1)
    OBVIOUS
  <2> DEFINE a == SubSeq(bars, 1, i)
      x == bars[i + 1]
  <2>1. n + (i + 1) \in 1 .. Len(u) /\ (n + (i + 1)) - 1 = n + i /\ i <= m /\ i + 1 \in 1 .. m
    BY <1>0
  <2>2. SeenIn(u, n + (i + 1)) = SeenNext(SeenIn(u, n + i), u[n + (i + 1)])
    BY <1>0, <2>1, SeenGrows
  <2>3. u[n + (i + 1)].what = "daily" /\ BarOf(u[n + (i + 1)]) = x
    BY <2>1 DEF Daily, n, m
  <2>4. SeenIn(u, n + i) = s \o a
    BY <1>3, <2>1
  <2>5. a \in Seq(SignalBars) /\ x \in SignalBars /\ SubSeq(bars, 1, i + 1) = Append(a, x)
    BY <2>1, PrefixGrows DEF m
  <2> HIDE DEF a, x
  <2>6. SeenIn(u, n + (i + 1)) = Append(s \o a, x)
    BY <2>2, <2>3, <2>4 DEF SeenNext
  <2>7. Append(s \o a, x) = s \o Append(a, x)
    <3>1. /\ Append(s \o a, x) \in Seq(SignalBars) /\ s \o Append(a, x) \in Seq(SignalBars)
          /\ Len(Append(s \o a, x)) = Len(s) + Len(a) + 1
          /\ Len(s \o Append(a, x)) = Len(s) + Len(a) + 1
      BY <1>1, <2>5
    <3> DEFINE y == s \o a
               z == Append(a, x)
    <3>2. /\ y \in Seq(SignalBars) /\ Len(y) = Len(s) + Len(a) /\ Len(s) \in Nat /\ Len(a) \in Nat
          /\ \A j \in 1 .. Len(s) + Len(a) : y[j] = IF j <= Len(s) THEN s[j] ELSE a[j - Len(s)]
      BY <1>1, <2>5
    <3>3. /\ z \in Seq(SignalBars) /\ Len(z) = Len(a) + 1 /\ z[Len(a) + 1] = x
          /\ \A j \in 1 .. Len(a) : z[j] = a[j]
      BY <2>5
    <3> HIDE DEF y, z
    <3>4. /\ \A j \in 1 .. Len(y) : Append(y, x)[j] = y[j]
          /\ Append(y, x)[Len(y) + 1] = x
          /\ \A j \in 1 .. Len(s) + Len(z) : (s \o z)[j] = IF j <= Len(s) THEN s[j]
                                                          ELSE z[j - Len(s)]
      BY <1>1, <2>5, <3>2, <3>3
    <3>5. ASSUME NEW j \in 1 .. Len(s) + Len(a) + 1 PROVE Append(y, x)[j] = (s \o z)[j]
      <4>1. j \in 1 .. Len(s) + Len(z)
        BY <3>2, <3>3
      <4>2. CASE j <= Len(s)
        <5>1. j \in 1 .. Len(y) /\ j \in 1 .. Len(s) + Len(a)
          BY <3>2, <4>2
        <5> QED BY <3>2, <3>4, <4>1, <4>2, <5>1
      <4>3. CASE ~(j <= Len(s)) /\ j <= Len(s) + Len(a)
        <5>1. j \in 1 .. Len(y) /\ j \in 1 .. Len(s) + Len(a) /\ j - Len(s) \in 1 .. Len(a)
          BY <3>2, <4>3
        <5> QED BY <3>2, <3>3, <3>4, <4>1, <4>3, <5>1
      <4>4. CASE j = Len(s) + Len(a) + 1
        <5>1. j = Len(y) + 1 /\ j - Len(s) = Len(a) + 1 /\ ~(j <= Len(s))
          BY <3>2, <4>4
        <5> QED BY <3>3, <3>4, <4>1, <5>1
      <4>5. /\ Len(s) \in Nat /\ Len(a) \in Nat
            /\ j \in Int /\ j <= Len(s) + Len(a) + 1
        BY <3>2
      <4>6. \/ j <= Len(s)
            \/ ~(j <= Len(s)) /\ j <= Len(s) + Len(a)
            \/ j = Len(s) + Len(a) + 1
        BY ONLY <4>5
      <4> QED BY <4>2, <4>3, <4>4, <4>6
    <3>6. \A j \in 1 .. Len(s) + Len(a) + 1 : Append(s \o a, x)[j] = (s \o Append(a, x))[j]
      BY <3>5 DEF y, z
    <3> QED BY <3>1, <3>6, SameSequence
  <2> QED BY <2>5, <2>6, <2>7
<1>4. \A i \in Nat : i \in K
  <2> HIDE DEF K
  <2> QED BY <1>2, <1>3, NatByInduction
<1>5. SeenIn(u, n + m) = s \o SubSeq(bars, 1, m)
  <2>1. m \in K /\ m <= m
    BY <1>0, <1>4
  <2> QED BY <2>1
<1>6. SubSeq(bars, 1, m) = bars
  BY <1>0 DEF m
<1> QED BY <1>0, <1>5, <1>6 DEF s, n, m

Joined(T, a, b, c) ==
  /\ c \in Seq(T) /\ Len(c) = Len(a) + Len(b)
  /\ \A j \in 1 .. Len(a) : c[j] = a[j]
  /\ \A j \in 1 .. Len(b) : c[Len(a) + j] = b[j]

LEMMA JoinedIs ==
  ASSUME NEW T, NEW a \in Seq(T), NEW b \in Seq(T)
  PROVE  Joined(T, a, b, a \o b)
BY DEF Joined

LEMMA DailyIs ==
  ASSUME SignalsTyped, NEW bars \in Seq(SignalBars),
         NEW u, u = sig_tape \o [i \in DOMAIN bars |->
                      Signals!Entry("daily", bars[i].price, bars[i].volume, Signals!Even)],
         \A i \in DOMAIN bars : bars[i] = Bar(bars[i].price, bars[i].volume)
  PROVE  Daily(sig_tape, u, bars)
<1> DEFINE n == Len(sig_tape)
    m == Len(bars)
    d == [i \in DOMAIN bars |->
            Signals!Entry("daily", bars[i].price, bars[i].volume, Signals!Even)]
<1>0. n \in Nat /\ m \in Nat /\ DOMAIN bars = 1 .. m /\ sig_tape \in Seq(TapeEntries)
  BY DEF SignalsTyped
<1>1. Signals!Capacity \in Nat /\ sig_window \in Windows
  BY CapacityTypes DEF SignalsTyped, Signals!TypeOK
<1>2. ASSUME NEW i \in 1 .. m
      PROVE  /\ d[i] \in TapeEntries /\ d[i].what = "daily" /\ d[i].said = "none"
             /\ BarOf(d[i]) = bars[i]
  <2>1. bars[i] \in SignalBars
    OBVIOUS
  <2>2. bars[i].price \in Numbers /\ bars[i].volume \in Numbers
    BY <2>1 DEF SignalBars
  <2>3. d[i] = Signals!Entry("daily", bars[i].price, bars[i].volume, Signals!Even)
    BY <1>0
  <2> HIDE DEF d
  <2>4. d[i] = [what |-> "daily", price |-> bars[i].price, volume |-> bars[i].volume,
                book |-> Signals!Even, window |-> sig_window, size |-> Signals!Capacity,
                at |-> 0, said |-> "none"]
    BY <2>3 DEF Signals!Entry
  <2>5. d[i] \in TapeEntries
    BY <1>1, <2>2, <2>4 DEF TapeEntries
  <2>6. d[i].what = "daily" /\ d[i].said = "none" /\ d[i].price = bars[i].price
        /\ d[i].volume = bars[i].volume
    BY <2>4
  <2>7. BarOf(d[i]) = bars[i]
    BY <1>0, <2>6 DEF BarOf, Bar
  <2> QED BY <2>5, <2>6, <2>7
<1>3. d \in Seq(TapeEntries) /\ Len(d) = m
  <2>1. d = [i \in 1 .. m |-> d[i]]
    BY <1>0
  <2>2. \A i \in 1 .. m : d[i] \in TapeEntries
    BY <1>2
  <2> HIDE DEF d, m
  <2>3. d \in [1 .. m -> TapeEntries]
    BY <2>1, <2>2
  <2> QED BY <1>0, <2>3
<1>4. u = sig_tape \o d
  OBVIOUS
<1> HIDE DEF d, n, m
<1>5. /\ u \in Seq(TapeEntries) /\ Len(u) = n + m
      /\ \A j \in 1 .. n : u[j] = sig_tape[j]
  <2>1. Joined(TapeEntries, sig_tape, d, sig_tape \o d)
    BY <1>0, <1>3, JoinedIs
  <2> QED BY <1>0, <1>3, <1>4, <2>1 DEF Joined, n
<1>6. ASSUME NEW j \in 1 .. m PROVE u[n + j] = d[j]
  <2>1. n + j \in 1 .. n + m /\ ~(n + j <= n) /\ (n + j) - n = j
    BY <1>0
  <2>2. Joined(TapeEntries, sig_tape, d, sig_tape \o d)
    BY <1>0, <1>3, JoinedIs
  <2> QED BY <1>0, <1>3, <1>4, <2>1, <2>2 DEF Joined, n
<1>7. Begins(sig_tape, u)
  BY <1>0, <1>5 DEF Begins, n
<1> QED BY <1>2, <1>5, <1>6, <1>7 DEF Daily, n, m

LEMMA LastDaily ==
  ASSUME NEW t, NEW u, NEW bars \in Seq(SignalBars), Daily(t, u, bars), NEW x \in Int, NEW side,
         side # "none", LastIs(t, x, side)
  PROVE  LastIs(u, x, side)
<1> DEFINE n == Len(t)
    m == Len(bars)
<1>1. n \in Nat /\ m \in Nat /\ Len(u) = n + m /\ \A j \in 1 .. n : u[j] = t[j]
  BY DEF Daily, Begins
<1>2. \A j \in 1 .. m : u[n + j].said # side
  BY DEF Daily
<1> HIDE DEF n, m
<1>3. ASSUME NEW j \in 1 .. n + m, u[j].said = side PROVE j \in 1 .. n /\ t[j].said = side
  <2>1. j \in 1 .. n
    <3>1. CASE j > n
      <4>1. j - n \in 1 .. m /\ n + (j - n) = j
        BY <1>1, <3>1
      <4> QED BY <1>2, <1>3, <4>1
    <3> QED BY <1>1, <3>1
  <2> QED BY <1>1, <1>3, <2>1
<1>4. \A j \in 1 .. n : j \in 1 .. n + m
  BY <1>1
<1>5. CASE x = Signals!Never
  <2>1. \A j \in 1 .. n : t[j].said # side
    BY <1>5 DEF LastIs, n
  <2>2. \A j \in 1 .. n + m : u[j].said # side
    BY <1>3, <2>1
  <2> QED BY <1>1, <1>5, <2>2 DEF LastIs
<1>6. CASE x # Signals!Never
  <2>1. /\ x \in Nat /\ \E j \in 1 .. n : t[j].said = side /\ t[j].at = x
        /\ \A j \in 1 .. n : t[j].said = side => t[j].at <= x
    BY <1>6 DEF LastIs, n
  <2>2. \E j \in 1 .. n + m : u[j].said = side /\ u[j].at = x
    BY <1>1, <1>4, <2>1
  <2>3. \A j \in 1 .. n + m : u[j].said = side => u[j].at <= x
    BY <1>1, <1>3, <2>1
  <2> QED BY <1>1, <1>6, <2>1, <2>2, <2>3 DEF LastIs
<1> QED BY <1>5, <1>6

\* daily candles are no ticks, and no orderbooks
LEMMA DailyKeeps ==
  ASSUME NEW k, NEW t, NEW u, NEW bars \in Seq(SignalBars), Daily(t, u, bars)
  PROVE  /\ WasBelowIn(k, u, Len(u)) = WasBelowIn(k, t, Len(t))
         /\ BookAtIn(u, Len(u)) = BookAtIn(t, Len(t))
         /\ AllFit(k, u) => AllFit(k, t)
<1> DEFINE n == Len(t)
    m == Len(u)
<1>1. n \in Nat /\ m \in Nat /\ n <= m /\ Begins(t, u) /\ n \in 0 .. n
      /\ m = n + Len(bars) /\ Len(bars) \in Nat /\ \A j \in 1 .. n : u[j] = t[j]
  BY DEF Daily, Begins
<1>2. \A j \in 1 .. Len(bars) : u[n + j].what = "daily"
  BY DEF Daily
<1> HIDE DEF n, m
<1>3. ASSUME NEW j \in n + 1 .. m PROVE u[j].what = "daily"
  <2>1. j - n \in 1 .. Len(bars) /\ n + (j - n) = j
    BY <1>1
  <2> QED BY <1>2, <2>1
<1>4. \A j \in n + 1 .. m : j \notin BandTicksIn(k, u, m)
  BY <1>3 DEF BandTicksIn
<1>5. \A j \in n + 1 .. m : u[j].what # "book" \/ u[j].book = <<0, 0>>
  BY <1>3
<1>6. WasBelowIn(k, u, m) = WasBelowIn(k, u, n)
  BY <1>1, <1>4, NoBandsSame
<1>7. WasBelowIn(k, u, n) = WasBelowIn(k, t, n)
  BY <1>1, BandsBegin DEF n
<1>8. BookAtIn(u, m) = BookAtIn(u, n)
  BY <1>1, <1>5, NoBooksSame
<1>9. BookAtIn(u, n) = BookAtIn(t, n)
  BY <1>1, BooksBegin DEF n
<1>10. AllFit(k, u) => AllFit(k, t)
  <2>1. \A j \in 1 .. n : j \in 1 .. m
    BY <1>1
  <2> QED BY <1>1, <2>1 DEF AllFit, n, m
<1> QED BY <1>6, <1>7, <1>8, <1>9, <1>10 DEF n, m

LEMMA HistoryBars ==
  ASSUME NEW bars \in Histories
  PROVE  /\ bars \in Seq(SignalBars)
         /\ \A i \in DOMAIN bars : bars[i] = Bar(bars[i].price, bars[i].volume)
<1> DEFINE All == UNION {ToSet(h) : h \in Histories}
<1>1. bars \in Seq(All) /\ \A i \in DOMAIN bars : bars[i] = Bar(bars[i].price, bars[i].volume)
  BY SignalsAssumption DEF Bar
<1>2. \A i \in DOMAIN bars : bars[i] \in All
  BY DEF ToSet
<1>3. ASSUME NEW i \in DOMAIN bars PROVE bars[i] \in SignalBars
  <2>1. bars[i] \in All
    BY <1>2
  <2>2. {bars[i].price, bars[i].volume} \in {{b.price, b.volume} : b \in All}
    BY <2>1
  <2>3. bars[i].price \in Numbers /\ bars[i].volume \in Numbers
    <3> HIDE DEF All
    <3>1. bars[i].price \in {bars[i].price, bars[i].volume}
          /\ bars[i].volume \in {bars[i].price, bars[i].volume}
      OBVIOUS
    <3> QED BY <2>2, <3>1 DEF Numbers, All
  <2>4. Bar(bars[i].price, bars[i].volume) \in SignalBars
    BY <2>3 DEF Bar, SignalBars
  <2> QED BY <1>1, <2>4
<1> HIDE DEF All
<1>4. bars \in Seq(SignalBars)
  <2>1. Len(bars) \in Nat /\ bars = [i \in 1 .. Len(bars) |-> bars[i]] /\ DOMAIN bars = 1 .. Len(bars)
    BY <1>1
  <2>2. bars \in [1 .. Len(bars) -> SignalBars]
    BY <1>3, <2>1
  <2> QED BY <2>1, <2>2
<1> QED BY <1>1, <1>4

LEMMA PrefillSteps ==
  ASSUME SignalsInv, NEW history \in Histories, Signals!Prefill(history)
  PROVE  SignalsInv'
<1> DEFINE k == sig_kind
    t == sig_tape
    bars == Signals!Suffix(history, Signals!MaxLen(sig_kind, sig_window))
    u == sig_tape'
<1>0. /\ SignalsTyped /\ Signals!TypeOK /\ sig_tape \in Seq(TapeEntries)
      /\ sig_last \in [Signals!Sides -> -1 .. Cooldown + SignalTime]
      /\ LastOK(sig_tape, sig_last, IF sig_live THEN sig_now ELSE sig_ticks)
  BY DEF SignalsInv, SignalsTyped, Signals!TypeOK
<1>1. /\ sig_kind \in Signals!Buffered
      /\ sig_buffer' = Signals!Pushed(bars) /\ sig_capacity' = Signals!Capacity
      /\ sig_tape' = sig_tape \o [i \in DOMAIN bars |->
           Signals!Entry("daily", bars[i].price, bars[i].volume, Signals!Even)]
      /\ UNCHANGED <<sig_kind, sig_live, sig_enabled, sig_window, sig_now, sig_below, sig_book,
                     sig_ticks, sig_last>>
  BY DEF Signals!Prefill
<1>2. /\ bars \in Seq(SignalBars)
      /\ \A i \in DOMAIN bars : bars[i] = Bar(bars[i].price, bars[i].volume)
  <2>1. Signals!MaxLen(sig_kind, sig_window) \in Nat
    <3>1. sig_window \in Nat
      BY <1>0, CapacityTypes
    <3> QED BY <3>1 DEF Signals!MaxLen
  <2>2. bars \in Seq(SignalBars)
    BY <2>1, HistoryBars, SuffixTypes
  <2> HIDE DEF bars
  <2>3. \A i \in DOMAIN bars : bars[i] \in SignalBars
    BY <2>2
  <2>4. \A b \in SignalBars : b = Bar(b.price, b.volume)
    BY DEF SignalBars, Bar
  <2> QED BY <2>2, <2>3, <2>4
<1> HIDE DEF bars
<1>3. Daily(sig_tape, sig_tape', bars)
  BY <1>0, <1>1, <1>2, DailyIs
<1>4. SeenIn(u, Len(u)) = SeenIn(t, Len(t)) \o bars
  BY <1>2, <1>3, SeenDaily
<1>5. sig_buffer' = Signals!Suffix(SeenIn(t, Len(t)) \o bars, Signals!Capacity)
  BY <1>1, <1>2, PushedIs
<1>6. /\ sig_buffer' \in Seq(SignalBars) /\ Len(sig_buffer') <= sig_capacity'
      /\ sig_capacity' \in Nat /\ sig_capacity' # 0
  BY <1>0, <1>1, <1>2, PushedTypes, CapacityTypes
<1>7. u \in Seq(TapeEntries) /\ Len(u) \in Nat /\ Len(t) \in Nat
  BY <1>3 DEF Daily, Begins
<1>8. SignalsTyped'
  <2>1. Signals!TypeOK'
    BY <1>0, <1>1, <1>6 DEF Signals!TypeOK
  <2> QED BY <1>0, <1>1, <1>6, <1>7, <2>1 DEF SignalsTyped
<1>9. BufferIs(k, sig_buffer', sig_capacity', SeenIn(u, Len(u)))
  BY <1>1, <1>4, <1>5, <1>6 DEF BufferIs
<1>10. /\ WasBelowIn(k, u, Len(u)) = WasBelowIn(k, t, Len(t))
       /\ BookAtIn(u, Len(u)) = BookAtIn(t, Len(t))
       /\ AllFit(k, u) => AllFit(k, t)
  BY <1>2, <1>3, DailyKeeps
<1>11. LastOK(u, sig_last', IF sig_live' THEN sig_now' ELSE sig_ticks')
  <2>1. ASSUME NEW s \in Signals!Sides PROVE LastIs(u, sig_last[s], s)
    <3>1. s # "none" /\ sig_last[s] \in Int /\ LastIs(t, sig_last[s], s)
      BY <1>0 DEF Signals!Sides, LastOK
    <3> QED BY <1>2, <1>3, <3>1, LastDaily
  <2> QED BY <1>0, <1>1, <2>1 DEF LastOK
<1>12. SaysOK(k, sig_live, u)
  <2>1. CASE Len(bars) = 0
    <3>1. Len(u) = Len(t) /\ \A j \in 1 .. Len(u) : u[j] = t[j]
      BY <1>3, <1>7, <2>1 DEF Daily, Begins
    <3>2. u = t
      <4> HIDE DEF u
      <4> QED BY <1>0, <1>7, <3>1, SameSequence
    <3> QED BY <3>2 DEF SignalsInv
  <2>2. CASE Len(bars) # 0
    <3>1. Len(bars) \in 1 .. Len(bars) /\ Len(u) = Len(t) + Len(bars)
      BY <1>2, <1>3, <2>2 DEF Daily
    <3>2. u[Len(u)].what = "daily"
      BY <1>3, <3>1 DEF Daily
    <3> QED BY <3>2 DEF SaysOK
  <2> QED BY <2>1, <2>2
<1> QED BY <1>1, <1>8, <1>9, <1>10, <1>11, <1>12 DEF SignalsInv

-----------------------------------------------------------------------------
\* a strategy that has seen nothing
LEMMA NothingSeen ==
  ASSUME NEW k
  PROVE  /\ SeenIn(<<>>, 0) = <<>>
         /\ ~WasBelowIn(k, <<>>, 0) /\ WasBelowIn(k, <<>>, 0) = FALSE
         /\ BookAtIn(<<>>, 0) = Signals!Even
         /\ BufferIs(k, <<>>, 0, <<>>)
<1>1. SeenIn(<<>>, 0) = <<>>
  <2>1. <<>> \in Seq(TapeEntries)
    OBVIOUS
  <2> QED BY <2>1, SeenGrows
<1>2. 1 .. 0 = {}
  OBVIOUS
<1>3. BandTicksIn(k, <<>>, 0) = {} /\ BooksIn(<<>>, 0) = {}
  BY <1>2 DEF BandTicksIn, BooksIn
<1>4. Signals!Suffix(<<>>, 0) = <<>>
  <2>1. 0 \in Nat
    OBVIOUS
  <2> QED BY <2>1, SuffixOfNone
<1> QED BY <1>1, <1>3, <1>4 DEF WasBelowIn, BookAtIn, BufferIs

LEMMA SilentIs ==
  ASSUME NEW time \in Nat
  PROVE  LastOK(<<>>, Signals!Silent, time)
<1>1. Len(<<>>) = 0 /\ 1 .. 0 = {}
  OBVIOUS
<1> QED BY <1>1 DEF LastOK, LastIs, Signals!Silent, Signals!Never

Fresh ==
  /\ sig_capacity = 0 /\ sig_buffer = <<>> /\ sig_below = FALSE /\ sig_book = Signals!Even
  /\ sig_ticks = 0 /\ sig_last = Signals!Silent /\ sig_tape = <<>>

LEMMA FreshStarts ==
  ASSUME Fresh, sig_kind \in Signals!Kinds, sig_live \in BOOLEAN, sig_enabled \in BOOLEAN,
         sig_window \in Windows, sig_now \in 0 .. Cooldown + SignalTime
  PROVE  SignalsInv
<1>1. Len(<<>>) = 0 /\ <<>> \in Seq(TapeEntries) /\ <<>> \in Seq(SignalBars)
  OBVIOUS
<1>2. sig_last \in [Signals!Sides -> -1 .. Cooldown + SignalTime]
  BY SignalsAssumption DEF Fresh, Signals!Silent, Signals!Never
<1>3. SignalsTyped
  <2>1. sig_ticks \in 0 .. sig_now
    BY SignalsAssumption DEF Fresh
  <2>2. Len(sig_buffer) <= sig_capacity /\ sig_capacity \in Nat
    <3>1. sig_buffer = <<>> /\ sig_capacity = 0
      BY DEF Fresh
    <3> QED BY <1>1, <3>1
  <2>4. sig_below \in BOOLEAN
    BY DEF Fresh
  <2>5. sig_book \in Books \cup {Signals!Even}
    BY DEF Fresh
  <2>3. sig_buffer \in Seq(SignalBars) /\ sig_tape \in Seq(TapeEntries)
    BY <1>1 DEF Fresh
  <2> QED BY <1>2, <2>1, <2>2, <2>3, <2>4, <2>5 DEF SignalsTyped, Signals!TypeOK
<1>4. SeenIn(sig_tape, Len(sig_tape)) = <<>> /\ Len(sig_tape) = 0
  BY <1>1, NothingSeen DEF Fresh
<1>5. (IF sig_live THEN sig_now ELSE sig_ticks) \in Nat
  BY SignalsAssumption DEF Fresh
<1>6. LastOK(sig_tape, sig_last, IF sig_live THEN sig_now ELSE sig_ticks)
  BY <1>5, SilentIs DEF Fresh
<1>7. BufferIs(sig_kind, sig_buffer, sig_capacity, <<>>)
  BY NothingSeen DEF Fresh
<1>8. sig_below = WasBelowIn(sig_kind, sig_tape, 0) /\ sig_book = BookAtIn(sig_tape, 0)
  BY NothingSeen DEF Fresh
<1>9. SaysOK(sig_kind, sig_live, sig_tape)
  BY <1>4 DEF SaysOK
<1> QED BY <1>3, <1>4, <1>6, <1>7, <1>8, <1>9 DEF SignalsInv

LEMMA SignalsStart == Signals!Init => SignalsInv
<1> SUFFICES ASSUME Signals!Init PROVE SignalsInv
  OBVIOUS
<1>1. PICK k \in Signals!Kinds, isLive \in BOOLEAN, w \in Windows, clock \in {0, Cooldown} :
        Signals!InitWith(k, isLive, w, clock)
  BY DEF Signals!Init
<1>2. sig_now \in 0 .. Cooldown + SignalTime
  BY <1>1, SignalsAssumption DEF Signals!InitWith
<1>3. Fresh
  BY <1>1 DEF Signals!InitWith, Fresh
<1> QED BY <1>1, <1>2, <1>3, FreshStarts DEF Signals!InitWith

\* what neither ticks nor is told leaves everything but its switches
LEMMA SignalsRest ==
  SignalsInv /\ UNCHANGED signalsVars => SignalsInv'
<1> SUFFICES ASSUME SignalsInv, UNCHANGED signalsVars PROVE SignalsInv'
  OBVIOUS
<1>1. UNCHANGED <<sig_kind, sig_live, sig_enabled, sig_window, sig_now, sig_capacity, sig_buffer,
                  sig_below, sig_book, sig_ticks, sig_last, sig_tape>>
  BY DEF signalsVars
<1> QED BY <1>1 DEF SignalsInv, SignalsTyped, Signals!TypeOK

LEMMA SwitchSteps ==
  ASSUME SignalsInv, sig_enabled' \in BOOLEAN, sig_window' \in Windows,
         UNCHANGED <<sig_kind, sig_live, sig_now>>,
         \/ UNCHANGED <<sig_capacity, sig_buffer, sig_below, sig_book, sig_ticks, sig_last, sig_tape>>
         \/ Signals!Reset
  PROVE  SignalsInv'
<1>1. CASE UNCHANGED <<sig_capacity, sig_buffer, sig_below, sig_book, sig_ticks, sig_last, sig_tape>>
  BY <1>1 DEF SignalsInv, SignalsTyped, Signals!TypeOK
<1>2. CASE Signals!Reset
  <2>1. Fresh'
    BY <1>2 DEF Signals!Reset, Fresh, Signals!Silent, Signals!Even, Signals!Never, Signals!Sides
  <2>2. /\ sig_kind' \in Signals!Kinds /\ sig_live' \in BOOLEAN
        /\ sig_now' \in 0 .. Cooldown + SignalTime
    BY DEF SignalsInv, SignalsTyped, Signals!TypeOK
  <2>3. (Fresh /\ sig_kind \in Signals!Kinds /\ sig_live \in BOOLEAN /\ sig_enabled \in BOOLEAN
         /\ sig_window \in Windows /\ sig_now \in 0 .. Cooldown + SignalTime => SignalsInv)'
    BY FreshStarts, PTL
  <2> QED BY <2>1, <2>2, <2>3
<1> QED BY <1>1, <1>2

LEMMA SignalsSteps ==
  ASSUME SignalsInv, Signals!Next
  PROVE  SignalsInv'
<1>1. ASSUME NEW p \in Prices, NEW v \in (IF sig_kind \in Signals!ReadsVolume THEN Volumes ELSE {0})
      PROVE  v \in Volumes \cup {0}
  OBVIOUS
<1>2. sig_enabled \in BOOLEAN /\ sig_window \in Windows
  BY DEF SignalsInv, SignalsTyped, Signals!TypeOK
<1>3. ASSUME Signals!Toggle \/ Signals!SetEnabled PROVE SignalsInv'
  BY <1>2, <1>3, SwitchSteps DEF Signals!Toggle, Signals!SetEnabled
<1>4. ASSUME NEW w \in Windows, Signals!Configure(w) PROVE SignalsInv'
  BY <1>2, <1>4, SwitchSteps DEF Signals!Configure
<1>5. ASSUME NEW p \in Prices, NEW v \in Volumes \cup {0}, Signals!Tick(p, v) PROVE SignalsInv'
  BY <1>5, TickSteps
<1>6. ASSUME NEW bk \in Books, Signals!Book(bk) PROVE SignalsInv'
  BY <1>6, BookSteps
<1>7. ASSUME NEW history \in Histories, Signals!Prefill(history) PROVE SignalsInv'
  BY <1>7, PrefillSteps
<1> QED BY <1>1, <1>3, <1>4, <1>5, <1>6, <1>7 DEF Signals!Next

LEMMA SignalsMean == SignalsInv => Signals!SaysWhatItSaw
BY SaysLinks DEF SignalsInv, SignalsTyped
=============================================================================
