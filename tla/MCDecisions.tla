------------------------------ MODULE MCDecisions ------------------------------
(***************************************************************************)
(* The instance of Decisions for TLC: the constants that are records and   *)
(* sequences.                                                              *)
(***************************************************************************)
EXTENDS Decisions, TLC

CONSTANT Others  \* stocks of a backtest, in no way different

\* the mean of 2 shares and 1 at the two prices is no binary fraction
SomeDays == [1 .. 4 -> [side : {"buy", "sell"}, qty : 0 .. 3, price : {10000, 17000}]]
SomeResults == {-2, 0, 1}

\* stocks on both sides of every limit of _filter, and equal ones
Stock(ordinary, volume, change, turnover) ==
  [ordinary |-> ordinary, volume |-> volume, change |-> change, turnover |-> turnover]
Profiles == {Stock(TRUE, 3, 2, 0), Stock(TRUE, 1, -2, 2), Stock(TRUE, 1, 8, 1),
             Stock(TRUE, 2, 3, 0), Stock(TRUE, 9, 1, 9), Stock(TRUE, 9, 9, 9),
             Stock(TRUE, 9, -3, 9), Stock(FALSE, 9, 5, 9), Stock(TRUE, 0, 5, 9)}
Lowest == -2
SomeMarkets == {[i \in 1 .. 3 |-> [symbol |-> i] @@ f[i]] : f \in [1 .. 3 -> Profiles]}
SomeCandidates == {[i \in 1 .. 4 |-> [symbol |-> i, qualifies |-> f[i] > 0, score |-> f[i]]] :
                     f \in [1 .. 4 -> 0 .. 2]}
SomeHoldings == SUBSET {1, 2, 3, 9}

SomeBooks == {<<3, 1>>, <<1, 3>>, <<1, 1>>, <<0, 0>>}
\* the second is longer than a window of 2
SomeHistories == {<<[price |-> 1, volume |-> 0], [price |-> 3, volume |-> 1]>>,
                  <<[price |-> 3, volume |-> 1], [price |-> 3, volume |-> 0],
                    [price |-> 1, volume |-> 1]>>}

\* the stocks of a backtest, of which one has several prices
SomeQuotes == {[symbol |-> "s1", price |-> p] : p \in {10000, 10060, 10500}}
              \cup {[symbol |-> s, price |-> 10000] : s \in Others}
Alike == Permutations(Others)
Both == <<"m", "f">>
\* what MomentumStrategy overrides, in per mille
OwnLimits == [s \in {"m"} |-> [stop |-> 30, profit |-> 50]]
=============================================================================
