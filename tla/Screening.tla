------------------------------- MODULE Screening -------------------------------
(***************************************************************************)
(* Which symbols a scan selects: screening/screener.py, by today's market, *)
(* and screening/quant_screener.py, by stored candles.  Both keep what is  *)
(* held and fill the remaining slots with the best of the others.          *)
(*                                                                         *)
(* A stock is [symbol, ordinary, volume, change, turnover]; ordinary says  *)
(* that its code and name are not those of a fund or a certificate.  A     *)
(* quant candidate is [symbol, qualifies, score]: whether its history is   *)
(* long enough, traded enough and rising, and what _rank made of its       *)
(* factors, which are floating point numbers and not modelled.             *)
(***************************************************************************)
EXTENDS Integers, Sequences, FiniteSets, SequencesExt, FiniteSetsExt

CONSTANTS
  MaxStocks,                          \* max_stocks
  MinVolume,                          \* min_volume
  LowerChange, MinChange, MaxChange,  \* min_change_rate_lower, min_ and max_change_rate
  Markets,                            \* what a scan may find
  Candidates,                         \* what a quant scan may find
  Holdings                            \* sets of symbols that may be held

VARIABLES market, candidates, held

Absolute(x) == IF x < 0 THEN -x ELSE x
Slots(hs) == IF Cardinality(hs) < MaxStocks THEN MaxStocks - Cardinality(hs) ELSE 0

\* _filter
Passes(s) ==
  /\ s.ordinary
  /\ s.volume >= MinVolume
  /\ s.change >= LowerChange /\ s.change <= MaxChange
  /\ Absolute(s.change) >= MinChange

\* the divisor of a norm: the largest value, or 1 if all are 0
Scale(values) == Max({1} \cup values)

(***************************************************************************)
(* _score_and_rank: 0.4, 0.3 and 0.3 of the three norms, here times ten    *)
(* and times the three divisors, which are those of the stocks ss.         *)
(***************************************************************************)
Score(s, ss) ==
  LET volume   == Scale({t.volume : t \in ss})
      change   == Scale({Absolute(t.change) : t \in ss})
      turnover == Scale({t.turnover : t \in ss})
  IN 4 * s.volume * change * turnover
     + 3 * Absolute(s.change) * volume * turnover
     + 3 * s.turnover * volume * change

\* indices sorted by score, the highest first; the sort is stable
Ranked(indices, score) ==
  CHOOSE order \in SetToSeqs(indices) :
    \A k, l \in DOMAIN order : k < l =>
      \/ score[order[k]] > score[order[l]]
      \/ score[order[k]] = score[order[l]] /\ order[k] < order[l]

SymbolsOf(items, order) == [k \in DOMAIN order |-> items[order[k]].symbol]

ScoreAndRank(stocks, passing) ==
  LET ss == {stocks[i] : i \in passing}
  IN SymbolsOf(stocks, Ranked(passing, [i \in passing |-> Score(stocks[i], ss)]))

Best(ranked, n) == SubSeq(ranked, 1, IF n < Len(ranked) THEN n ELSE Len(ranked))

\* [s for s in ranked if s not in held][:available_slots]
NewSymbols(ranked, hs) ==
  LET others == {k \in DOMAIN ranked : ranked[k] \notin hs}
  IN {ranked[k] : k \in {o \in others : Cardinality({p \in others : p <= o}) <= Slots(hs)}}

\* mutant: the list is cut to the free slots before what is held is taken out
FillCuttingFirst(ranked, hs) == hs \cup ToSet(Best(ranked, Slots(hs)))

\* list(held) + new_symbols
Fill(ranked, hs) == hs \cup NewSymbols(ranked, hs)

\* StockScreener.scan: without data, or without a stock that passes, what is held
Scan(stocks, hs) == Fill(ScoreAndRank(stocks, {i \in DOMAIN stocks : Passes(stocks[i])}), hs)

\* QuantScreener._rank: only max_stocks of the candidates are kept
Rank(cs, scored) ==
  Best(SymbolsOf(cs, Ranked(scored, [i \in scored |-> cs[i].score])), MaxStocks)

QuantScan(cs, hs) == Fill(Rank(cs, {i \in DOMAIN cs : cs[i].qualifies}), hs)

InitWith(m, cs, hs) == market = m /\ candidates = cs /\ held = hs

\* one scan of either kind
Init ==
  \E hs \in Holdings :
    \/ \E m \in Markets : InitWith(m, <<>>, hs)
    \/ \E cs \in Candidates : InitWith(<<>>, cs, hs)

-----------------------------------------------------------------------------
(***************************************************************************)
(* What a scan should select: of those with index in eligible, the ones    *)
(* not held that are beaten by fewer than there are slots.                 *)
(***************************************************************************)
Selected(symbol, score, eligible) ==
  LET others == {i \in eligible : symbol[i] \notin held}
      beaten(i) == {j \in others : score[j] > score[i] \/ (score[j] = score[i] /\ j < i)}
  IN held \cup {symbol[i] : i \in {o \in others : Cardinality(beaten(o)) < Slots(held)}}

(***************************************************************************)
(* Both scans keep what is held and fill the slots with the best others:   *)
(* that the quant scan cuts its list to max_stocks before it takes out     *)
(* what is held (quant_screener.py:104, 239) costs it nothing, and the     *)
(* divisors are those of the stocks that pass (screener.py:83-92,          *)
(* 121-129).  More than max_stocks are never selected, unless as many are  *)
(* held.                                                                   *)
(***************************************************************************)
SelectionIsBest ==
  LET passing == {i \in DOMAIN market : Passes(market[i])}
      found   == IF candidates = <<>> THEN Scan(market, held) ELSE QuantScan(candidates, held)
  IN /\ IF candidates = <<>>
        THEN found = Selected([i \in DOMAIN market |-> market[i].symbol],
                              [i \in DOMAIN market |->
                                 Score(market[i], {market[j] : j \in passing})], passing)
        ELSE found = Selected([i \in DOMAIN candidates |-> candidates[i].symbol],
                              [i \in DOMAIN candidates |-> candidates[i].score],
                              {i \in DOMAIN candidates : candidates[i].qualifies})
     /\ Cardinality(found) <= Max({MaxStocks, Cardinality(held)})
=============================================================================
