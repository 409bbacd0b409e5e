----------------------------- MODULE CandleStore -----------------------------
(***************************************************************************)
(* The stored candles: data/ohlcv.py (daily bars for the quant strategies) *)
(* and backtest/fetcher.py (minute bars for the scalping backtest).  Both  *)
(* insert what is not there and never change what is.  The two tables have *)
(* nothing to do with each other: a behaviour is about one of them.        *)
(*                                                                         *)
(* Time is counted in bars.  A bar is what the time at which it was read   *)
(* made of it: read during its own time it is cut short, read later it is  *)
(* complete.                                                               *)
(***************************************************************************)
EXTENDS Naturals, Sequences, FiniteSetsExt

CONSTANTS
  Symbols,
  Window,  \* bars in an answer: the period, or the days asked for
  MaxTime  \* bound: bars

VARIABLES
  table,    \* "daily" (ohlcv) or "minute" (candles)
  now,
  bars,     \* when the stored bar was read, 0 if there is none
  answers   \* history: which bars were in an answer when, <<when, bar>>

vars == <<table, now, bars, answers>>

Times == 1 .. MaxTime
Recent == {t \in Times : t <= now /\ t + Window > now}

InitWith(which) ==
  /\ table = which
  /\ now = 1
  /\ bars = [s \in Symbols |-> [t \in Times |-> 0]]
  /\ answers = [s \in Symbols |-> {}]

Init == \E which \in {"daily", "minute"} : InitWith(which)

\* mutant: the bars that are there are looked up without their symbol
StoredAnySymbol(got) ==
  /\ bars' = [s \in Symbols |-> [t \in Times |->
                IF t \in got[s] /\ \A u \in Symbols : bars[u][t] = 0 THEN now ELSE bars[s][t]]]
  /\ answers' = [s \in Symbols |-> answers[s] \cup {<<now, t>> : t \in got[s]}]

\* of the answers, the bars the table does not have
Stored(got) ==
  /\ bars' = [s \in Symbols |-> [t \in Times |->
                IF t \in got[s] /\ bars[s][t] = 0 THEN now ELSE bars[s][t]]]
  /\ answers' = [s \in Symbols |-> answers[s] \cup {<<now, t>> : t \in got[s]}]

-----------------------------------------------------------------------------
(***************************************************************************)
(* bulk_fetch, from the refresh loop, a scan or a request, without a wait  *)
(* in between.  A symbol may have no data; an exception leaves those after *)
(* it for next time.                                                       *)
(***************************************************************************)
BulkFetch ==
  /\ table = "daily"
  /\ \E fetched \in SUBSET Symbols :
       Stored([s \in Symbols |-> IF s \in fetched THEN Recent ELSE {}])
  /\ UNCHANGED <<table, now>>

(***************************************************************************)
(* fetch_and_store of the scalping backtest: a request for every symbol    *)
(* and day, each of which may fail by itself and is committed by itself.   *)
(***************************************************************************)
FetchMinutes(s) ==
  /\ table = "minute"
  /\ \E t \in Recent : Stored([u \in Symbols |-> IF u = s THEN {t} ELSE {}])
  /\ UNCHANGED <<table, now>>

Tick ==
  /\ now < MaxTime /\ now' = now + 1
  /\ UNCHANGED <<table, bars, answers>>

Next == BulkFetch \/ (\E s \in Symbols : FetchMinutes(s)) \/ Tick

Spec == Init /\ [][Next]_vars

-----------------------------------------------------------------------------
\* the stored bars of a symbol up to a time, oldest first
StoredRows(s) ==
  LET upTo[t \in 0 .. MaxTime] ==
        IF t = 0 THEN <<>>
        ELSE IF bars[s][t] # 0 THEN Append(upTo[t - 1], t) ELSE upTo[t - 1]
  IN upTo[MaxTime]

\* get_candles: the last of them (ORDER BY dt DESC LIMIT, reversed)
GetCandles(s, limit) ==
  LET rows == StoredRows(s)
  IN SubSeq(rows, IF limit < Len(rows) THEN Len(rows) - limit + 1 ELSE 1, Len(rows))

TypeOK ==
  /\ table \in {"daily", "minute"} /\ now \in Times
  /\ bars \in [Symbols -> [Times -> 0 .. MaxTime]]

(***************************************************************************)
(* A stored bar says, for good, what the first of all answers that         *)
(* contained it said (ohlcv.py:84-97, fetcher.py:202-207): none is missing *)
(* that was ever answered, for whatever symbol, and that of a day fetched  *)
(* while it was trading stays cut short whatever is fetched later.  The    *)
(* strategies are given the newest of them, oldest first.                  *)
(***************************************************************************)
FirstAnswerStays ==
  \A s \in Symbols :
    /\ \A t \in Times :
         LET whens == {a[1] : a \in {p \in answers[s] : p[2] = t}}
         IN bars[s][t] = IF whens = {} THEN 0 ELSE Min(whens)
    /\ \A limit \in Times :
         LET got == GetCandles(s, limit)
         IN /\ Len(got) <= limit
            /\ \A i, j \in DOMAIN got : i < j => got[i] < got[j]
            /\ \A t \in Times : bars[s][t] # 0 =>
                 (\E i \in DOMAIN got : got[i] = t) \/ (Len(got) = limit /\ t < got[1])
=============================================================================
