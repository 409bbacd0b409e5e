---------------------------- MODULE ProfitMatching ----------------------------
(***************************************************************************)
(* data/repository.py: the fee of an execution and the profit of the day's *)
(* sells of one symbol, matched first in, first out with its buys.         *)
(*                                                                         *)
(* A trade is [side, qty, price], executed at one price; the day's trades  *)
(* of the symbol are a sequence in the order of ord_time.  Amounts and     *)
(* fees are whole won: int() cuts off what is below one.  The profit goes  *)
(* through a mean price that is a double, and may fall one won short.      *)
(***************************************************************************)
EXTENDS Integers, Sequences, SequencesExt

Million == 1000000
CommissionPpm == 147
SellTaxPpm == 1800

\* int(amount * rate) for an amount that is not negative
Part(amount, ppm) == (amount * ppm) \div Million

Amount(t) == t.qty * t.price

\* _calc_fee: commission and tax are cut off one by one
Fee(t) ==
  Part(Amount(t), CommissionPpm) + (IF t.side = "sell" THEN Part(Amount(t), SellTaxPpm) ELSE 0)

\* the executions of one side that count, appended one by one
Of(trades, side) ==
  FoldLeft(LAMBDA q, t : IF t.side = side /\ t.qty > 0 /\ t.price > 0 THEN Append(q, t) ELSE q,
           <<>>, trades)

\* a profit is a sequence of one number
Unmatched == <<>>

\* of a sell whose shares cost that much
ProfitOf(s, cost) == Amount(s) - cost - Fee(s) - Part(cost, CommissionPpm)

\* the mean price is a finite binary fraction: a double holds it
Binary(cost, qty) == \E k \in 0 .. qty : (cost * 2^k) % qty = 0

\* int() of what has come out below, or for a loss above, a whole number
Short(won) == IF won > 0 THEN won - 1 ELSE IF won < 0 THEN won + 1 ELSE won

\* int((avg_price - buy_avg) * matched_qty - fee - buy_fee): which way the rounding of
\* the mean goes is not modelled, either may be
Truncated(s, cost) ==
  {<<ProfitOf(s, cost)>>}
    \cup (IF Binary(cost, s.qty) THEN {} ELSE {<<Short(ProfitOf(s, cost))>>})

Lesser(a, b) == IF a < b THEN a ELSE b

(***************************************************************************)
(* The loop of _recalc_pnl.  A cursor is [at, left]: the buy in front of   *)
(* the queue and what is left of it.                                       *)
(***************************************************************************)
LeftOf(buys, i) == IF i <= Len(buys) THEN buys[i].qty ELSE 0

\* mutant: the next buy is taken up with what was left of the last one
TakeKeepingLeft(buys, cur, want) ==
  LET take == Lesser(want, cur.left)
      left == cur.left - take
  IN [cost |-> take * buys[cur.at].price, taken |-> take,
      cursor |-> IF left <= 0 THEN [at |-> cur.at + 1, left |-> LeftOf(buys, cur.at)]
                 ELSE [at |-> cur.at, left |-> left]]

\* one turn of the while loop
Take(buys, cur, want) ==
  LET take == Lesser(want, cur.left)
      left == cur.left - take
  IN [cost |-> take * buys[cur.at].price, taken |-> take,
      cursor |-> IF left <= 0 THEN [at |-> cur.at + 1, left |-> LeftOf(buys, cur.at + 1)]
                 ELSE [at |-> cur.at, left |-> left]]

\* the while loop for one sell: at most one turn per share
Matched(buys, cur, qty) ==
  LET loop[n \in 0 .. qty] ==
        IF n = 0 THEN [cost |-> 0, want |-> qty, cursor |-> cur]
        ELSE LET l == loop[n - 1]
             IN IF l.want > 0 /\ l.cursor.at <= Len(buys)
                THEN LET s == Take(buys, l.cursor, l.want)
                     IN [cost |-> l.cost + s.cost, want |-> l.want - s.taken,
                         cursor |-> s.cursor]
                ELSE l
  IN loop[qty]

\* the for loop over the sells: what the profit of each may be.  A sell the buys do not
\* cover gets none, but what it took is gone
Profits(trades) ==
  LET buys  == Of(trades, "buy")
      sells == Of(trades, "sell")
      done[n \in 0 .. Len(sells)] ==
        IF n = 0 THEN [cursor |-> [at |-> 1, left |-> LeftOf(buys, 1)], pnl |-> <<>>]
        ELSE LET d == done[n - 1]
                 s == sells[n]
                 l == Matched(buys, d.cursor, s.qty)
                 p == IF l.want > 0 THEN {Unmatched} ELSE Truncated(s, l.cost)
             IN [cursor |-> l.cursor, pnl |-> Append(d.pnl, p)]
  IN done[Len(sells)].pnl

-----------------------------------------------------------------------------
(***************************************************************************)
(* What the profit should be, share by share: the k-th share sold is the   *)
(* k-th share bought.                                                      *)
(***************************************************************************)
\* how many shares the first n trades are about
SharesUntil(ts, n) == SumFunction([i \in 1 .. n |-> ts[i].qty])

\* the trade of the k-th share
TradeOf(ts, k) ==
  CHOOSE i \in DOMAIN ts : SharesUntil(ts, i - 1) < k /\ k <= SharesUntil(ts, i)

CostByShare(buys, sells, n) ==
  SumFunction([k \in SharesUntil(sells, n - 1) + 1 .. SharesUntil(sells, n) |->
                 buys[TradeOf(buys, k)].price])

Covered(buys, sells, n) == SharesUntil(sells, n) <= SharesUntil(buys, Len(buys))

\* p may stand for the exact profit: one won is lost only if the mean is rounded
Stands(p, exact, binary) == p = <<exact>> \/ (~binary /\ p = <<Short(exact)>>)

PaidByShare(trades) ==
  LET buys  == Of(trades, "buy")
      sells == Of(trades, "sell")
      paid  == Profits(trades)
  IN /\ Len(paid) = Len(sells)
     /\ \A n \in 1 .. Len(sells) : \A p \in paid[n] :
          IF Covered(buys, sells, n)
          THEN LET cost == CostByShare(buys, sells, n)
               IN Stands(p, ProfitOf(sells[n], cost), Binary(cost, sells[n].qty))
          ELSE p = Unmatched
=============================================================================
