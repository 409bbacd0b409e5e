---------------------------- MODULE StrategySignals ----------------------------
(***************************************************************************)
(* The strategies of strategy/: what each keeps of one symbol's ticks and  *)
(* orderbooks, when it raises a signal, and the cooldown of base.py        *)
(* between two signals of the same side.  A behaviour is about one         *)
(* strategy (no two share state), live or in a backtest.                   *)
(*                                                                         *)
(* The conditions are the code's, multiplied out so that they compare      *)
(* integers; where the code rounds floating point numbers, two that are    *)
(* equal may come out unequal.  ratios are those of the code's defaults;   *)
(* one number, window, stands for window, long_window and lookback, and    *)
(* short_window is 1.  Confidences are not modelled.                       *)
(***************************************************************************)
EXTENDS Integers, Sequences, FiniteSets, SequencesExt, FiniteSetsExt

CONSTANTS
  Prices, Volumes,  \* of a tick
  Books,            \* total quantities bid and asked, <<bid, ask>>
  Histories,        \* daily candles a prefill brings, sequences of [price, volume]
  Windows,          \* values window may be configured to
  NumStd,           \* num_std
  Cooldown,         \* cooldown_seconds, and cooldown_ticks
  MaxTime,          \* bound: events
  MaxChanges        \* bound: switches off and new windows

VARIABLES
  kind, live, enabled, window,
  now,      \* time.monotonic()
  capacity, \* maxlen of the buffers, 0 before the symbol's first tick or candle
  buffer,   \* _prices and _volumes, a sequence of [price, volume]
  below,    \* _was_below
  book,     \* _ob_imbalance
  ticks,    \* _tick_count
  last,     \* _last_signal_at, _last_signal_tick: by side, Never if none
  tape,     \* history: what the strategy has seen since its reset, and what it said
  changes

vars == <<kind, live, enabled, window, now, capacity, buffer, below, book, ticks, last, tape,
          changes>>

Kinds == {"ma_cross", "bollinger", "rsi", "vwap", "momentum", "mean_reversion", "factor",
          "orderbook"}
Sides == {"BUY", "SELL"}
Never == -1
Even == <<1, 1>>

Buffered == Kinds \ {"vwap", "orderbook"}
ReadsVolume == {"vwap", "momentum", "factor"}
ReadsBook == {"orderbook", "factor"}

MaxLen(k, w) == CASE k = "ma_cross" -> w + 1 [] k = "rsi" -> w + 2 [] OTHER -> w

Suffix(s, n) == IF Len(s) <= n THEN s ELSE SubSeq(s, Len(s) - n + 1, Len(s))
Total(s) == FoldLeft(LAMBDA a, x : a + x, 0, s)
PricesOf(b) == [i \in DOMAIN b |-> b[i].price]
VolumesOf(b) == [i \in DOMAIN b |-> b[i].volume]

-----------------------------------------------------------------------------
(***************************************************************************)
(* The bands: n (mean - price), compared with num_std n std, whose square  *)
(* is num_std^2 (n Sum p^2 - (Sum p)^2).                                   *)
(***************************************************************************)
Under(b) == Total(PricesOf(b)) - Len(b) * Last(b).price
Spread(b) == Len(b) * Total([i \in DOMAIN b |-> b[i].price * b[i].price])
             - Total(PricesOf(b)) * Total(PricesOf(b))
Outside(b, d) == d * d > NumStd * NumStd * Spread(b)
OnBand(b, d) == d * d = NumStd * NumStd * Spread(b)

BollingerWants(b, w) ==
  IF Len(b) < w THEN {}
  ELSE LET d == Under(b)
           far == Outside(b, d) \/ OnBand(b, d)
       IN (IF d >= 0 /\ far THEN {"BUY"} ELSE {}) \cup (IF d <= 0 /\ far THEN {"SELL"} ELSE {})

HasBands(b, w) == Len(b) >= w /\ Spread(b) > 0
BelowBand(b) == Under(b) > 0 /\ Outside(b, Under(b))
AboveBand(b) == Under(b) < 0 /\ Outside(b, Under(b))

MeanReversionWants(b, w, wasBelow) ==
  IF ~HasBands(b, w) \/ BelowBand(b) THEN {}
  ELSE (IF wasBelow THEN {"BUY"} ELSE {}) \cup (IF AboveBand(b) THEN {"SELL"} ELSE {})

\* the short average before this tick against the long average with it
MACrossWants(b, w) ==
  IF Len(b) < w + 1 THEN {}
  ELSE LET long == Total(PricesOf(Suffix(b, w)))
           prev == w * b[Len(b) - 1].price
           now1 == w * Last(b).price
       IN IF prev <= long /\ long < now1 THEN {"BUY"}
          ELSE IF prev >= long /\ long > now1 THEN {"SELL"} ELSE {}

\* gains / (gains + losses) below 30 %, above 70 %; 100 if there are no losses
RSIWants(b, w) ==
  IF Len(b) < w + 1 THEN {}
  ELSE LET recent  == PricesOf(Suffix(b, w + 1))
           moves == [i \in 1 .. w |-> recent[i + 1] - recent[i]]
           gains   == Total([i \in 1 .. w |-> Max({moves[i], 0})])
           losses  == Total([i \in 1 .. w |-> Max({-moves[i], 0})])
       IN IF losses = 0 \/ 10 * gains > 7 * (gains + losses) THEN {"SELL"}
          ELSE IF 10 * gains < 3 * (gains + losses) THEN {"BUY"} ELSE {}

MomentumWants(b, w) ==
  IF Len(b) < w THEN {}
  ELSE LET sum  == Total(VolumesOf(b))
           high == Max({b[i].price : i \in 1 .. Len(b) - 1})
       IN IF sum > 0 /\ Last(b).volume * Len(b) >= 2 * sum /\ 1000 * Last(b).price >= 1005 * high
          THEN {"BUY"} ELSE {}

\* all ticks with a volume, since the reset: nothing ever leaves the sums
VWAPWants(b) ==
  LET volume == Total(VolumesOf(b))
      value  == Total([i \in DOMAIN b |-> b[i].price * b[i].volume])
      off    == 1000 * (Last(b).price * volume - value)
  IN IF Last(b).volume <= 0 THEN {}
     ELSE IF off < -5 * value THEN {"BUY"} ELSE IF off > 5 * value THEN {"SELL"} ELSE {}

Clamp(n, d) == IF n < 0 THEN <<0, 1>> ELSE IF n > d THEN <<1, 1>> ELSE <<n, d>>

\* 0.4 m + 0.3 v + 0.3 o >= 0.65, for m, v and o fractions
Scores(m, v, o) ==
  8 * m[1] * v[2] * o[2] + 6 * v[1] * m[2] * o[2] + 6 * o[1] * m[2] * v[2]
    >= 13 * m[2] * v[2] * o[2]

FactorWants(b, w, bk) ==
  IF Len(b) < w THEN {}
  ELSE LET first == Head(b).price
           sum == Total(VolumesOf(b))
           m == Clamp(first + 20 * (Last(b).price - first), 2 * first)
           v == IF sum = 0 THEN <<1, 2>> ELSE Clamp(Last(b).volume * Len(b), 4 * sum)
           o == <<bk[1], bk[1] + bk[2]>>
           not(f) == <<f[2] - f[1], f[2]>>
       IN (IF Scores(m, v, o) /\ 2 * m[1] >= m[2] THEN {"BUY"} ELSE {})
          \cup (IF Scores(not(m), v, not(o)) THEN {"SELL"} ELSE {})

OrderbookWants(bk) ==
  IF bk[1] = 0 \/ bk[2] = 0 THEN {}
  ELSE (IF 2 * bk[1] >= 3 * bk[2] THEN {"BUY"} ELSE {})
       \cup (IF 2 * bk[2] >= 3 * bk[1] THEN {"SELL"} ELSE {})

\* the sides on_tick would raise, with the tick in the buffer
Wants(b, w, wasBelow, bk) ==
  CASE kind = "ma_cross" -> MACrossWants(b, w)
    [] kind = "bollinger" -> BollingerWants(b, w)
    [] kind = "rsi" -> RSIWants(b, w)
    [] kind = "vwap" -> VWAPWants(b)
    [] kind = "momentum" -> MomentumWants(b, w)
    [] kind = "mean_reversion" -> MeanReversionWants(b, w, wasBelow)
    [] kind = "factor" -> FactorWants(b, w, bk)
    [] OTHER -> {}
-----------------------------------------------------------------------------
Silent == [s \in Sides |-> Never]

InitWith(k, isLive, w, clock) ==
  /\ kind = k /\ live = isLive
  /\ enabled = TRUE
  /\ window = w
  /\ now = clock
  /\ capacity = 0 /\ buffer = <<>> /\ below = FALSE /\ book = Even
  /\ ticks = 0 /\ last = Silent
  /\ tape = <<>> /\ changes = 0

\* a backtest has no orderbooks; a computer may just have been started
Init ==
  \E k \in Kinds, w \in Windows :
    \/ \E clock \in {0, Cooldown} : InitWith(k, TRUE, w, clock)
    \/ k # "orderbook" /\ InitWith(k, FALSE, w, 0)

\* _check_cooldown: before its first signal a live strategy compares with 0
Ready(side, at) ==
  IF last[side] = Never THEN live => at >= Cooldown ELSE at - last[side] >= Cooldown

\* BUY is tried first; a BUY that the cooldown stops leaves the SELL its turn
Said(wants, at) ==
  IF "BUY" \in wants /\ Ready("BUY", at) THEN "BUY"
  ELSE IF "SELL" \in wants /\ Ready("SELL", at) THEN "SELL" ELSE "none"

Signal(wants, at, entry) ==
  LET said == Said(wants, at)
  IN /\ last' = IF said = "none" THEN last ELSE [last EXCEPT ![said] = at]
     /\ tape' = Append(tape, [entry EXCEPT !.at = at, !.said = said])

\* the first tick or candle of a symbol makes its buffers
Capacity == IF kind \notin Buffered THEN MaxTime
            ELSE IF capacity = 0 THEN MaxLen(kind, window) ELSE capacity

Entry(what, p, v, bk) ==
  [what |-> what, price |-> p, volume |-> v, book |-> bk, window |-> window,
   size |-> Capacity, at |-> 0, said |-> "none"]

Pushed(bars) == Suffix(buffer \o bars, Capacity)

Clock == now < Cooldown + MaxTime /\ Len(tape) < MaxTime /\ now' = now + 1

Tick(p, v) ==
  /\ enabled /\ kind # "orderbook" /\ Clock
  /\ LET b == Pushed(<<[price |-> p, volume |-> v]>>)
     IN /\ buffer' = b /\ capacity' = Capacity
        /\ ticks' = ticks + 1
        /\ below' = IF kind = "mean_reversion" /\ HasBands(b, window) THEN BelowBand(b) ELSE below
        /\ Signal(Wants(b, window, below, book), IF live THEN now ELSE ticks',
                  Entry("tick", p, v, book))
  /\ UNCHANGED <<kind, live, enabled, window, book, changes>>

\* on_orderbook: factor only remembers it
Book(bk) ==
  /\ live /\ enabled /\ kind \in ReadsBook /\ Clock
  /\ book' = IF kind = "factor" /\ bk[1] + bk[2] > 0 THEN bk ELSE book
  /\ Signal(IF kind = "orderbook" THEN OrderbookWants(bk) ELSE {}, now, Entry("book", 0, 0, bk))
  /\ UNCHANGED <<kind, live, enabled, window, capacity, buffer, below, ticks, changes>>

\* prefill: at the start, and after every rescan; also of what is disabled
Prefill(history) ==
  LET bars == Suffix(history, MaxLen(kind, window))
  IN /\ kind \in Buffered /\ Len(tape) + Len(bars) < MaxTime /\ (live \/ now = 0)
     /\ buffer' = Pushed(bars) /\ capacity' = Capacity
     /\ tape' = tape \o [i \in DOMAIN bars |-> Entry("daily", bars[i].price, bars[i].volume, Even)]
     /\ UNCHANGED <<kind, live, enabled, window, now, below, book, ticks, last, changes>>

\* mutant: the base class's reset only
ResetOfBase ==
  /\ ticks' = 0 /\ last' = Silent /\ tape' = <<>>
  /\ UNCHANGED <<capacity, buffer, below, book>>

Reset ==
  /\ capacity' = 0 /\ buffer' = <<>> /\ below' = FALSE /\ book' = Even
  /\ ticks' = 0 /\ last' = Silent /\ tape' = <<>>

\* switching on again is not counted
Change == live /\ IF enabled THEN changes < MaxChanges /\ changes' = changes + 1
                  ELSE UNCHANGED changes

\* StrategyRegistry.toggle resets what it switches on
Toggle ==
  /\ Change /\ enabled' = ~enabled
  /\ IF enabled THEN UNCHANGED <<capacity, buffer, below, book, ticks, last, tape>> ELSE Reset
  /\ UNCHANGED <<kind, live, window, now>>

\* set_enabled, of a mode or of the settings page, does not
SetEnabled ==
  /\ Change /\ enabled' = ~enabled
  /\ UNCHANGED <<kind, live, window, now, capacity, buffer, below, book, ticks, last, tape>>

Configure(w) ==
  /\ enabled /\ Change /\ w # window /\ window' = w
  /\ UNCHANGED <<kind, live, enabled, now, capacity, buffer, below, book, ticks, last, tape>>

Next ==
  \/ \E p \in Prices, v \in (IF kind \in ReadsVolume THEN Volumes ELSE {0}) : Tick(p, v)
  \/ \E bk \in Books : Book(bk)
  \/ \E history \in Histories : Prefill(history)
  \/ Toggle \/ SetEnabled
  \/ \E w \in Windows : Configure(w)

Spec == Init /\ [][Next]_vars

-----------------------------------------------------------------------------
TypeOK ==
  /\ kind \in Kinds /\ live \in BOOLEAN /\ enabled \in BOOLEAN
  /\ window \in Windows /\ now \in 0 .. Cooldown + MaxTime
  /\ Len(buffer) <= capacity /\ below \in BOOLEAN /\ book \in Books \cup {Even}
  /\ last \in [Sides -> -1 .. Cooldown + MaxTime]

(***************************************************************************)
(* What a strategy should say, from the tape alone.                        *)
(***************************************************************************)
\* the prices and volumes among the first i entries, oldest first
Seen(i) ==
  LET seen[j \in 0 .. Len(tape)] ==
        IF j = 0 THEN <<>>
        ELSE IF tape[j].what = "book" THEN seen[j - 1]
        ELSE Append(seen[j - 1], [price |-> tape[j].price, volume |-> tape[j].volume])
  IN seen[i]

Bars(i) == IF kind \in Buffered THEN Suffix(Seen(i), MaxLen(kind, tape[i].window)) ELSE Seen(i)

BandTicks(i) == {j \in 1 .. i : tape[j].what = "tick" /\ HasBands(Bars(j), tape[j].window)}
WasBelow(i) == BandTicks(i) # {} /\ BelowBand(Bars(Max(BandTicks(i))))

BookAt(i) ==
  LET books == {j \in 1 .. i : tape[j].what = "book" /\ tape[j].book # <<0, 0>>}
  IN IF books = {} THEN Even ELSE tape[Max(books)].book

WantedAt(i) ==
  IF tape[i].what = "tick" THEN Wants(Bars(i), tape[i].window, WasBelow(i - 1), BookAt(i))
  ELSE IF kind = "orderbook" THEN OrderbookWants(tape[i].book) ELSE {}

QuietBefore(i, side) ==
  /\ \A j \in 1 .. i - 1 : tape[j].said = side => tape[i].at - tape[j].at >= Cooldown
  /\ live /\ (\A j \in 1 .. i - 1 : tape[j].said # side) => tape[i].at >= Cooldown

Fits(e) == kind \in Buffered => e.size = MaxLen(kind, e.window)

(***************************************************************************)
(* A strategy says what its condition on the last prices since its reset   *)
(* says, BUY before SELL, and never twice the same within the cooldown; a  *)
(* live one is silent in the first seconds of the clock (base.py:39-55),   *)
(* whatever prefills bring in between and modes switch off and on.  But a  *)
(* window configured at run time (routes.py:891) does not change the       *)
(* buffers there are: one raised above their size silences the strategy    *)
(* until it is reset (bollinger.py:27-34).                                 *)
(***************************************************************************)
SaysWhatItSaw ==
  LET i == Len(tape)
  IN i > 0 /\ tape[i].what # "daily" =>
       /\ (\A j \in DOMAIN tape : Fits(tape[j])) =>
            LET able == {s \in WantedAt(i) : QuietBefore(i, s)}
            IN tape[i].said = (IF "BUY" \in able THEN "BUY"
                               ELSE IF "SELL" \in able THEN "SELL" ELSE "none")
       /\ (kind \in Buffered /\ tape[i].size < tape[i].window) => tape[i].said = "none"
=============================================================================
