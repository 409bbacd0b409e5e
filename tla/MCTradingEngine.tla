--------------------------- MODULE MCTradingEngine ---------------------------
(***************************************************************************)
(* Instances of TradingEngine for TLC.  MCTradingEngine.cfg has two        *)
(* symbols, two strategies and two buys: two tasks race for one symbol     *)
(* while another is traded.  MCTradingEngineFaults.cfg has one symbol and  *)
(* everything the environment may do; MCTradingEngineLive.cfg adds         *)
(* fairness and partial fills.  The other configurations show where the    *)
(* engine departs from its documentation, each on the smallest instance    *)
(* that does.                                                              *)
(***************************************************************************)
EXTENDS TradingEngine, TLC

CONSTANTS sx, sy, ma_cross, momentum

MCSymmetry == Permutations(Symbols) \cup Permutations(Strategies)

(***************************************************************************)
(* config/settings.toml:32, README.md:150: the account never holds more    *)
(* than max_position_size of a symbol, because a symbol already held is    *)
(* not bought again.  (Checks the BUY path of engine.py:304-318 against    *)
(* the stale merge of kis.py:221-264.)                                     *)
(***************************************************************************)
HoldingLimit ==
  \A s \in Symbols : shares[s] + working[s]["buy"] <= MaxSize

(***************************************************************************)
(* README.md:148, 171: stop loss and take profit are always active.  A     *)
(* symbol that stays in the account of a running engine is watched by it   *)
(* sooner or later.                                                        *)
(***************************************************************************)
AlwaysProtected ==
  \A s \in Symbols :
    (running /\ shares[s] > 0)
       ~> (~running \/ shares[s] = 0 \/ Held(mem, s))
=============================================================================
