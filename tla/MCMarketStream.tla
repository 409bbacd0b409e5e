--------------------------- MODULE MCMarketStream ---------------------------
(***************************************************************************)
(* Two symbols and two rescan loops: one symbol may be removed while the   *)
(* other is added, by two tasks at once, while the receive loop is in the  *)
(* middle of subscribing to both.                                          *)
(***************************************************************************)
EXTENDS MarketStream
=============================================================================
