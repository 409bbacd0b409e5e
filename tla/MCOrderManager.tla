--------------------------- MODULE MCOrderManager ---------------------------
(***************************************************************************)
(* Five orders on two symbols: enough for two orders of one symbol and one *)
(* of the other to wait together and for two more to follow a cancelled    *)
(* one.                                                                    *)
(***************************************************************************)
EXTENDS OrderManager

CONSTANTS o1, o2, o3, o4, o5, sx, sy

MCSymbolOf == o1 :> sx @@ o2 :> sy @@ o3 :> sx @@ o4 :> sy @@ o5 :> sx
=============================================================================
