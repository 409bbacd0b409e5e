------------------------------ MODULE MCServices ------------------------------
(***************************************************************************)
(* The instance of Services for TLC.  Five orders on two symbols: enough   *)
(* for two orders of one symbol and one of the other to wait together; a   *)
(* fetch by the loop and one after an event, and an order more than the    *)
(* two pages hold that a fetch asks for; two requests for two pages; two   *)
(* dashboards; two rescans, one of either kind, on two stocks.             *)
(***************************************************************************)
EXTENDS Services

OrderSymbols == [o \in Orders |-> IF o \in {"o2", "o4"} THEN "sy" ELSE "sx"]
=============================================================================
