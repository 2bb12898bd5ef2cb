---------------------------- MODULE MCTradingAgent ----------------------------
(* Two symbols, prices that may double: enough for an order that the price   *)
(* outruns, a kill switch, a trailing stop and a trade past the exposure cap.*)
EXTENDS TradingAgent
MCPrices == {1, 2}
=============================================================================
