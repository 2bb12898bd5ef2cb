----------------------------- MODULE MCLearning -----------------------------
(* Two events with features, each of which may raise, committed in any order;  *)
(* one symbol, trained twice.                                                 *)
EXTENDS Learning
MCEvents == 1..2
MCTs == <<1, 2>>
MCSymbolOf == <<1, 1>>
MCThresholds == {{"max_drawdown"}}
=============================================================================
