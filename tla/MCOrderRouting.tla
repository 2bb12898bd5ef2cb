--------------------------- MODULE MCOrderRouting ---------------------------
(* Small instances of OrderRouting for TLC.                                 *)
EXTENDS OrderRouting

MCVenues == <<"binance", "okx">>
=============================================================================
