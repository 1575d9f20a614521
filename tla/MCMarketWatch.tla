---------------------------- MODULE MCMarketWatch ----------------------------
(* A few polls around one level, with one request or write that fails.       *)
EXTENDS MarketWatch
===============================================================================
