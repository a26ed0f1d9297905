----------------------------- MODULE MCMarketFeed ------------------------------
(* Small instances of MarketFeed for TLC.                                  *)
EXTENDS MarketFeed, TLC

CONSTANTS a, b, k1, k2

\* Two symbols on two shards: a's full queue holds b up.
MCShardOf == [s \in Symbols |-> IF s = a THEN k1 ELSE k2]
MCMaxTrades == [s \in Symbols |-> IF s = a THEN 3 ELSE 1]
===============================================================================
