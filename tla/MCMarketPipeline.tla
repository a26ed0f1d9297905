-------------------------- MODULE MCMarketPipeline ---------------------------
(* Small instances of MarketPipeline for TLC.                              *)
EXTENDS MarketPipeline, TLC

CONSTANTS consumer, request, closed

\* Three buckets, the middle one with two event times, and a time between two
\* sessions; three ticks are enough to end two bars.
MCTimes == 0..4
MCBucketOf == [t \in MCTimes |-> CASE t = 0 -> 0
                                  [] t = 1 -> closed
                                  [] t \in {2, 3} -> 1
                                  [] t = 4 -> 2]
==============================================================================
