---------------------------- MODULE DashboardReads -----------------------------
(***************************************************************************)
(* The read side of the dashboard: candles and charts of a symbol          *)
(* (MarketHistory), analytics over the recorded outcomes (SignalAnalytics, *)
(* src/api/routes/signals.py), and the drawing of a chart (PriceChart).    *)
(***************************************************************************)
EXTENDS MarketHistory, SignalAnalytics, PriceChart

ReadInit == Init /\ outcomes = {} /\ PriceChartInit

readVars == <<vars, outcomes, priceChart>>

\* Bound: a behaviour has ticks, outcomes or a chart.  No read combines them.
NoTicks == ticks = <<>> /\ answer = None
NoChart == domainRef.key < 0 /\ transitionKey = 0

ReadMarket == outcomes = {} /\ NoChart /\ Next /\ UNCHANGED <<outcomes, priceChart>>

Record ==
    /\ NoTicks /\ NoChart
    /\ AnalyticsNext
    /\ UNCHANGED <<vars, priceChart>>

DrawChart ==
    /\ NoTicks /\ (\A t \in Minutes : now <= t) /\ outcomes = {}
    /\ PriceChartNext
    /\ UNCHANGED <<vars, outcomes>>

ReadNext == ReadMarket \/ Record \/ DrawChart

ReadSpec == ReadInit /\ [][ReadNext]_readVars
===============================================================================
