------------------------------ MODULE PriceChart -------------------------------
(***************************************************************************)
(* The component PriceChart of src/frontend/src/main.jsx: it thins out and *)
(* scales the points it is given, and follows the pointer.                 *)
(*                                                                         *)
(* Its input is the chart of App: transitionKey grows when a series is put *)
(* in the place of another, and stays when a tick joins it or it is        *)
(* cleared.  The effect on a new key runs after the render, and the state  *)
(* follows the pointer one animation frame late.                           *)
(***************************************************************************)
EXTENDS ChartSeries, FiniteSetsExt

CONSTANTS
    ChartHistories,  \* series that are loaded
    ChartTimes,      \* times of live ticks
    ChartPrices,     \* prices of live ticks
    MinimumRange,    \* the least range of prices that is drawn, here a constant
    MaxTransitions   \* bound: series that are loaded

ChartPoint == [at : Nat, price : Nat]

\* A history is sorted (normalizePoints); its times need not differ.
ASSUME PriceChartAssumption ==
    /\ MinimumRange \in Nat \ {0} /\ MaxTransitions \in Nat
    /\ ChartHistories \subseteq Seq(ChartPoint)
    /\ \A series \in ChartHistories : Ordered(series)
    /\ ChartTimes \subseteq Nat /\ ChartPrices \subseteq Nat

VARIABLES
    points, transitionKey,  \* the properties the component is given
    domainRef,              \* the scale of the last chart drawn, and its key
    effectKey,              \* the key the effect has run for
    hoveredIndex,           \* 0 when no point is
    targetHoverIndex,
    hoverFrame,             \* an animation frame is requested
    aimedAt                 \* history: the key of the chart the target was found on

pointer == <<hoveredIndex, targetHoverIndex, hoverFrame, aimedAt>>
priceChart == <<points, transitionKey, domainRef, effectKey, pointer>>

PriceChartInit ==
    /\ points = <<>> /\ transitionKey = 0 /\ effectKey = 0
    /\ domainRef = [low |-> 0, high |-> 0, key |-> -1]
    /\ hoveredIndex = 0 /\ targetHoverIndex = 0 /\ hoverFrame = FALSE /\ aimedAt = 0

\* What is drawn of a series.
Drawn(series) == SamplePoints(series, MaxDisplayPoints)

\* Within one chart the scale only widens; the next one starts afresh.
Widened(padded, prior, key) ==
    IF prior.key = key
      THEN [low |-> Min({padded.low, prior.low}), high |-> Max({padded.high, prior.high}), key |-> key]
      ELSE padded

\* Prices in twentieths, with a margin of 15 percent; nothing scales no points.
Domain(series, key) ==
    IF series = <<>> THEN domainRef
    ELSE LET prices == {series[i].price : i \in DOMAIN series}
             margin == 3 * Max({Max(prices) - Min(prices), MinimumRange})
         IN  Widened([low |-> 20 * Min(prices) - margin, high |-> 20 * Max(prices) + margin,
                      key |-> key], domainRef, key)

Draw(series, key) ==
    /\ points' = series
    /\ transitionKey' = key
    /\ domainRef' = Domain(Drawn(series), key)

--------------------------------------------------------------------------------
LoadSeries(series) ==
    /\ transitionKey < MaxTransitions
    /\ Draw(series, transitionKey + 1)
    /\ UNCHANGED <<effectKey, pointer>>

MergeTick(tick) ==
    /\ Draw(MergeLivePoint(points, tick), transitionKey)
    /\ UNCHANGED <<effectKey, pointer>>

Clear ==
    /\ Draw(<<>>, transitionKey)
    /\ UNCHANGED <<effectKey, pointer>>

\* Mutant: a target that waits for its frame survives the change of the chart.
ForgetHovered ==
    /\ effectKey # transitionKey
    /\ effectKey' = transitionKey
    /\ hoveredIndex' = 0
    /\ UNCHANGED <<points, transitionKey, domainRef, targetHoverIndex, hoverFrame, aimedAt>>

ForgetHover ==
    /\ effectKey # transitionKey
    /\ effectKey' = transitionKey
    /\ hoveredIndex' = 0 /\ targetHoverIndex' = 0
    /\ UNCHANGED <<points, transitionKey, domainRef, hoverFrame, aimedAt>>

\* The times between the first and the last point: the pointer is clamped.
PointerTimes ==
    LET drawn == Drawn(points)
    IN  IF drawn = <<>> THEN {} ELSE drawn[1].at..Max({drawn[Len(drawn)].at, drawn[1].at + 1})

\* selectPoint: one frame at a time takes over the latest target.
SelectPoint(t) ==
    LET nextIndex == NearestIndexByTimestamp(Drawn(points), t)
    IN  /\ targetHoverIndex # nextIndex
        /\ targetHoverIndex' = nextIndex
        /\ aimedAt' = transitionKey
        /\ hoverFrame' = TRUE
        /\ UNCHANGED <<points, transitionKey, domainRef, effectKey, hoveredIndex>>

AnimationFrame ==
    /\ hoverFrame
    /\ hoverFrame' = FALSE
    /\ hoveredIndex' = targetHoverIndex
    /\ UNCHANGED <<points, transitionKey, domainRef, effectKey, targetHoverIndex, aimedAt>>

ClearHover ==
    /\ points # <<>>
    /\ targetHoverIndex' = 0 /\ hoveredIndex' = 0 /\ hoverFrame' = FALSE
    /\ UNCHANGED <<points, transitionKey, domainRef, effectKey, aimedAt>>

PriceChartNext ==
    \/ \E series \in ChartHistories : LoadSeries(series)
    \/ \E t \in ChartTimes, p \in ChartPrices : MergeTick([at |-> t, price |-> p])
    \/ Clear
    \/ ForgetHover
    \/ \E t \in PointerTimes : SelectPoint(t)
    \/ AnimationFrame
    \/ ClearHover

PriceChartSpec == PriceChartInit /\ [][PriceChartNext]_priceChart

--------------------------------------------------------------------------------
(* Properties.                                                             *)

\* A point is highlighted only if the pointer was over the chart on screen: not
\* one whose index was found on the chart before, although the frame that takes
\* it over may fire after the change.
HoverIsOfThisChart ==
    effectKey = transitionKey /\ hoveredIndex # 0 => aimedAt = transitionKey

\* Live ticks never make a series longer than its cap, unless it was loaded so
\* long.  Thinned out, a chart keeps its order, its ends and some points between
\* them, each of them once, and its scale has room for everything drawn.
DrawnKeepsShape ==
    LET drawn == Drawn(points)
    IN  /\ Ordered(points)
        /\ \/ Len(points) <= MaxLiveSeriesPoints
           \/ \E series \in ChartHistories : Len(points) <= Len(series)
        /\ points # <<>> =>
             /\ drawn[1] = points[1] /\ drawn[Len(drawn)] = points[Len(points)]
             /\ Len(drawn) = Min({Len(points), MaxDisplayPoints})
             /\ \E position \in [DOMAIN drawn -> DOMAIN points] :
                  /\ \A i, j \in DOMAIN drawn : i < j => position[i] < position[j]
                  /\ \A i \in DOMAIN drawn : drawn[i] = points[position[i]]
             /\ \A i \in DOMAIN drawn :
                  domainRef.low <= 20 * drawn[i].price /\ 20 * drawn[i].price <= domainRef.high

\* The binary search finds a point to which no other is nearer in time.
PointerFindsNearest ==
    LET drawn == Drawn(points)
    IN  \A t \in PointerTimes, i \in DOMAIN drawn :
          Apart(drawn[NearestIndexByTimestamp(drawn, t)].at, t) <= Apart(drawn[i].at, t)
================================================================================
