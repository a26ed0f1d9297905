------------------------------ MODULE ChartSeries ------------------------------
(***************************************************************************)
(* The series of points behind a price chart of the dashboard: how a live  *)
(* tick joins it, how a long one is thinned out, and which point lies      *)
(* nearest to a time (src/frontend/src/main.jsx).  A point has a time, at. *)
(***************************************************************************)
EXTENDS Integers, Sequences

CONSTANTS
    MaxDisplayPoints,     \* MAX_DISPLAY_POINTS
    MaxLiveSeriesPoints,  \* MAX_LIVE_SERIES_POINTS
    LivePointInterval     \* LIVE_POINT_INTERVAL_MS

ASSUME ChartSeriesAssumption ==
    /\ LivePointInterval \in Nat
    /\ MaxDisplayPoints \in Nat \ {0, 1}
    /\ MaxLiveSeriesPoints \in Nat /\ MaxDisplayPoints <= MaxLiveSeriesPoints

Ordered(points) == \A i, j \in DOMAIN points : i < j => points[i].at <= points[j].at

\* Mutant: the steps are rounded down from the length, so the end is cut off.
SampleByLength(points, maximum) ==
    IF Len(points) <= maximum THEN points
    ELSE [i \in 1..maximum |-> points[1 + ((i - 1) * Len(points)) \div maximum]]

\* Equal steps between the first and the last point, each rounded half up.
SamplePoints(points, maximum) ==
    IF Len(points) <= maximum THEN points
    ELSE [i \in 1..maximum |->
            points[1 + (2 * (i - 1) * (Len(points) - 1) + maximum - 1) \div (2 * (maximum - 1))]]

CapLiveSeries(points) ==
    IF Len(points) <= MaxLiveSeriesPoints THEN points
    ELSE SamplePoints(points, MaxDisplayPoints)

\* A tick older than the chart is dropped, one close to the last point replaces
\* that point.
MergeLivePoint(points, incoming) ==
    IF points = <<>> THEN <<incoming>>
    ELSE LET last == points[Len(points)]
         IN  IF incoming.at < last.at THEN points
             ELSE IF incoming.at - last.at <= LivePointInterval
               THEN [points EXCEPT ![Len(points)] = incoming]
             ELSE CapLiveSeries(Append(points, incoming))

Apart(s, t) == IF s < t THEN t - s ELSE s - t

\* Mutant: the point found is taken, although the one before may be nearer.
FirstFrom(points, target) ==
    IF \E i \in DOMAIN points : points[i].at >= target
      THEN CHOOSE i \in DOMAIN points :
             points[i].at >= target /\ \A j \in 1..i - 1 : points[j].at < target
      ELSE Len(points)

\* The binary search: the first point not before the target, or the last one;
\* the one before it unless it is nearer.
NearestIndexByTimestamp(points, target) ==
    LET search[span \in (DOMAIN points) \X (DOMAIN points)] ==
            IF span[1] >= span[2] THEN span[1]
            ELSE LET middle == (span[1] + span[2]) \div 2
                 IN  IF points[middle].at < target THEN search[<<middle + 1, span[2]>>]
                     ELSE search[<<span[1], middle>>]
        low == search[<<1, Len(points)>>]
    IN  IF low = 1 \/ Apart(points[low].at, target) < Apart(points[low - 1].at, target)
          THEN low ELSE low - 1
================================================================================
