----------------------------- MODULE MarketHistory ----------------------------
(***************************************************************************)
(* What the dashboard reads back of one symbol: historical candles         *)
(* (src/market_data/candle_history.py), from the provider or from stored   *)
(* ticks, and the tick chart (src/market_data/tick_chart.py), over a tick  *)
(* store that may forget the oldest ticks (src/market_data/tick_store.py). *)
(***************************************************************************)
EXTENDS ExchangeCalendar, Sequences, FiniteSets, SequencesExt

CONSTANTS
    Intervals,
    Minutes,            \* times at which ticks arrive or the clock stands
    Prices,
    MaxTicks,           \* bound: ticks received in all
    BufferSize,         \* InMemoryTickStore._max_ticks_per_symbol
    Bounds,             \* start_at and end_at of requests
    ProviderAnswers,    \* bars a provider may answer with, as sequences of buckets
    Points,             \* max_points of charts
    None

ASSUME HistoryAssumption ==
    /\ Minutes \cup Bounds \subseteq Nat
    /\ Prices \subseteq Nat
    /\ BufferSize \in Nat \ {0}
    /\ \A m \in Points : m \in Nat /\ m >= 3
    /\ \A interval \in Intervals :
         \/ interval.unit \in {"day", "week", "month"}
         \/ interval.unit = "minute" /\ interval.length \in Nat \ {0}
    /\ ProviderAnswers \subseteq Seq([start : Nat, end : Nat])
    /\ \A bars \in ProviderAnswers : \A i, j \in DOMAIN bars :
         /\ bars[i].start < bars[i].end
         /\ i # j => bars[i].end <= bars[j].start \/ bars[j].end <= bars[i].start
    /\ None \notin [start : Nat, end : Nat, ticks : Seq(Nat)]

VARIABLES
    now,
    ticks,      \* ticks accepted so far, in order of event time
    answer      \* of the first request: reading changes nothing, so it ends a behaviour

vars == <<now, ticks, answer>>

\* Ticks are named by their position; the store keeps the last BufferSize.
Time(i) == ticks[i].at
Stored == {i \in DOMAIN ticks : i > Len(ticks) - BufferSize}
\* list_ticks: both ends are inclusive, in the buffer and in the table.
ListTicks(start, end) == {i \in Stored : start <= Time(i) /\ Time(i) <= end}

\* The loop that appends to a list those elements of another whose index is kept.
Filtered(seq, kept) ==
    LET after[i \in 0..Len(seq)] ==
            IF i = 0 THEN <<>>
            ELSE IF i \in kept THEN Append(after[i - 1], seq[i]) ELSE after[i - 1]
    IN  after[Len(seq)]
InOrder(positions) == Filtered([i \in DOMAIN ticks |-> i], positions)

Init == now \in Minutes /\ ticks = <<>> /\ answer = None

Wait ==
    /\ \E t \in Minutes : t > now /\ now' = t
    /\ UNCHANGED <<ticks, answer>>

Tick(price) ==
    /\ Len(ticks) < MaxTicks
    /\ ticks' = Append(ticks, [at |-> now, price |-> price])
    /\ UNCHANGED <<now, answer>>

------------------------------------------------------------------------------
(* Candles.                                                                *)

\* The request's own half-open range.
InRange(b, start, end) == b.start >= start /\ b.end <= end

\* _complete_provider_candles: unordered bars are refused, others filtered.
Ascending(bars) == \A i, j \in DOMAIN bars : i < j => bars[i].start <= bars[j].start
FromProvider(bars, start, end) ==
    Filtered(bars, {i \in DOMAIN bars : InRange(bars[i], start, end)})

\* One tick through a fresh CandleEngine; bars it completes are in the update
\* it returns, not in the engine.
Feed(active, i, interval) ==
    LET b == BucketFor(Time(i), interval)
    IN  CASE b = NoBucket -> active
          [] b # NoBucket /\ (active = None \/ b.start > active.start) ->
               [start |-> b.start, end |-> b.end, ticks |-> <<i>>]
          [] OTHER -> [active EXCEPT !.ticks = Append(@, i)]

\* The bar a fresh engine is left with, fed with those ticks in order.
ActiveAfter(used, interval) ==
    LET active[i \in 0..Len(ticks)] ==
            IF i = 0 THEN None
            ELSE IF i \in used THEN Feed(active[i - 1], i, interval) ELSE active[i - 1]
    IN  active[Len(ticks)]

\* Mutant: a bar that began before the request is returned with what is left.
AggregateLoosely(start, end, interval) ==
    LET active == ActiveAfter({i \in ListTicks(start, end) : Time(i) < end}, interval)
    IN  IF active # None /\ active.end <= end THEN <<active>> ELSE <<>>
\* aggregate_fallback_ticks: the updates are not kept, so only the bar that is
\* active after the last tick is finalized.
Aggregate(start, end, interval) ==
    LET active == ActiveAfter({i \in ListTicks(start, end) : Time(i) < end}, interval)
    IN  IF active # None /\ InRange(active, start, end) THEN <<active>> ELSE <<>>

GetCandles(start, end, interval, provided) ==
    /\ Ascending(provided)
    /\ LET bars == FromProvider(provided, start, end)
       IN  answer' = IF bars # <<>>
                       THEN [kind |-> "provider", start |-> start, end |-> end,
                             interval |-> interval, bars |-> bars]
                       ELSE [kind |-> "fallback", start |-> start, end |-> end,
                             interval |-> interval, bars |-> Aggregate(start, end, interval)]
    /\ UNCHANGED <<now, ticks>>

RefuseProvider(provided) ==
    /\ ~Ascending(provided)
    /\ answer' = [kind |-> "error"]
    /\ UNCHANGED <<now, ticks>>

------------------------------------------------------------------------------
(* The tick chart: largest triangle, three buckets, in exact arithmetic.   *)

Least(x, y) == IF x < y THEN x ELSE y
SumOver(f, first, last) ==
    LET sum[i \in first - 1..last] == IF i < first THEN 0 ELSE sum[i - 1] + f[i]
    IN  sum[last]
Distance(x) == IF x < 0 THEN -x ELSE x

\* Edge k of the inner buckets of n ticks, as a position.
Edge(k, n, m) == (k * (n - 2)) \div (m - 2) + 2

\* Twice the triangle of the previous point, a candidate and the average of the
\* ticks first..last, times their number.
Area(s, previous, i, first, last) ==
    LET count == last - first + 1
        T == [k \in DOMAIN s |-> ticks[s[k]].at]
        P == [k \in DOMAIN s |-> ticks[s[k]].price]
    IN  Distance((T[previous] * count - SumOver(T, first, last)) * (P[i] - P[previous])
                 - (T[previous] - T[i]) * (SumOver(P, first, last) - P[previous] * count))

\* Mutant: the first tick of the next bucket is a candidate too.
CandidatesInclusive(b, n, m) == Least(Edge(b, n, m), n - 1)..Least(Edge(b + 1, n, m), n)
Candidates(b, n, m) ==
    LET first == Least(Edge(b, n, m), n - 1)
        end == Least(Edge(b + 1, n, m), n)
    IN  first..(IF end <= first THEN first ELSE end - 1)

\* The first of the candidates with the largest area.
Pick(s, previous, b, m) ==
    LET n == Len(s)
        first == Least(Edge(b + 1, n, m), n)
        last == Least(Edge(b + 2, n, m), n + 1) - 1
        area == [i \in Candidates(b, n, m) |->
                   Area(s, previous, i, first, IF last < first THEN first ELSE last)]
        best == {i \in DOMAIN area : \A j \in DOMAIN area : area[j] <= area[i]}
    IN  CHOOSE i \in best : \A j \in best : i <= j

\* downsample_ticks, as positions in s: the first, one of each bucket, the last.
Downsample(s, m) ==
    LET selected[k \in 1..m - 1] == IF k = 1 THEN 1 ELSE Pick(s, selected[k - 1], k - 2, m)
    IN  IF Len(s) <= m THEN [k \in 1..Len(s) |-> k]
        ELSE [k \in 1..m |-> IF k = m THEN Len(s) ELSE selected[k]]

ChartTicks(start, end, m) ==
    LET s == InOrder(ListTicks(start, end))
        chosen == Downsample(s, m)
    IN  /\ answer' = [kind |-> "chart", points |-> m, of |-> s,
                      shown |-> [k \in DOMAIN chosen |-> s[chosen[k]]]]
        /\ UNCHANGED <<now, ticks>>

------------------------------------------------------------------------------
Request(start, end) ==
    /\ start < end
    /\ \/ \E interval \in Intervals, provided \in ProviderAnswers :
            GetCandles(start, end, interval, provided)
       \/ \E m \in Points : ChartTicks(start, end, m)

Next ==
    /\ answer = None
    /\ \/ Wait
       \/ \E price \in Prices : Tick(price)
       \/ \E start, end \in Bounds : Request(start, end)
       \/ \E provided \in ProviderAnswers : RefuseProvider(provided)

Spec == Init /\ [][Next]_vars

------------------------------------------------------------------------------
(* Properties.                                                             *)

Answered(kind) == answer # None /\ answer.kind = kind
BucketAt(i, interval) == BucketFor(Time(i), interval)

\* Every tick in session lies in its own bar, and the bars of two ticks are the
\* same or lie one after the other within their sessions, also when the session
\* is no multiple of the interval: the candle engine relies on it to roll over.
BarsPartitionTime ==
    \A interval \in Intervals :
        LET placed == {[at |-> Time(i), bar |-> BucketAt(i, interval)] : i \in DOMAIN ticks}
        IN  \A p, q \in {x \in placed : x.bar # NoBucket} : p.at <= q.at =>
              /\ p.bar.start <= p.at /\ p.at < p.bar.end
              /\ p.bar = q.bar \/ p.bar.end <= q.bar.start
              /\ \E s, r \in Sessions :
                   /\ s.open <= p.bar.start /\ p.bar.end <= r.close
                   /\ interval.unit \in {"minute", "day"} => s = r

\* Candles, from either source, lie wholly within the request and ascend: a
\* vendor's inclusive end does not leak a bar (candle_history.py: "half-open").
AnswersStayInRange ==
    (Answered("provider") \/ Answered("fallback")) =>
        /\ \A k \in DOMAIN answer.bars :
             answer.start <= answer.bars[k].start /\ answer.bars[k].end <= answer.end
        /\ \A k, l \in DOMAIN answer.bars : k < l => answer.bars[k].end <= answer.bars[l].start

\* The ticks of a bar, as a reference.
TicksOf(b) ==
    {i \in DOMAIN ticks : BucketAt(i, answer.interval) = [start |-> b.start, end |-> b.end]}

\* A bar made from ticks holds every tick of its minutes, if the request ends in
\* the past and the store has not dropped one of them.
PastBarsAreWhole ==
    Answered("fallback") /\ answer.end <= now =>
        \A k \in DOMAIN answer.bars :
            LET b == answer.bars[k]
            IN  TicksOf(b) \subseteq Stored => ToSet(b.ticks) = TicksOf(b)

AnswersAreWhole == AnswersStayInRange /\ PastBarsAreWhole

\* A chart is the ticks themselves, or exactly as many as were asked for, in
\* order, with both ends (tick_chart.py: "without losing its endpoints").
ChartsKeepShape ==
    Answered("chart") =>
        /\ Len(answer.shown) = Least(answer.points, Len(answer.of))
        /\ \A k, l \in DOMAIN answer.shown : k < l => answer.shown[k] < answer.shown[l]
        /\ answer.of # <<>> => Head(answer.shown) = Head(answer.of) /\ Last(answer.shown) = Last(answer.of)
===============================================================================
