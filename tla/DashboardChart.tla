---------------------------- MODULE DashboardChart -----------------------------
(***************************************************************************)
(* The chart of the dashboard (App in src/frontend/src/main.jsx): history  *)
(* is loaded for the selected symbol and range, live ticks of the symbol   *)
(* join it, and charts shown before are cached.                            *)
(*                                                                         *)
(* Requests, the socket, the flush timer and React's effects take turns in *)
(* any order.  The effects of a selection run some time after it.          *)
(***************************************************************************)
EXTENDS ChartSeries

CONSTANTS
    Symbols,
    Ranges,       \* CHART_RANGES
    TickDriven,   \* the ranges that are drawn from ticks if there are any
    FirstRange,   \* the range of a new page
    Visited,      \* bound: the charts that are selected
    None,
    Histories,    \* what the server may know of a symbol: times in order
    TickTimes,    \* times of live ticks
    MaxRefusals   \* bound: aborted loads whose error is still being read

Charts == [symbol : Symbols, range : Ranges]
Points == [symbol : Symbols, at : Nat]
Loads == [cached : BOOLEAN, pc : {"ticks", "candles", "refused"}]

ASSUME DashboardChartAssumption ==
    /\ Visited \subseteq Charts
    /\ FirstRange \in Ranges /\ TickDriven \subseteq Ranges
    /\ None \notin Symbols \cup Charts \cup Loads \cup {"connecting", "open", "closed"}
    /\ None \notin Seq(Points)
    /\ Histories \subseteq Seq(Nat) /\ TickTimes \subseteq Nat /\ MaxRefusals \in Nat
    /\ \A h \in Histories : \A i, j \in DOMAIN h : i < j => h[i] <= h[j]

VARIABLES
    wanted,       \* the symbol and range selected
    ran,          \* those the effects have run for
    active,       \* activeChartRef: the chart whose points are on screen
    series,       \* seriesRef, and the state of the same name
    chartCache,
    load,         \* the load of the last effect, until it ends
    refusals,     \* aborted loads whose error body is being read
    chartLoading,
    socket,       \* the socket of the last effect
    closing,      \* an older socket has yet to report its end
    chartLive,
    pendingTick,
    timer,        \* the flush is scheduled
    timerRef      \* tickFlushTimer holds a timer

chart == <<active, series, chartCache>>
live == <<socket, closing, chartLive, pendingTick, timer, timerRef>>
vars == <<wanted, ran, chart, load, refusals, chartLoading, live>>

Selections == Charts \cup [symbol : {None}, range : Ranges]

Init ==
    /\ wanted = [symbol |-> None, range |-> FirstRange] /\ ran = wanted
    /\ active = None /\ series = <<>>
    /\ chartCache = [c \in Charts |-> None]
    /\ load = None /\ refusals = 0 /\ chartLoading = FALSE
    /\ socket = None /\ closing = FALSE /\ chartLive = FALSE
    /\ pendingTick = None /\ timer = FALSE /\ timerRef = FALSE

--------------------------------------------------------------------------------
(* Selections and their effects.                                           *)

\* The operator, a refresh or a save selects another symbol or range.
Select(selection) ==
    /\ selection # wanted
    /\ wanted' = selection
    /\ UNCHANGED <<ran, chart, load, refusals, chartLoading, live>>

Show(c, points) == active' = c /\ series' = points

\* controller.abort: a load ends in silence, but not if its error is being read.
Abort ==
    refusals' = IF load # None /\ load.pc = "refused" /\ ~load.cached
                  THEN refusals + 1 ELSE refusals

\* Mutant: the spinner of an aborted load is left to that load.
SpinUnselected == UNCHANGED chartLoading
Spin == chartLoading' = FALSE

LoadEffect ==
    /\ Abort
    /\ UNCHANGED chartCache
    /\ IF wanted.symbol = None
         THEN Show(None, <<>>) /\ Spin /\ load' = None
         ELSE LET cached == chartCache[wanted] # None
              IN  /\ IF cached THEN Show(wanted, chartCache[wanted])
                               ELSE UNCHANGED <<active, series>>
                  /\ chartLoading' = ~cached
                  /\ load' = [cached |-> cached,
                              pc |-> IF wanted.range \in TickDriven THEN "ticks" ELSE "candles"]

\* The old socket is closed, deaf and without a timer; a new one connects.
SocketEffect ==
    IF wanted.symbol = ran.symbol THEN UNCHANGED live
    ELSE /\ closing' = (closing \/ socket \in {"connecting", "open"})
         /\ socket' = IF wanted.symbol = None THEN None ELSE "connecting"
         /\ chartLive' = (chartLive /\ wanted.symbol # None)
         /\ pendingTick' = None /\ timer' = FALSE /\ timerRef' = FALSE

RunEffects ==
    /\ ran # wanted
    /\ ran' = wanted
    /\ LoadEffect
    /\ SocketEffect
    /\ refusals' <= MaxRefusals
    /\ UNCHANGED wanted

--------------------------------------------------------------------------------
(* loadChartSeries.                                                        *)

PointsOf(times) == [i \in DOMAIN times |-> [symbol |-> ran.symbol, at |-> times[i]]]

EndLoad == load' = None /\ chartLoading' = FALSE

Apply(points) == Show(ran, points) /\ chartCache' = [chartCache EXCEPT ![ran] = points]

\* Two ticks make a chart; with fewer, candles are asked for.
TicksAnswered(times) ==
    /\ load # None /\ load.pc = "ticks"
    /\ IF Len(times) >= 2
         THEN Apply(PointsOf(times)) /\ EndLoad
         ELSE load' = [load EXCEPT !.pc = "candles"] /\ UNCHANGED <<chart, chartLoading>>
    /\ UNCHANGED <<wanted, ran, refusals, live>>

CandlesAnswered(times) ==
    /\ load # None /\ load.pc = "candles"
    /\ Apply(PointsOf(times)) /\ EndLoad
    /\ UNCHANGED <<wanted, ran, refusals, live>>

\* An error status: the body with its detail is still to be read.
LoadRefused ==
    /\ load # None /\ load.pc # "refused"
    /\ load' = [load EXCEPT !.pc = "refused"]
    /\ UNCHANGED <<wanted, ran, chart, refusals, chartLoading, live>>

\* Mutant: an error leaves the chart on screen.
KeepShown == UNCHANGED <<active, series, chartCache>>

\* activeChartRef keeps naming the chart whose points are cleared.
ClearSeries == series' = <<>> /\ UNCHANGED <<active, chartCache>>

\* The error is read, or the connection breaks: a cached chart stays.
LoadFails ==
    /\ load # None
    /\ IF load.cached THEN UNCHANGED chart ELSE ClearSeries
    /\ EndLoad
    /\ UNCHANGED <<wanted, ran, refusals, live>>

\* The error of an aborted load is no AbortError.
AbortedLoadFails ==
    /\ refusals > 0
    /\ refusals' = refusals - 1
    /\ ClearSeries
    /\ UNCHANGED <<wanted, ran, load, chartLoading, live>>

--------------------------------------------------------------------------------
(* Live ticks.                                                             *)

SocketOpens ==
    /\ socket = "connecting"
    /\ socket' = "open" /\ chartLive' = TRUE
    /\ UNCHANGED <<wanted, ran, chart, load, refusals, chartLoading, closing, pendingTick, timer, timerRef>>

\* No connection, an error, or the end of one; nothing connects again.
SocketCloses ==
    /\ socket \in {"connecting", "open"}
    /\ socket' = "closed" /\ chartLive' = FALSE
    /\ UNCHANGED <<wanted, ran, chart, load, refusals, chartLoading, closing, pendingTick, timer, timerRef>>

\* Mutant: the end of an older socket turns the light off.
OldSocketDarkens ==
    /\ closing
    /\ closing' = FALSE /\ chartLive' = FALSE
    /\ UNCHANGED <<wanted, ran, chart, load, refusals, chartLoading, socket, pendingTick, timer, timerRef>>

\* The end of an older socket is no longer of interest: active is false.
OldSocketCloses ==
    /\ closing
    /\ closing' = FALSE
    /\ UNCHANGED <<wanted, ran, chart, load, refusals, chartLoading, socket, chartLive,
                   pendingTick, timer, timerRef>>

\* The hub sends the ticks of all symbols, some of them out of order or lost.
\* One of this symbol replaces the one that waits to be flushed.
Receive(tick) ==
    /\ socket = "open"
    /\ tick.symbol = ran.symbol
    /\ pendingTick' = tick
    /\ timer' = (timer \/ ~timerRef) /\ timerRef' = TRUE
    /\ UNCHANGED <<wanted, ran, chart, load, refusals, chartLoading, socket, closing, chartLive>>

\* Mutant: a tick joins whatever chart is on screen.
AnyShown == active # None

\* While the chart of a new symbol loads, the old one is still on screen.
ShowsItsSymbol == active # None /\ active.symbol = ran.symbol

FlushTick ==
    /\ timer
    /\ timer' = FALSE /\ timerRef' = FALSE /\ pendingTick' = None
    /\ IF pendingTick # None /\ ShowsItsSymbol
         THEN /\ series' = MergeLivePoint(series, pendingTick)
              /\ chartCache' = [chartCache EXCEPT ![active] = series']
              /\ UNCHANGED active
         ELSE UNCHANGED chart
    /\ UNCHANGED <<wanted, ran, load, refusals, chartLoading, socket, closing, chartLive>>

--------------------------------------------------------------------------------
LoadEnds ==
    \/ \E times \in Histories : TicksAnswered(times) \/ CandlesAnswered(times)
    \/ LoadFails

Next ==
    \/ \E selection \in Visited \cup [symbol : {None}, range : {FirstRange}] : Select(selection)
    \/ RunEffects
    \/ LoadEnds \/ LoadRefused \/ AbortedLoadFails
    \/ SocketOpens \/ SocketCloses \/ OldSocketCloses
    \/ \E symbol \in Symbols, t \in TickTimes : Receive([symbol |-> symbol, at |-> t])
    \/ FlushTick

\* React runs its effects, timers fire, and every request ends.
Fairness ==
    /\ WF_vars(RunEffects)
    /\ WF_vars(LoadEnds) /\ WF_vars(AbortedLoadFails)
    /\ WF_vars(FlushTick)

Spec == Init /\ [][Next]_vars /\ Fairness

--------------------------------------------------------------------------------
(* Properties.                                                             *)

TypeOK ==
    /\ {wanted, ran} \subseteq Selections
    /\ active \in Charts \cup {None}
    /\ series \in Seq(Points)
    /\ chartCache \in [Charts -> {None} \cup Seq(Points)]
    /\ load \in Loads \cup {None}
    /\ refusals \in 0..MaxRefusals
    /\ {chartLoading, closing, chartLive, timer, timerRef} \subseteq BOOLEAN
    /\ socket \in {None, "connecting", "open", "closed"}
    /\ pendingTick \in Points \cup {None}

\* The light tells what the socket of the selected symbol does, although the
\* end of an older socket is reported at any later time.
LightFollowsSocket ==
    /\ socket = "open" => chartLive
    /\ socket \in {None, "closed"} => ~chartLive

\* The spinner is on while a chart is loaded that was not in the cache.  While
\* it is off, only points of the effects' symbol are on screen or wait.
SpinnerInv ==
    /\ chartLoading <=> load # None /\ ~load.cached
    /\ load # None => ran.symbol # None
    /\ ~chartLoading => \A i \in DOMAIN series : series[i].symbol = ran.symbol
    /\ pendingTick # None => pendingTick.symbol = ran.symbol

ChartInv == TypeOK /\ LightFollowsSocket /\ SpinnerInv

\* A chart has points of its own symbol only, in order of time, however ticks
\* are reordered and selections change while a load or a flush is pending; and
\* what is on screen is what coming back to it will show.
ChartsStaySound ==
    /\ \A c \in Charts : chartCache[c] # None =>
         /\ \A i \in DOMAIN chartCache[c] : chartCache[c][i].symbol = c.symbol
         /\ Ordered(chartCache[c])
    /\ series # <<>> => active # None /\ chartCache[active] = series

\* When nothing is loading and the effects have run, the points on screen are
\* of the symbol in the heading.
SettledChartIsSelected ==
    ran = wanted /\ ~chartLoading =>
        \A i \in DOMAIN series : series[i].symbol = wanted.symbol

\* Unless selections change forever, the spinner goes out, whichever loads are
\* aborted, refused or fail; and a tick that was received does not stay pending.
ChartCatchesUp ==
    /\ \/ []<><<wanted' # wanted>>_vars
       \/ chartLoading ~> ~chartLoading
    /\ pendingTick # None ~> pendingTick = None
================================================================================
