---------------------------- MODULE SignalAnalytics ----------------------------
(***************************************************************************)
(* AnalyticsEngine (src/analytics/engine.py) over the table of observed    *)
(* closes (src/repositories/outcome_repository.py).  An outcome has an     *)
(* identity, a close time and a realized result; averages and ratios of    *)
(* the statistics are functions of the counts and sums kept here.          *)
(***************************************************************************)
EXTENDS Integers, Sequences, FiniteSets

CONSTANTS
    OutcomeIds,
    Closes,             \* close times
    Results,            \* realized profits and losses
    PeriodOf,           \* period, by "daily", "weekly", "monthly" and close time
    StartingEquity

ASSUME AnalyticsAssumption ==
    /\ OutcomeIds \cup Closes \subseteq Nat
    /\ Results \subseteq Int
    /\ StartingEquity \in Nat \ {0}
    /\ \A kind \in DOMAIN PeriodOf :
         /\ PeriodOf[kind] \in [Closes -> Nat]
         /\ \A t, u \in Closes : t <= u => PeriodOf[kind][t] <= PeriodOf[kind][u]

VARIABLE outcomes       \* rows of signal_outcomes

Outcomes == [id : OutcomeIds, closed : Closes, result : Results]

\* A second outcome under the same id is refused.
RecordOutcome(o) ==
    /\ \A r \in outcomes : r.id # o.id
    /\ outcomes' = outcomes \cup {o}

AnalyticsNext == \E o \in Outcomes : RecordOutcome(o)
AnalyticsSpec == outcomes = {} /\ [][AnalyticsNext]_outcomes

\* The rows in the order of the query: ascending close time, then id.
ListedBefore(o, r) == o.closed < r.closed \/ (o.closed = r.closed /\ o.id < r.id)
Listed(rows) ==
    CHOOSE list \in [1..Cardinality(rows) -> rows] :
        \A i, j \in DOMAIN list : i < j => ListedBefore(list[i], list[j])

(* Statistics are of the outcomes at some positions of the list: of all,   *)
(* of the gains or losses, or of one period.                               *)
Gains(list, group) == {i \in group : list[i].result > 0}
Losses(list, group) == {i \in group : list[i].result < 0}

\* The totals a sum over the group goes through.
Totals(list, group) ==
    LET total[i \in 0..Len(list)] ==
            IF i = 0 THEN 0
            ELSE IF i \in group THEN total[i - 1] + list[i].result ELSE total[i - 1]
    IN  total
Total(list, group) == Totals(list, group)[Len(list)]

\* Mutant: the peak starts at zero instead of the starting equity.
FromZero == [equity |-> StartingEquity, peak |-> 0, drawdown |-> 0, fraction |-> <<0, 1>>]
AtStart == [equity |-> StartingEquity, peak |-> StartingEquity, drawdown |-> 0, fraction |-> <<0, 1>>]

\* One outcome further: the fraction belongs to the deepest fall so far.
Fall(state, result) ==
    LET equity == state.equity + result
        peak == IF equity > state.peak THEN equity ELSE state.peak
    IN  IF peak - equity > state.drawdown
          THEN [equity |-> equity, peak |-> peak, drawdown |-> peak - equity,
                fraction |-> <<peak - equity, peak>>]
          ELSE [state EXCEPT !.equity = equity, !.peak = peak]
Falls(list, group) ==
    LET after[i \in 0..Len(list)] ==
            IF i = 0 THEN AtStart
            ELSE IF i \in group THEN Fall(after[i - 1], list[i].result) ELSE after[i - 1]
    IN  after
MaximumDrawdown(list, group) == Falls(list, group)[Len(list)]

Statistics(list, group) ==
    [signals |-> Cardinality(group),
     winning |-> Cardinality(Gains(list, group)),
     losing |-> Cardinality(Losses(list, group)),
     gain |-> Total(list, Gains(list, group)),
     loss |-> -Total(list, Losses(list, group)),
     drawdown |-> MaximumDrawdown(list, group).drawdown,
     fraction |-> MaximumDrawdown(list, group).fraction]

Periods(list, kind) == {PeriodOf[kind][list[i].closed] : i \in DOMAIN list}
InPeriod(list, kind, period) == {i \in DOMAIN list : PeriodOf[kind][list[i].closed] = period}

PeriodStatistics(list, kind) ==
    [period \in Periods(list, kind) |-> Statistics(list, InPeriod(list, kind, period))]

Snapshot ==
    LET list == Listed(outcomes)
    IN  [overall |-> Statistics(list, DOMAIN list),
         periods |-> [kind \in DOMAIN PeriodOf |-> PeriodStatistics(list, kind)]]

------------------------------------------------------------------------------
(* Properties.                                                             *)

\* The account after each close, in order of closing, as a reference.
EquityCurve(list, group) ==
    [i \in 0..Len(list) |-> StartingEquity + Totals(list, group)[i]]

\* A point of the curve and the same or a later one, between which it falls.
Spans(curve) == {span \in (DOMAIN curve) \X (DOMAIN curve) : span[1] <= span[2]}
FallOf(curve, span) == curve[span[1]] - curve[span[2]]

\* The single pass finds the deepest fall from any point of the equity curve to
\* a later one, in order of closing, in whatever order outcomes were recorded,
\* and gives it as a fraction of the equity it started from.
DrawdownIsDeepestFall ==
    LET list == Listed(outcomes)
        curve == EquityCurve(list, DOMAIN list)
        drawdown == Snapshot.overall.drawdown
    IN  /\ \A span \in Spans(curve) : FallOf(curve, span) <= drawdown
        /\ \E span \in Spans(curve) :
             /\ FallOf(curve, span) = drawdown
             /\ drawdown > 0 => Snapshot.overall.fraction = <<drawdown, curve[span[1]]>>

\* A sum of natural numbers, as the number of its units.
UnitsOf(f) == UNION {{x} \X (1..f[x]) : x \in DOMAIN f}
SumOf(f) == Cardinality(UnitsOf(f))

\* Daily, weekly and monthly statistics each add up to the overall ones, and no
\* period falls deeper than the whole.
PeriodsAddUp ==
    LET snapshot == Snapshot
    IN  \A kind \in DOMAIN PeriodOf :
          LET periods == snapshot.periods[kind]
          IN  /\ \A field \in {"signals", "winning", "losing", "gain", "loss"} :
                   /\ \A period \in DOMAIN periods : periods[period][field] \in Nat
                   /\ SumOf([period \in DOMAIN periods |-> periods[period][field]])
                        = snapshot.overall[field]
              /\ \A period \in DOMAIN periods :
                   periods[period].drawdown <= snapshot.overall.drawdown

AnalyticsFollowOutcomes == outcomes # {} => DrawdownIsDeepestFall /\ PeriodsAddUp
===============================================================================
