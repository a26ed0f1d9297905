--------------------------- MODULE ExchangeCalendar ---------------------------
(***************************************************************************)
(* XnysExchangeCalendar (src/market_data/exchange_calendar.py): which bar  *)
(* an event time belongs to.  Times are minutes.                           *)
(***************************************************************************)
EXTENDS Integers, FiniteSets

CONSTANTS
    Sessions,       \* the schedule: [open, close] per trading day
    WeekOf, MonthOf, \* [Sessions -> calendar week, month]
    NoBucket

ASSUME CalendarAssumption ==
    /\ Sessions \subseteq [open : Nat, close : Nat] /\ IsFiniteSet(Sessions)
    /\ \A s \in Sessions : s.open < s.close
    /\ \A s, r \in Sessions : s = r \/ s.close <= r.open \/ r.close <= s.open
    /\ {WeekOf, MonthOf} \subseteq [Sessions -> Nat]
    /\ \A s, r \in Sessions :
         s.open <= r.open => WeekOf[s] <= WeekOf[r] /\ MonthOf[s] <= MonthOf[r]
    /\ NoBucket \notin [start : Nat, end : Nat]

\* A minute is open from the opening bell to the last minute before the close.
IsOpen(t) == \E s \in Sessions : s.open <= t /\ t < s.close
SessionOf(t) == CHOOSE s \in Sessions : s.open <= t /\ t < s.close

\* Mutant: a bar that starts before the close lasts its full duration.
Untruncated(t, duration) ==
    LET start == SessionOf(t).open + ((t - SessionOf(t).open) \div duration) * duration
    IN  [start |-> start, end |-> start + duration]
\* Intraday bars count from the opening bell; the last one ends at the close.
Intraday(t, duration) ==
    LET session == SessionOf(t)
        start == session.open + ((t - session.open) \div duration) * duration
    IN  [start |-> start,
         end |-> IF start + duration < session.close THEN start + duration ELSE session.close]

\* From the first opening to the last close of the sessions of one period.
Spanning(sessions) ==
    [start |-> (CHOOSE s \in sessions : \A r \in sessions : s.open <= r.open).open,
     end |-> (CHOOSE s \in sessions : \A r \in sessions : r.close <= s.close).close]
SameWeek(t) == {s \in Sessions : WeekOf[s] = WeekOf[SessionOf(t)]}
SameMonth(t) == {s \in Sessions : MonthOf[s] = MonthOf[SessionOf(t)]}

\* An interval is [unit |-> "minute", length |-> n], or a day, week or month.
BucketFor(t, interval) ==
    IF ~IsOpen(t) THEN NoBucket ELSE
    CASE interval.unit = "day"        -> Spanning({SessionOf(t)})
      [] interval.unit = "week"   -> Spanning(SameWeek(t))
      [] interval.unit = "month"  -> Spanning(SameMonth(t))
      [] interval.unit = "minute" -> Intraday(t, interval.length)
===============================================================================
