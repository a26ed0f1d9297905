--------------------------- MODULE MCDashboardReads ---------------------------
(* Small instances of DashboardReads for TLC.                              *)
EXTENDS DashboardReads, TLC

CONSTANTS none, closed

\* A session of five minutes, so that two-minute bars end in a shorter one, and
\* the first minutes of another.
Monday == [open |-> 1, close |-> 6]
Tuesday == [open |-> 8, close |-> 10]
MCSessions == {Monday, Tuesday}
MCWeekOf == [s \in MCSessions |-> 1]
MCMonthOf == [s \in MCSessions |-> IF s = Monday THEN 1 ELSE 2]

TwoMinutes == [unit |-> "minute", length |-> 2]
MCIntervals == {TwoMinutes, [unit |-> "day"], [unit |-> "week"], [unit |-> "month"]}

MCProviderAnswers ==
    LET bar(s, e) == [start |-> s, end |-> e]
    IN  {<<>>, <<bar(1, 3), bar(3, 5)>>, <<bar(3, 5), bar(1, 3)>>}

\* Three days of two weeks; the month changes within the first week.
MCCloses == 1..3
MCResults == {-3, 1, 2}
MCPeriodOf == [kind \in {"daily", "weekly", "monthly"} |->
                 CASE kind = "daily"   -> <<1, 2, 3>>
                   [] kind = "weekly"  -> <<1, 1, 2>>
                   [] kind = "monthly" -> <<1, 2, 2>>]

\* A flat chart, and one that is longer than a live series may be, with two
\* points of the same time.
MCChartHistories ==
    LET point(t, p) == [at |-> t, price |-> p]
    IN  {<<>>, <<point(2, 3), point(5, 3)>>, <<point(1, 2), point(2, 4), point(2, 1), point(4, 2), point(5, 2)>>}
==============================================================================
