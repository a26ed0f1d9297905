SPECIFICATION ReadSpec
CONSTANTS
    none = none
    closed = closed
    Sessions <- MCSessions
    WeekOf <- MCWeekOf
    MonthOf <- MCMonthOf
    NoBucket = closed
    None = none
    Intervals <- MCIntervals
    Minutes = {2, 5, 8, 10}
    Prices = {1, 3}
    MaxTicks = 6
    BufferSize = 5
    Bounds = {1, 3, 6, 10}
    ProviderAnswers <- MCProviderAnswers
    Points = {3, 4}
    OutcomeIds = {1, 2, 3}
    Closes <- MCCloses
    Results <- MCResults
    PeriodOf <- MCPeriodOf
    StartingEquity = 2
    ChartHistories <- MCChartHistories
    ChartTimes = {3, 5, 7, 9, 11}
    ChartPrices = {1, 3}
    MinimumRange = 1
    MaxTransitions = 1
    MaxDisplayPoints = 3
    MaxLiveSeriesPoints = 4
    LivePointInterval = 1
INVARIANTS BarsPartitionTime AnswersAreWhole ChartsKeepShape AnalyticsFollowOutcomes
INVARIANTS HoverIsOfThisChart DrawnKeepsShape PointerFindsNearest
CHECK_DEADLOCK FALSE
