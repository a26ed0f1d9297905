SPECIFICATION Spec
CONSTANTS
    a = a
    b = b
    none = none
    None = none
    Symbols = {a, b}
    Ranges = {"1D", "1W"}
    TickDriven = {"1D"}
    FirstRange = "1D"
    Visited <- MCVisited
    Histories <- MCHistories
    TickTimes = {3}
    MaxRefusals = 1
    MaxDisplayPoints = 2
    MaxLiveSeriesPoints = 2
    LivePointInterval = 1
INVARIANTS ChartInv ChartsStaySound SettledChartIsSelected
PROPERTIES ChartCatchesUp
