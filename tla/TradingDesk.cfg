SPECIFICATION FairSpec
CONSTANTS
    queue = queue
    request = request
    a = a
    b = b
    One = 100
    Workers = {queue, request}
    Symbols = {a, b}
    Policies <- MCPolicies
    Price = 10
    Equity = 100
    Today = 0
    Ranges = {1}
    AtrPeriod = 2
    SlowPeriod = 3
    MaxBars <- MCMaxBars
INVARIANTS PortfolioWithinPolicy DeskInv HeldOnlyInUptrend
PROPERTIES ExitsFlatten
CHECK_DEADLOCK FALSE
