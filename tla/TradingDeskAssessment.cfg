SPECIFICATION Spec
CONSTANTS
    queue = queue
    request = request
    a = a
    b = b
    One = 100
    Workers = {queue}
    Symbols = {a}
    Policies <- MCPolicies
    Price = 10
    Equity = 100
    Today = 0
    Ranges = {1, 2}
    AtrPeriod = 2
    SlowPeriod = 3
    MaxBars <- MCMaxBars
INVARIANT EveryProposalIsAssessed
CHECK_DEADLOCK FALSE
