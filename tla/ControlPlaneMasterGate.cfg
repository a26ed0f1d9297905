SPECIFICATION Spec
CONSTANTS
    aapl = aapl
    p1 = p1
    p2 = p2
    Symbols = {aapl}
    Policies = {p1, p2}
    LiveCredentials = TRUE
    OrderSubmission = FALSE
    Faults = {}
    MaxVersion = 2
SYMMETRY PolicySymmetry
INVARIANT MasterGateHolds
