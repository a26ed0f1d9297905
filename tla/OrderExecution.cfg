SPECIFICATION Spec
CONSTANTS
    w1 = w1
    w2 = w2
    buy1 = buy1
    exit1 = exit1
    exit2 = exit2
    aapl = aapl
    NoOrder = NoOrder
    Workers = {w1, w2}
    Entries <- MCEntries
    Exits <- MCExits
    Symbols = {aapl}
    SymbolOf <- MCSymbolOf
    LiveCredentials = TRUE
    Interruptions = {"cancel", "crash"}
SYMMETRY WorkerSymmetry
INVARIANTS  SubmitAtMostOnce 
PROPERTIES ClosedGateSendsNothing OrphansStayUnsent KeepsLedger
