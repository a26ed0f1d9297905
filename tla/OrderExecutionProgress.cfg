SPECIFICATION FairSpec
CONSTANTS
    w1 = w1
    w2 = w2
    buy1 = buy1
    exit1 = exit1
    exit2 = exit2
    aapl = aapl
    NoOrder = NoOrder
    Workers = {w1, w2}
    Entries = {buy1}
    Exits = {exit1}
    Symbols = {aapl}
    SymbolOf <- MCProgressSymbolOf
    LiveCredentials = FALSE
    Interruptions = {}
INVARIANTS LiveNeedsCredentials
 
